---------------------------- MODULE RiskSentinel ----------------------------
(***************************************************************************)
(* The risk analysis of sentinel-worker for the logins of one user:        *)
(* processEvents and handleLoginEvent, StandardRiskEngine with its         *)
(* VelocityRule (a counter in Redis) and ImpossibleTravelRule (the last    *)
(* row of login_history), one command or statement per step.               *)
(*                                                                         *)
(* The UserLoggedIn rows come from outside: nothing in this repository     *)
(* writes them into outbox_events, and an event may have a payload that is *)
(* not one of a login.  The relay takes rows from the same table; how it   *)
(* and several workers share it is in Outbox.                              *)
(***************************************************************************)
EXTENDS Integers, Sequences, FiniteSets

CONSTANTS
    Logins,      \* UserLoggedIn events
    Ip,          \* Ip[e]: the address in e's payload
    Batch,       \* the limit processEvents passes to FetchUnprocessed
    VLimit,      \* VelocityRule.limit
    Window,      \* VelocityRule.window, in ticks
    Span,        \* the five seconds of ImpossibleTravelRule, in ticks
    MaxTime,     \* bound: ticks
    MaxFaults    \* bound: failing commands and crashes

ASSUME RiskAssumption ==
    /\ Window \in Nat \ {0} /\ Span \in Nat \ {0} /\ Batch \in Nat \ {0}
    /\ VLimit \in Nat /\ MaxTime \in Nat /\ MaxFaults \in Nat

VARIABLES
    time,
    loginAt,     \* loginAt[e]: login_at and created_at of e, or NotYet
    unprocessed, \* rows with processed_at NULL
    malformed,   \* events whose payload does not unmarshal
    relayed,     \* history: rows that the relay marked
    velocity,    \* risk:velocity:<user>: [count, expires], count 0 when absent
    born,        \* when velocity's key was created
    countedAt,   \* countedAt[e]: when e was last counted, or NotYet
    handled,     \* handled[e]: times e was analysed
    history,     \* login_history: [ip, at]
    step,        \* where the worker is
    todo,        \* the rest of its batch
    score,       \* rules that answered 1.0 for the event at hand
    faults

riskVars ==
    <<time, loginAt, unprocessed, malformed, relayed, velocity, born, countedAt,
      handled, history, step, todo, score, faults>>

rowVars == <<loginAt, unprocessed, malformed, relayed>>
counterVars == <<velocity, born, countedAt>>

NotYet == -1
Never == -1
NoVelocity == [count |-> 0, expires |-> Never]

RiskInit ==
    /\ time = 0
    /\ loginAt = [e \in Logins |-> NotYet]
    /\ unprocessed = {} /\ malformed = {} /\ relayed = {}
    /\ velocity = NoVelocity /\ born = NotYet
    /\ countedAt = [e \in Logins |-> NotYet]
    /\ handled = [e \in Logins |-> 0]
    /\ history = {}
    /\ step = "idle" /\ todo = <<>> /\ score = {}
    /\ faults = 0

Fault == faults < MaxFaults /\ faults' = faults + 1

-----------------------------------------------------------------------------
LoginHappens(e) ==
    /\ loginAt[e] = NotYet
    /\ loginAt' = [loginAt EXCEPT ![e] = time]
    /\ unprocessed' = unprocessed \cup {e}
    /\ malformed' \in {malformed, malformed \cup {e}}
    /\ UNCHANGED <<time, relayed, counterVars, handled, history, step, todo, score, faults>>

\* The relay publishes the row and marks it, whoever has it in hand.
RelayMarks(e) ==
    /\ e \in unprocessed
    /\ unprocessed' = unprocessed \ {e}
    /\ relayed' = relayed \cup {e}
    /\ UNCHANGED <<time, loginAt, malformed, counterVars, handled, history, step, todo,
                   score, faults>>

RiskTick ==
    /\ time < MaxTime
    /\ time' = time + 1
    /\ IF velocity.count > 0 /\ velocity.expires = time'
       THEN velocity' = NoVelocity /\ born' = NotYet
       ELSE UNCHANGED <<velocity, born>>
    /\ UNCHANGED <<rowVars, countedAt, handled, history, step, todo, score, faults>>

\* FetchUnprocessed: ORDER BY created_at ASC LIMIT n.
OldestLogins ==
    {s \in UNION {[1 .. k -> unprocessed] : k \in 1 .. Batch} :
        /\ \A i, j \in DOMAIN s : i < j => s[i] # s[j] /\ loginAt[s[i]] <= loginAt[s[j]]
        /\ \A e \in unprocessed : (\A i \in DOMAIN s : s[i] # e) =>
              Len(s) = Batch /\ \A i \in DOMAIN s : loginAt[s[i]] <= loginAt[e]}

FetchEvents ==
    /\ step = "idle"
    /\ \E s \in OldestLogins : todo' = s
    /\ step' = "incr" /\ score' = {}
    /\ UNCHANGED <<time, rowVars, counterVars, handled, history, faults>>

\* An empty batch, or the query fails.
NothingFetched == step = "idle" /\ UNCHANGED riskVars

Event == Head(todo)

-----------------------------------------------------------------------------
(* handleLoginEvent: the payload, then VelocityRule.Evaluate.              *)

\* A payload that does not unmarshal: the handler returns, and the row will be
\* marked all the same.
SkipMalformed ==
    /\ step = "incr" /\ Event \in malformed
    /\ step' = "mark"
    /\ UNCHANGED <<time, rowVars, counterVars, handled, history, todo, score, faults>>

OverLimit(n) == n > VLimit

\* INCR.
CountLogin ==
    /\ velocity' = [velocity EXCEPT !.count = @ + 1]
    /\ born' = IF velocity.count = 0 THEN time ELSE born
    /\ countedAt' = [countedAt EXCEPT ![Event] = time]

EvaluateVelocity ==
    /\ step = "incr" /\ Event \notin malformed
    /\ CountLogin
    /\ score' = IF OverLimit(velocity.count + 1) THEN {"velocity"} ELSE {}
    /\ step' = IF velocity.count = 0 THEN "expire" ELSE "travel"
    /\ handled' = [handled EXCEPT ![Event] = @ + 1]
    /\ UNCHANGED <<time, rowVars, history, todo, faults>>

\* INCR fails, or is done and its reply lost: Analyze logs it and goes on with no
\* score for the rule, and nobody sets the expiry.
VelocityFails ==
    /\ step = "incr" /\ Event \notin malformed /\ Fault
    /\ CountLogin \/ UNCHANGED counterVars
    /\ handled' = [handled EXCEPT ![Event] = @ + 1]
    /\ step' = "travel"
    /\ UNCHANGED <<time, rowVars, history, todo, score>>

SetExpiry ==
    /\ step = "expire"
    /\ velocity' = IF velocity.count = 0 THEN velocity
                   ELSE [velocity EXCEPT !.expires = time + Window]
    /\ step' = "travel"
    /\ UNCHANGED <<time, rowVars, born, countedAt, handled, history, todo, score, faults>>

\* The error of EXPIRE is dropped.
ExpiryLost ==
    /\ step = "expire" /\ Fault
    /\ step' = "travel"
    /\ UNCHANGED <<time, rowVars, counterVars, handled, history, todo, score>>

-----------------------------------------------------------------------------
(* ImpossibleTravelRule.Evaluate.                                          *)

\* GetLastLogin: ORDER BY login_at DESC LIMIT 1.
LastLogin == {h \in history : \A g \in history : g.at <= h.at}

\* Mutant of Impossible: the time between the logins is not looked at.
Impossible_AnyAge(h, e) == h.ip # Ip[e]

Impossible(h, e) == h.ip # Ip[e] /\ time - h.at < Span

EvaluateTravel ==
    /\ step = "travel"
    /\ \/ LastLogin = {} /\ UNCHANGED score
       \/ \E h \in LastLogin :
             score' = IF Impossible(h, Event) THEN score \cup {"travel"} ELSE score
    /\ step' = "save"
    /\ UNCHANGED <<time, rowVars, counterVars, handled, history, todo, faults>>

\* GetLastLogin answers a failing query with no row and no error.
LastLoginFails ==
    /\ step = "travel" /\ Fault
    /\ step' = "save"
    /\ UNCHANGED <<time, rowVars, counterVars, handled, history, todo, score>>

\* With a score of 1.0 the worker then publishes a map, which the Redis client
\* cannot marshal: the error is logged and no signal leaves.
SaveHistory ==
    /\ step = "save"
    /\ history' = history \cup {[ip |-> Ip[Event], at |-> loginAt[Event]]}
    /\ step' = "mark"
    /\ UNCHANGED <<time, rowVars, counterVars, handled, todo, score, faults>>

\* A failing INSERT is only logged.
SaveHistoryFails ==
    /\ step = "save" /\ Fault
    /\ step' = "mark"
    /\ UNCHANGED <<time, rowVars, counterVars, handled, history, todo, score>>

NextEvent ==
    /\ todo' = Tail(todo)
    /\ step' = IF Len(todo) = 1 THEN "idle" ELSE "incr"
    /\ score' = {}

\* Mutant of MarkEvent: the whole batch is marked with its first event.
MarkEvent_Batch ==
    /\ step = "mark"
    /\ unprocessed' = unprocessed \ {todo[i] : i \in DOMAIN todo}
    /\ NextEvent
    /\ UNCHANGED <<time, loginAt, malformed, relayed, counterVars, handled, history, faults>>

MarkEvent ==
    /\ step = "mark"
    /\ unprocessed' = unprocessed \ {Event}
    /\ NextEvent
    /\ UNCHANGED <<time, loginAt, malformed, relayed, counterVars, handled, history, faults>>

MarkEventFails ==
    /\ step = "mark" /\ Fault
    /\ NextEvent
    /\ UNCHANGED <<time, rowVars, counterVars, handled, history>>

SentinelCrash ==
    /\ step # "idle" /\ Fault
    /\ step' = "idle" /\ todo' = <<>> /\ score' = {}
    /\ UNCHANGED <<time, rowVars, counterVars, handled, history>>

SentinelWorks ==
    \/ FetchEvents \/ SkipMalformed \/ EvaluateVelocity \/ SetExpiry
    \/ EvaluateTravel \/ SaveHistory \/ MarkEvent

RiskNext ==
    \/ \E e \in Logins : LoginHappens(e) \/ RelayMarks(e)
    \/ RiskTick \/ SentinelWorks \/ NothingFetched
    \/ VelocityFails \/ ExpiryLost \/ LastLoginFails \/ SaveHistoryFails
    \/ MarkEventFails \/ SentinelCrash

RiskSpec == RiskInit /\ [][RiskNext]_riskVars

-----------------------------------------------------------------------------
(* Types, and what ties the counter to its ghost: a live key was created   *)
(* by a counted login, and no key outlives its expiry.                     *)
RiskTypeOK ==
    /\ \A e \in Logins : loginAt[e] \in NotYet .. time /\ handled[e] \in Nat
    /\ unprocessed \cup malformed \cup relayed \subseteq Logins
    /\ todo \in Seq(Logins)
    /\ \A h \in history : h.at \in 0 .. time
    /\ score \subseteq {"velocity", "travel"}
    /\ velocity.count > 0 => born \in 0 .. time
    /\ velocity.expires # Never => velocity.count > 0 /\ velocity.expires > time
    /\ step # "idle" => todo # <<>> /\ loginAt[Event] # NotYet

RecentlyCounted ==
    {e \in Logins : countedAt'[e] # NotYet /\ time - countedAt'[e] < Window}

(* The velocity alarm of "5 logins per minute" (VelocityRule) is right: it *)
(* is raised for more than the limit of distinct logins counted within one *)
(* window, unless a login was counted again after a failed mark or crash,  *)
(* or the key's EXPIRE was lost (its own reply or that of INCR) or late.   *)
VelocityExplained ==
    (step = "incr" /\ "velocity" \in score') =>
        \/ Cardinality(RecentlyCounted) > VLimit
        \/ \E e \in Logins : handled'[e] > 1
        \/ velocity.count > 0 /\ velocity.expires # born + Window

(* ImpossibleTravelRule compares the last login with the time of the       *)
(* analysis and not with the login at hand; still the alarm means two      *)
(* logins from two addresses less than Span apart, unless the login at     *)
(* hand is analysed again after a later one.                               *)
TravelExplained ==
    (step = "travel" /\ "travel" \in score') =>
        \E h \in history :
           /\ h.ip # Ip[Event]
           /\ \/ h.at - loginAt[Event] \in (1 - Span) .. (Span - 1)
              \/ h.at > loginAt[Event] /\ handled[Event] > 1

(* No alarm without a cause, although events are analysed late, again and  *)
(* out of order, and the commands of the velocity counter fail singly.     *)
AlarmExplained == [][VelocityExplained /\ TravelExplained]_riskVars

(* A login leaves the table only after it was analysed, however marks fail *)
(* and the worker dies in between, with two exceptions: a payload that     *)
(* does not unmarshal, and a row that the relay marked first.              *)
MarkedWereAnalysed ==
    \A e \in Logins :
        loginAt[e] # NotYet /\ e \notin unprocessed =>
            handled[e] > 0 \/ e \in malformed \cup relayed

\* The batch in hand and the table agree, and no login that can be read is marked
\* by the worker without analysis.
MarksSound == RiskTypeOK /\ MarkedWereAnalysed

=============================================================================
