----------------------------- MODULE Documents ------------------------------
(***************************************************************************)
(* Verification of one CPF: the service, the cached answer in Redis, the   *)
(* circuit breaker and the metrics around the Serpro adapter               *)
(* (document_service.go, cached_document_verification.go,                  *)
(* circuit_breaker_verification.go, metrics_verification.go, adapter.go).  *)
(* The breaker is the library gobreaker with the settings of this code; a  *)
(* call belongs to the generation of the breaker it began in, so req[p]   *)
(* keeps whether that generation is still the current one.                 *)
(***************************************************************************)
EXTENDS Naturals, FiniteSets

CONSTANTS
    Verifiers,      \* requests that can be in progress together
    MaxRequests,    \* calls a half-open breaker lets through (3)
    Interval,       \* ticks after which a closed breaker forgets (30 s)
    Timeout,        \* ticks a breaker stays open (60 s)
    MaxCount        \* bound: calls counted in one generation

ASSUME DocumentsAssumption ==
    /\ MaxRequests \in Nat \ {0} /\ Interval \in Nat /\ Timeout \in Nat
    /\ MaxCount \in Nat /\ MaxCount >= MaxRequests
    /\ IsFiniteSet(Verifiers)

VARIABLES
    serpro,         \* what the provider answers now
    breaker,        \* the circuit breaker
    answer,         \* document:verification:cpf:<cpf> in Redis
    req,           \* req[p]: request p
    told            \* history: verdicts the provider has given

documentVars == <<serpro, breaker, answer, req, told>>

Verdicts == {"regular", "irregular"}

\* What request p knows: nothing, a verdict, or that the call failed.
Outcomes == Verdicts \cup {"none", "error"}

\* A breaker at the beginning of a generation.
NewGeneration(s) ==
    [state |-> s, requests |-> 0, successes |-> 0, failures |-> 0,
     left |-> CASE s = "closed" -> Interval [] s = "open" -> Timeout
                [] s = "half-open" -> 0]

NoCall == [step |-> "idle", counted |-> FALSE, outcome |-> "none"]

DocumentTypeOK ==
    /\ serpro \in Verdicts \cup {"error"}
    /\ breaker \in [state : {"closed", "open", "half-open"},
                    requests : 0 .. MaxCount, successes : 0 .. MaxCount,
                    failures : 0 .. MaxCount, left : 0 .. Interval + Timeout]
    /\ answer \in Verdicts \cup {"none"}
    /\ req \in [Verifiers -> [step : {"idle", "execute", "running", "set",
                                       "decide", "record"},
                               counted : BOOLEAN, outcome : Outcomes]]
    /\ told \subseteq Verdicts

DocumentInit ==
    /\ serpro = "regular"
    /\ breaker = NewGeneration("closed")
    /\ answer = "none"
    /\ req = [p \in Verifiers |-> NoCall]
    /\ told = {}

Step(p, step, outcome) == [req[p] EXCEPT !.step = step, !.outcome = outcome]

-----------------------------------------------------------------------------
(* The circuit breaker.                                                    *)

\* Every call that runs belongs to an older generation from now on.
Forgotten == [q \in Verifiers |-> [req[q] EXCEPT !.counted = FALSE]]

\* Mutant of Expired: an open breaker whose timeout is over stays open.
Expired_ClosedOnly == breaker.left = 0 /\ breaker.state = "closed"

\* currentState: a closed breaker whose interval is over begins a generation,
\* an open one whose timeout is over is half-open.
Expired == breaker.left = 0 /\ breaker.state \in {"closed", "open"}

Current ==
    IF ~Expired THEN breaker
    ELSE NewGeneration(IF breaker.state = "open" THEN "half-open" ELSE "closed")

CurrentCalls == IF Expired THEN Forgotten ELSE req

\* At least three requests, and at least 60 per cent of them failures; the
\* requests that have not returned yet count.
ReadyToTrip(b) == b.requests >= 3 /\ 10 * b.failures >= 6 * b.requests

\* beforeRequest refuses: open, or half-open with MaxRequests begun.
Refused(b) ==
    \/ b.state = "open"
    \/ b.state = "half-open" /\ b.requests >= MaxRequests

\* afterRequest of a call of the current generation.
Counted(b, ok) ==
    LET c == IF ok THEN [b EXCEPT !.successes = @ + 1] ELSE [b EXCEPT !.failures = @ + 1]
    IN  CASE b.state = "closed" /\ ~ok /\ ReadyToTrip(c) -> NewGeneration("open")
          [] b.state = "half-open" /\ ~ok -> NewGeneration("open")
          [] b.state = "half-open" /\ ok /\ c.successes >= MaxRequests ->
                NewGeneration("closed")
          [] OTHER -> c

-----------------------------------------------------------------------------
(* A request.                                                              *)

\* ValidateCPF of a CPF with the right digits; GET of the cached answer, whose
\* failure counts as a miss.
LookCached(p) ==
    /\ req[p].step = "idle"
    /\ \/ answer # "none" /\ req' = [req EXCEPT ![p] = Step(p, "decide", answer)]
       \/ req' = [req EXCEPT ![p] = Step(p, "execute", "none")]
    /\ UNCHANGED <<serpro, breaker, answer, told>>

\* Execute asks the breaker before it calls the provider.
Execute(p) ==
    /\ req[p].step = "execute"
    /\ IF Refused(Current)
       THEN /\ breaker' = Current
            /\ req' = [CurrentCalls EXCEPT ![p] = Step(p, "decide", "error")]
       ELSE /\ Current.requests < MaxCount
            /\ breaker' = [Current EXCEPT !.requests = @ + 1]
            /\ req' = [CurrentCalls EXCEPT
                           ![p] = [Step(p, "running", "none") EXCEPT !.counted = TRUE]]
    /\ UNCHANGED <<serpro, answer, told>>

\* Request p returns with an outcome, to be cached or not, and leaves the
\* breaker as it is after.
Returned(p, after, step, outcome) ==
    LET calls == IF after.requests = 0 THEN Forgotten ELSE CurrentCalls
    IN  /\ req[p].step = "running"
        /\ breaker' = after
        /\ req' = [calls EXCEPT ![p] = [Step(p, step, outcome) EXCEPT !.counted = FALSE]]
        /\ UNCHANGED <<serpro, answer>>

\* The breaker after the call of p gave said.
AfterCall(p, said) ==
    IF CurrentCalls[p].counted THEN Counted(Current, said # "error") ELSE Current

Hear(said) == told' = told \cup ({said} \cap Verdicts)

\* Mutant of Return: a call of an older generation counts as well.
Return_AnyGeneration(p) ==
    /\ Returned(p, IF Current.requests = 0 THEN Current ELSE Counted(Current, serpro # "error"),
                IF serpro = "error" THEN "decide" ELSE "set", serpro)
    /\ Hear(serpro)

\* Mutant of Return: a failure is kept as an irregular CPF.
Return_ErrorIsVerdict(p) ==
    /\ Returned(p, AfterCall(p, serpro), "set",
                IF serpro = "error" THEN "irregular" ELSE serpro)
    /\ Hear(serpro)

\* The provider answers or fails (a 404 is an answer); the breaker counts it if
\* its generation is the one the call began in.  Only an answer is cached.
Return(p) ==
    /\ Returned(p, AfterCall(p, serpro), IF serpro = "error" THEN "decide" ELSE "set", serpro)
    /\ Hear(serpro)

\* The client of the request is gone: the call ends with its context, and that is
\* a failure for the breaker, whatever the provider would have said.
CallCancelled(p) ==
    /\ Returned(p, AfterCall(p, "error"), "decide", "error")
    /\ UNCHANGED told

\* SET of the answer with its life of 24 hours; a failure is logged only.
CacheAnswer(p) ==
    /\ req[p].step = "set"
    /\ answer' \in {req[p].outcome, answer}
    /\ req' = [req EXCEPT ![p] = Step(p, "decide", @.outcome)]
    /\ UNCHANGED <<serpro, breaker, told>>

\* An irregular CPF is refused, and that is not recorded; an error falls back
\* to the check digits, which were right.
Decide(p) ==
    /\ req[p].step = "decide"
    /\ req' = [req EXCEPT ![p] =
                   IF @.outcome = "irregular" THEN NoCall ELSE Step(p, "record", @.outcome)]
    /\ UNCHANGED <<serpro, breaker, answer, told>>

\* The goroutine saves the verification record, or fails to.
SaveVerification(p) ==
    /\ req[p].step = "record"
    /\ req' = [req EXCEPT ![p] = NoCall]
    /\ UNCHANGED <<serpro, breaker, answer, told>>

VerifyStep(p) ==
    LookCached(p) \/ Execute(p) \/ Return(p) \/ CacheAnswer(p) \/ Decide(p)
    \/ SaveVerification(p)

-----------------------------------------------------------------------------

DocumentTick ==
    /\ breaker.left > 0
    /\ breaker' = [breaker EXCEPT !.left = @ - 1]
    /\ UNCHANGED <<serpro, answer, req, told>>

AnswerExpires ==
    /\ answer # "none"
    /\ answer' = "none"
    /\ UNCHANGED <<serpro, breaker, req, told>>

\* The provider fails, comes back, or has another verdict.
SerproChanges(s) ==
    /\ s # serpro
    /\ serpro' = s
    /\ UNCHANGED <<breaker, answer, req, told>>

DocumentNext ==
    \/ \E p \in Verifiers : VerifyStep(p) \/ CallCancelled(p)
    \/ DocumentTick \/ AnswerExpires
    \/ \E s \in Verdicts \cup {"error"} : SerproChanges(s)

\* Time passes, keys expire, and every request goes on; requests keep coming.
DocumentSpec ==
    /\ DocumentInit /\ [][DocumentNext]_documentVars
    /\ WF_documentVars(DocumentTick) /\ WF_documentVars(AnswerExpires)
    /\ \A p \in Verifiers : WF_documentVars(VerifyStep(p))

-----------------------------------------------------------------------------
(* Properties.                                                             *)

\* What the breaker has counted is what began in its generation: every request
\* it counted returned or is still running, and no call of an older generation
\* is part of the sum.
BreakerCountsExact ==
    breaker.requests = breaker.successes + breaker.failures
                       + Cardinality({p \in Verifiers : req[p].counted})

\* A half-open breaker never refuses for ever: when it lets nobody through, one
\* of the calls that will close or open it is still running.
HalfOpenDrains ==
    breaker.state = "half-open" /\ Refused(breaker) =>
        \E p \in Verifiers : req[p].counted /\ req[p].step = "running"

\* A CPF is refused only if the provider called it irregular; an open breaker,
\* a failure of the provider or of Redis never refuses one.
NoFalseRejection ==
    [][\A p \in Verifiers :
          Decide(p) /\ req'[p] = NoCall => "irregular" \in told]_documentVars

\* When the provider is up for good and clients wait for their answers, the
\* breaker is closed again and again.
BreakerRecovers ==
    /\ <>[](serpro # "error")
    /\ <>[][\A p \in Verifiers : ~CallCancelled(p)]_documentVars
    => []<>(breaker.state = "closed")

\* The breaker counts exactly the calls of its generation and can leave the
\* half-open state, however late the calls of older generations return.
BreakerSound == DocumentTypeOK /\ BreakerCountsExact /\ HalfOpenDrains

=============================================================================
