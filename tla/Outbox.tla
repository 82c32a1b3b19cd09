------------------------------- MODULE Outbox -------------------------------
(***************************************************************************)
(* The transactional outbox.                                               *)
(*                                                                         *)
(* Writers (RegisterWithTenant, CreateCompany) run one database            *)
(* transaction each: the business rows and then one INSERT into            *)
(* outbox_events per event (outbox/publisher.go, postgres/transaction.go). *)
(* Two programs read the table: cmd/identity-worker (a Relay: publish,     *)
(* then mark) and cmd/sentinel-worker (a Sentinel: handle, then mark).     *)
(* They share the processed_at column.                                     *)
(*                                                                         *)
(* handleLoginEvent is not modelled here: no writer puts a UserLoggedIn    *)
(* event into the table, so a Sentinel only marks what it fetches.         *)
(***************************************************************************)
EXTENDS Naturals, Sequences, Functions

CONSTANTS
    Txns,           \* business transactions, each run once
    Events,         \* outbox_events rows
    Writes,         \* Writes[t]: the events transaction t inserts, in order
    Relays,         \* identity-worker processes
    Sentinels,      \* sentinel-worker processes
    RelayBatch,     \* Processor.batchSize
    SentinelBatch,  \* the limit processEvents passes to FetchUnprocessed
    Poison,         \* events the broker refuses for ever
    MaxLost,        \* bound: failing UPDATEs per relay and event
    MaxCrash        \* bound: crashes and shutdowns of a worker

Workers == Relays \cup Sentinels

EventsOf(t) == Range(Writes[t])

TxOf(e) == CHOOSE t \in Txns : e \in EventsOf(t)

ASSUME WritesAssumption ==
    /\ Writes \in [Txns -> Seq(Events)]
    /\ \A e \in Events : \E t \in Txns : e \in EventsOf(t)
    /\ \A t, u \in Txns : t # u => EventsOf(t) \cap EventsOf(u) = {}

ASSUME WorkerAssumption == Relays \cap Sentinels = {}

ASSUME BoundAssumption ==
    /\ RelayBatch \in Nat \ {0}
    /\ SentinelBatch \in Nat \ {0}
    /\ MaxLost \in Nat
    /\ MaxCrash \in Nat

VARIABLES
    phase,          \* phase[t]: "new", "open", "committed", "aborted"
    wrote,          \* wrote[t]: statements of t executed so far
    held,           \* held[t]: outbox rows inserted by t and not yet committed
    startedAt,      \* startedAt[t]: NOW() inside t, its rows' created_at
    clock,          \* transactions begun so far
    data,           \* transactions whose business rows are visible
    table,          \* visible outbox rows
    processed,      \* rows whose processed_at is set
    pc,             \* pc[w]: where worker w is in its polling loop
    batch,          \* batch[w]: the rows w fetched
    pos,            \* pos[w]: index of the row w is working on
    locked,         \* locked[w]: row locks of w's running SELECT ... FOR UPDATE
    stopping,       \* relays whose context is cancelled (SIGTERM)
    crashes,        \* crashes[w]: crashes and shutdowns so far
    published,      \* published[w][e]: times relay w handed e to the broker
    lost            \* lost[w][e]: of these, the ones whose mark did not happen

txVars == <<phase, wrote, held, startedAt, clock, data, table>>
loopVars == <<pc, batch, pos>>
vars == <<txVars, loopVars, processed, locked, stopping, crashes, published,
          lost>>

PcStates == {"idle", "reading", "publish", "mark", "down"}

TypeOK ==
    /\ phase \in [Txns -> {"new", "open", "committed", "aborted"}]
    /\ wrote \in [Txns -> Nat]
    /\ held \in [Txns -> SUBSET Events]
    /\ startedAt \in [Txns -> Nat]
    /\ clock \in Nat
    /\ data \subseteq Txns
    /\ table \subseteq Events
    /\ processed \subseteq Events
    /\ pc \in [Workers -> PcStates]
    /\ batch \in [Workers -> Seq(Events)]
    /\ pos \in [Workers -> Nat \ {0}]
    /\ locked \in [Workers -> SUBSET Events]
    /\ stopping \subseteq Relays
    /\ crashes \in [Workers -> Nat]
    /\ published \in [Relays -> [Events -> Nat]]
    /\ lost \in [Relays -> [Events -> Nat]]

Init ==
    /\ phase = [t \in Txns |-> "new"]
    /\ wrote = [t \in Txns |-> 0]
    /\ held = [t \in Txns |-> {}]
    /\ startedAt = [t \in Txns |-> 0]
    /\ clock = 0
    /\ data = {}
    /\ table = {}
    /\ processed = {}
    /\ pc = [w \in Workers |-> "idle"]
    /\ batch = [w \in Workers |-> <<>>]
    /\ pos = [w \in Workers |-> 1]
    /\ locked = [w \in Workers |-> {}]
    /\ stopping = {}
    /\ crashes = [w \in Workers |-> 0]
    /\ published = [w \in Relays |-> [e \in Events |-> 0]]
    /\ lost = [w \in Relays |-> [e \in Events |-> 0]]

-----------------------------------------------------------------------------
(* The writers: RunInTransaction around the business writes and Publish.   *)

\* tm.pool.Begin: NOW() is fixed here for every row of the transaction.
Begin(t) ==
    /\ phase[t] = "new"
    /\ phase' = [phase EXCEPT ![t] = "open"]
    /\ clock' = clock + 1
    /\ startedAt' = [startedAt EXCEPT ![t] = clock + 1]
    /\ UNCHANGED <<wrote, held, data, table, processed, loopVars, locked,
                   stopping, crashes, published, lost>>

\* The business rows (tenant, user, tuple; company, membership).
WriteBusinessRows(t) ==
    /\ phase[t] = "open"
    /\ wrote[t] = 0
    /\ wrote' = [wrote EXCEPT ![t] = 1]
    /\ UNCHANGED <<phase, held, startedAt, clock, data, table, processed,
                   loopVars, locked, stopping, crashes, published, lost>>

\* Mutant of PublishToOutbox: the INSERT runs on the pool, not in the
\* transaction of the context.
PublishToOutbox_OnPool(t) ==
    /\ phase[t] = "open"
    /\ wrote[t] \in 1 .. Len(Writes[t])
    /\ table' = table \cup {Writes[t][wrote[t]]}
    /\ wrote' = [wrote EXCEPT ![t] = @ + 1]
    /\ UNCHANGED <<phase, held, startedAt, clock, data, processed, loopVars,
                   locked, stopping, crashes, published, lost>>

\* Publisher.Publish: GetExecutor finds the transaction in the context, so
\* the row stays invisible until the commit.
PublishToOutbox(t) ==
    /\ phase[t] = "open"
    /\ wrote[t] \in 1 .. Len(Writes[t])
    /\ held' = [held EXCEPT ![t] = @ \cup {Writes[t][wrote[t]]}]
    /\ wrote' = [wrote EXCEPT ![t] = @ + 1]
    /\ UNCHANGED <<phase, startedAt, clock, data, table, processed, loopVars,
                   locked, stopping, crashes, published, lost>>

Commit(t) ==
    /\ phase[t] = "open"
    /\ wrote[t] = Len(Writes[t]) + 1
    /\ phase' = [phase EXCEPT ![t] = "committed"]
    /\ data' = data \cup {t}
    /\ table' = table \cup held[t]
    /\ held' = [held EXCEPT ![t] = {}]
    /\ UNCHANGED <<wrote, startedAt, clock, processed, loopVars, locked,
                   stopping, crashes, published, lost>>

\* A statement or the commit fails, or the process dies: the rollback.
Rollback(t) ==
    /\ phase[t] = "open"
    /\ phase' = [phase EXCEPT ![t] = "aborted"]
    /\ held' = [held EXCEPT ![t] = {}]
    /\ UNCHANGED <<wrote, startedAt, clock, data, table, processed, loopVars,
                   locked, stopping, crashes, published, lost>>

-----------------------------------------------------------------------------
(* The readers.                                                            *)

CreatedAt(e) == startedAt[TxOf(e)]

\* Mutant of Unprocessed: WHERE processed_at IS NULL is dropped.
Unprocessed_All == table


Unprocessed == table \ processed

\* SELECT ... WHERE processed_at IS NULL ORDER BY created_at ASC LIMIT n over
\* the rows S: distinct rows, oldest first, ties in any order.
OldestFirst(S, n) ==
    {s \in UNION {[1 .. k -> S] : k \in 0 .. n} :
        /\ \A i, j \in DOMAIN s :
              i < j => s[i] # s[j] /\ CreatedAt(s[i]) <= CreatedAt(s[j])
        /\ \A e \in S \ Range(s) :
              /\ Len(s) = n
              /\ \A i \in DOMAIN s : CreatedAt(s[i]) <= CreatedAt(e)}

Current(w) == batch[w][pos[w]]

\* The range loop goes on to the next row, or the loop ends: back to the
\* ticker, or out of Start when the context is cancelled.
Advance(w) ==
    /\ UNCHANGED batch
    /\ pos' = [pos EXCEPT ![w] = @ + 1]
    /\ pc' = [pc EXCEPT ![w] = IF pos[w] < Len(batch[w])
                               THEN IF w \in Relays THEN "publish" ELSE "mark"
                               ELSE IF w \in stopping THEN "down" ELSE "idle"]

\* processBatch: the query.
FetchBatch(w) ==
    /\ pc[w] = "idle"
    /\ w \notin stopping
    /\ \E s \in OldestFirst(Unprocessed, RelayBatch) :
          /\ batch' = [batch EXCEPT ![w] = s]
          /\ pos' = [pos EXCEPT ![w] = 1]
          /\ pc' = [pc EXCEPT ![w] = IF Len(s) = 0 THEN "idle" ELSE "publish"]
    /\ UNCHANGED <<txVars, processed, locked, stopping, crashes, published,
                   lost>>

\* p.publisher.Publish succeeds.
PublishOk(w) ==
    /\ pc[w] = "publish"
    /\ Current(w) \notin Poison
    /\ published' = [published EXCEPT ![w][Current(w)] = @ + 1]
    /\ pc' = [pc EXCEPT ![w] = "mark"]
    /\ UNCHANGED <<txVars, processed, batch, pos, locked, stopping, crashes,
                   lost>>

\* Mutant of PublishFail: return instead of continue.
PublishFail_Return(w) ==
    /\ pc[w] = "publish"
    /\ pc' = [pc EXCEPT ![w] = IF w \in stopping THEN "down" ELSE "idle"]
    /\ UNCHANGED <<txVars, processed, batch, pos, locked, stopping, crashes,
                   published, lost>>

\* p.publisher.Publish fails: continue, the row stays unprocessed.
PublishFail(w) ==
    /\ pc[w] = "publish"
    /\ Advance(w)
    /\ UNCHANGED <<txVars, processed, locked, stopping, crashes, published,
                   lost>>

\* UPDATE ... SET processed_at waits for the row lock of a running SELECT.
RowFree(w, e) == \A v \in Workers \ {w} : e \notin locked[v]

\* UPDATE ... SET processed_at = NOW() WHERE id = $1.
MarkProcessed(w) ==
    /\ pc[w] = "mark"
    /\ w \notin stopping
    /\ RowFree(w, Current(w))
    /\ processed' = processed \cup {Current(w)}
    /\ Advance(w)
    /\ UNCHANGED <<txVars, locked, stopping, crashes, published, lost>>

\* The UPDATE fails; with a cancelled context it always does.
MarkFail(w) ==
    /\ pc[w] = "mark"
    /\ IF w \in Relays
       THEN /\ w \in stopping \/ lost[w][Current(w)] < MaxLost
            /\ lost' = [lost EXCEPT ![w][Current(w)] = @ + 1]
       ELSE UNCHANGED lost
    /\ Advance(w)
    /\ UNCHANGED <<txVars, processed, locked, stopping, crashes, published>>

\* FetchUnprocessed: the statement locks what it selects and skips what is
\* locked; it runs on the pool, outside a transaction.
FetchUnprocessed(w) ==
    /\ pc[w] = "idle"
    /\ \E s \in OldestFirst(Unprocessed \ UNION {locked[v] : v \in Workers},
                            SentinelBatch) :
          /\ batch' = [batch EXCEPT ![w] = s]
          /\ pos' = [pos EXCEPT ![w] = 1]
          /\ locked' = [locked EXCEPT ![w] = Range(s)]
          /\ pc' = [pc EXCEPT ![w] = IF Len(s) = 0 THEN "idle" ELSE "reading"]
    /\ UNCHANGED <<txVars, processed, stopping, crashes, published, lost>>

\* rows.Close: the implicit transaction ends and its locks go.
RowsClose(w) ==
    /\ pc[w] = "reading"
    /\ locked' = [locked EXCEPT ![w] = {}]
    /\ pc' = [pc EXCEPT ![w] = "mark"]
    /\ UNCHANGED <<txVars, processed, batch, pos, stopping, crashes, published,
                   lost>>

\* SIGTERM cancels the relay's context: the loop still runs to the end of
\* the batch, and Start returns at the next select.
Shutdown(w) ==
    /\ pc[w] # "down"
    /\ w \notin stopping
    /\ crashes[w] < MaxCrash
    /\ crashes' = [crashes EXCEPT ![w] = @ + 1]
    /\ IF pc[w] = "idle"
       THEN pc' = [pc EXCEPT ![w] = "down"] /\ UNCHANGED stopping
       ELSE stopping' = stopping \cup {w} /\ UNCHANGED pc
    /\ UNCHANGED <<txVars, processed, batch, pos, locked, published, lost>>

\* The worker process dies anywhere; the server drops its locks.
Crash(w) ==
    /\ pc[w] # "down"
    /\ crashes[w] < MaxCrash
    /\ lost' = IF w \in Relays /\ pc[w] = "mark"
               THEN [lost EXCEPT ![w][Current(w)] = @ + 1]
               ELSE lost
    /\ crashes' = [crashes EXCEPT ![w] = @ + 1]
    /\ pc' = [pc EXCEPT ![w] = "down"]
    /\ locked' = [locked EXCEPT ![w] = {}]
    /\ UNCHANGED <<txVars, processed, batch, pos, stopping, published>>

\* The worker is started again with empty memory.
Restart(w) ==
    /\ pc[w] = "down"
    /\ pc' = [pc EXCEPT ![w] = "idle"]
    /\ batch' = [batch EXCEPT ![w] = <<>>]
    /\ pos' = [pos EXCEPT ![w] = 1]
    /\ stopping' = stopping \ {w}
    /\ UNCHANGED <<txVars, processed, locked, crashes, published, lost>>

WriterStep(t) ==
    \/ Begin(t)
    \/ WriteBusinessRows(t)
    \/ PublishToOutbox(t)
    \/ Commit(t)
    \/ Rollback(t)

RelayStep(w) ==
    \/ FetchBatch(w)
    \/ PublishOk(w)
    \/ PublishFail(w)
    \/ Shutdown(w)

SentinelStep(w) ==
    \/ FetchUnprocessed(w)
    \/ RowsClose(w)

WorkerStep(w) ==
    \/ MarkProcessed(w)
    \/ MarkFail(w)
    \/ Crash(w)
    \/ Restart(w)

Next ==
    \/ \E t \in Txns : WriterStep(t)
    \/ \E w \in Relays : RelayStep(w)
    \/ \E w \in Sentinels : SentinelStep(w)
    \/ \E w \in Workers : WorkerStep(w)

Spec == Init /\ [][Next]_vars

(***************************************************************************)
(* The ticker fires for ever and a supervisor restarts a worker, so every  *)
(* step of a polling loop is taken (weak fairness).  A broker that is      *)
(* offered an event it accepts again and again takes it at last, and an    *)
(* UPDATE that is tried again and again succeeds at last (strong).         *)
(* Writers are not fair: a request may never come.                         *)
(***************************************************************************)
Fairness ==
    /\ \A w \in Relays :
          /\ WF_vars(FetchBatch(w))
          /\ WF_vars(PublishOk(w) \/ PublishFail(w))
          /\ \A e \in Events : SF_vars(PublishOk(w) /\ Current(w) = e)
    /\ \A w \in Workers :
          /\ WF_vars(MarkProcessed(w) \/ MarkFail(w))
          /\ \A e \in Events : SF_vars(MarkProcessed(w) /\ Current(w) = e)
          /\ WF_vars(Restart(w))

FairSpec == Spec /\ Fairness

-----------------------------------------------------------------------------
(* Properties.                                                             *)

\* Registration and company creation say "either everything succeeds or
\* nothing is created": the business rows of a transaction are visible
\* exactly when all of its outbox rows are, whatever statement failed.
AtomicOutbox ==
    \A t \in Txns :
        /\ t \in data => EventsOf(t) \subseteq table
        /\ t \notin data => EventsOf(t) \cap table = {}

\* No relay ever publishes an event of a transaction that is not committed
\* (processBatch reads and publishes long before or after other writers).
OnlyDurablePublished ==
    \A w \in Relays, e \in Events : published[w][e] > 0 => TxOf(e) \in data

\* A row leaves the queue (processed_at is set) only after some relay handed
\* it to the broker: failed publications, failed marks and crashes delay an
\* event and never drop it.  Holds when the relays are the only readers.
SettledWasPublished ==
    \A e \in processed : \E w \in Relays : published[w][e] > 0

\* processBatch publishes an event again only because an earlier mark of it
\* was lost (failed UPDATE, cancelled context or crash): one relay publishes
\* an event at most once more than it lost marks, even when other workers
\* mark the rows it holds.
RepublishNeedsLoss ==
    \A w \in Relays, e \in Events : published[w][e] <= lost[w][e] + 1

\* The rows a sentinel has fetched and not finished with.
InHand(w) == {batch[w][i] : i \in pos[w] .. Len(batch[w])}

\* "FOR UPDATE SKIP LOCKED ensures multiple workers don't process the same
\* event" (FetchUnprocessed): no row is in the hands of two sentinels.
NoSharedProcessing ==
    \A v, w \in Sentinels :
        (v # w /\ pc[v] # "down" /\ pc[w] # "down") => InHand(v) \cap InHand(w) = {}

\* The outbox read by relays alone implements at-least-once delivery, with
\* its liveness: every durable event the broker accepts is handed over and
\* settled, also behind events the broker refuses, as long as those are
\* fewer than one batch.
delivered == {e \in Events : \E w \in Relays : published[w][e] > 0}

Delivery == INSTANCE OutboxDelivery
                WITH durable <- data, settled <- processed

DeliverySpec == Delivery!ASpec

\* Nothing of an uncommitted transaction is seen: neither by a reader of the
\* tables, who finds the rows and the events together or not at all, nor by
\* the broker, whatever fails in the writers and the workers.
NothingUncommittedSeen == AtomicOutbox /\ OnlyDurablePublished

=============================================================================
