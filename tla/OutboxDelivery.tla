--------------------------- MODULE OutboxDelivery ---------------------------
(***************************************************************************)
(* What the transactional outbox promises: the events of a business        *)
(* transaction become durable together with the transaction or not at all, *)
(* only durable events are handed to the broker, an event is settled (not  *)
(* looked at again) only after it was handed over, and every durable event *)
(* the broker accepts is handed over eventually.  Handing an event over    *)
(* twice is allowed: it is a stuttering step here (at-least-once).         *)
(***************************************************************************)
CONSTANTS
    Txns,           \* business transactions
    Events,         \* outbox events
    TxOf(_),        \* the transaction that writes an event
    Poison          \* events the broker refuses for ever

VARIABLES
    durable,        \* transactions that committed
    delivered,      \* events handed to the broker at least once
    settled         \* events no worker will look at again

avars == <<durable, delivered, settled>>

AInit ==
    /\ durable = {}
    /\ delivered = {}
    /\ settled = {}

ACommit(t) ==
    /\ t \notin durable
    /\ durable' = durable \cup {t}
    /\ UNCHANGED <<delivered, settled>>

ADeliver(e) ==
    /\ TxOf(e) \in durable
    /\ e \notin delivered
    /\ e \notin Poison
    /\ delivered' = delivered \cup {e}
    /\ UNCHANGED <<durable, settled>>

ASettle(e) ==
    /\ e \in delivered
    /\ e \notin settled
    /\ settled' = settled \cup {e}
    /\ UNCHANGED <<durable, delivered>>

ANext ==
    \/ \E t \in Txns : ACommit(t)
    \/ \E e \in Events : ADeliver(e) \/ ASettle(e)

AFairness == \A e \in Events : WF_avars(ADeliver(e)) /\ WF_avars(ASettle(e))

ASafety == AInit /\ [][ANext]_avars

ASpec == ASafety /\ AFairness

=============================================================================
