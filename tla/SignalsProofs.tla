--------------------------- MODULE SignalsProofs ----------------------------
(***************************************************************************)
(* Proofs about the two ways the server tells others what happened.        *)
(*                                                                         *)
(* Outbox: for any number of transactions, events, relays and sentinels    *)
(* and any batch size.  The inductive invariant adds to the checked        *)
(* properties what ties them to the program counters: what an open         *)
(* transaction has inserted, that the rows in a worker's hands are visible *)
(* rows in range, and which lost mark accounts for each repeated           *)
(* publication.                                                            *)
(*                                                                         *)
(* KillSwitch: for any number of streams and triggers.  The invariant says *)
(* what the shared array holds in the middle of a removal (the slice with  *)
(* a hole) and which targets of a walk cannot have moved under it.         *)
(***************************************************************************)
EXTENDS Outbox, KillSwitch, FiniteSetTheorems, WellFoundedInduction, TLAPS

\* A worker between a fetch and the end of its batch has a current row.
LoopInv ==
    /\ \A w \in Workers :
          pc[w] \in {"publish", "mark", "reading"} => pos[w] <= Len(batch[w])
    /\ \A w \in Workers, i, j \in Nat :
          (i \in 1 .. Len(batch[w]) /\ j \in 1 .. Len(batch[w])
              /\ batch[w][i] = batch[w][j]) => i = j

\* An open transaction holds the rows of the statements it has executed.
WriterInv ==
    \A t \in Txns :
        /\ wrote[t] <= Len(Writes[t]) + 1
        /\ phase[t] = "new" => wrote[t] = 0
        /\ phase[t] \in {"new", "open"} =>
              held[t] = {Writes[t][i] : i \in 1 .. (wrote[t] - 1)}
        /\ t \in data <=> phase[t] = "committed"

\* What workers read, mark or publish is visible.
RowsInv ==
    /\ processed \subseteq table
    /\ \A w \in Workers : \A i \in 1 .. Len(batch[w]) : batch[w][i] \in table
    /\ \A w \in Relays, e \in Events : published[w][e] > 0 => e \in table

\* Relay w has published e once more than it lost marks of e: the mark is
\* about to happen, or it has happened and w will not reach e again.
Waiting(w, e) ==
    /\ pc[w] \in {"publish", "mark"}
    /\ \E i \in 1 .. Len(batch[w]) : pos[w] <= i /\ batch[w][i] = e

Owed(w, e) ==
    \/ e \in processed /\ ~Waiting(w, e)
    \/ pc[w] = "mark" /\ Current(w) = e

LossAt(w, e) ==
    /\ published[w][e] <= lost[w][e] + 1
    /\ ~Owed(w, e) => published[w][e] <= lost[w][e]

LossInv == \A w \in Relays, e \in Events : LossAt(w, e)

\* A relay that is about to mark has published.
MarkInv ==
    \A w \in Relays : pc[w] = "mark" => published[w][Current(w)] > 0

-----------------------------------------------------------------------------
(* Lemmas about the operators.                                             *)

\* Every event belongs to exactly one transaction.
LEMMA TxOfEvent ==
    /\ \A e \in Events : TxOf(e) \in Txns /\ e \in EventsOf(TxOf(e))
    /\ \A t \in Txns, e \in Events : e \in EventsOf(t) => TxOf(e) = t
  BY WritesAssumption DEF TxOf

\* The events of a transaction are the elements of its sequence.
LEMMA EventsOfElements ==
    ASSUME NEW t \in Txns
    PROVE  /\ Writes[t] \in Seq(Events)
           /\ EventsOf(t) = {Writes[t][i] : i \in 1 .. Len(Writes[t])}
           /\ EventsOf(t) \subseteq Events
<1>1. Writes[t] \in Seq(Events)
  BY WritesAssumption
<1>2. DOMAIN Writes[t] = 1 .. Len(Writes[t])
  BY <1>1
<1> QED
  BY <1>1, <1>2 DEF EventsOf, Range

\* The query returns a sequence of distinct rows of the set it ran on.
LEMMA FetchedRows ==
    ASSUME NEW S \in SUBSET Events, NEW n \in Nat, NEW s \in OldestFirst(S, n)
    PROVE  /\ s \in Seq(Events)
           /\ \A i \in 1 .. Len(s) : s[i] \in S
           /\ \A i, j \in Nat :
                 (i \in 1 .. Len(s) /\ j \in 1 .. Len(s) /\ s[i] = s[j]) => i = j
<1>1. PICK k \in 0 .. n : s \in [1 .. k -> S]
  BY DEF OldestFirst
<1>2. s \in Seq(Events) /\ Len(s) = k /\ DOMAIN s = 1 .. k
  BY <1>1
<1>3. \A i, j \in DOMAIN s : i < j => s[i] # s[j]
  BY DEF OldestFirst
<1>4. ASSUME NEW i \in 1 .. k, NEW j \in 1 .. k, s[i] = s[j]
      PROVE  i = j
  <2>1. ~(i < j) /\ ~(j < i)
    BY <1>2, <1>3, <1>4
  <2> QED
    BY <2>1
<1> QED
  BY <1>1, <1>2, <1>4

\* A counter per relay and event is increased in one place.
LEMMA CountUp ==
    ASSUME NEW f \in [Relays -> [Events -> Nat]], NEW w \in Relays,
           NEW e \in Events, NEW g, g = [f EXCEPT ![w][e] = @ + 1]
    PROVE  /\ g \in [Relays -> [Events -> Nat]]
           /\ \A v \in Relays, x \in Events :
                 g[v][x] = IF v = w /\ x = e THEN f[v][x] + 1 ELSE f[v][x]
<1> DEFINE h == [f[w] EXCEPT ![e] = f[w][e] + 1]
<1>1. h \in [Events -> Nat]
  OBVIOUS
<1>2. g = [f EXCEPT ![w] = h]
  OBVIOUS
<1>3. g[w] = h /\ \A v \in Relays : v # w => g[v] = f[v]
  BY <1>2
<1>4. g \in [Relays -> [Events -> Nat]]
  BY <1>1, <1>2
<1>5. \A x \in Events : h[x] = IF x = e THEN f[w][x] + 1 ELSE f[w][x]
  OBVIOUS
<1> QED
  BY <1>3, <1>4, <1>5

\* The current row of a worker inside its batch is an event.
LEMMA CurrentRow ==
    ASSUME TypeOK, LoopInv, NEW w \in Workers,
           pc[w] \in {"publish", "mark", "reading"}
    PROVE  /\ pos[w] \in 1 .. Len(batch[w])
           /\ Current(w) \in Events
<1>1. batch[w] \in Seq(Events) /\ pos[w] \in Nat \ {0}
  BY DEF TypeOK
<1>2. pos[w] \in 1 .. Len(batch[w])
  BY <1>1 DEF LoopInv
<1> QED
  BY <1>1, <1>2 DEF Current

\* The end of a loop body keeps the loop in range.
LEMMA AdvanceLoop ==
    ASSUME TypeOK, LoopInv, NEW w \in Workers, Advance(w)
    PROVE  /\ pc' \in [Workers -> PcStates]
           /\ batch' \in [Workers -> Seq(Events)]
           /\ pos' \in [Workers -> Nat \ {0}]
           /\ LoopInv'
<1>1. batch' = batch /\ pos' = [pos EXCEPT ![w] = @ + 1]
  BY DEF Advance
<1>2. pc' \in [Workers -> PcStates] /\ pos' \in [Workers -> Nat \ {0}]
  BY DEF Advance, TypeOK, PcStates
<1>3. ASSUME NEW v \in Workers, pc'[v] \in {"publish", "mark", "reading"}
      PROVE  pos'[v] <= Len(batch'[v])
  <2>1. CASE v = w
    <3>1. pos[w] < Len(batch[w])
      BY <1>3, <2>1 DEF Advance, TypeOK
    <3> QED
      BY <3>1, <1>1, <2>1 DEF TypeOK
  <2>2. CASE v # w
    BY <1>1, <1>3, <2>2 DEF Advance, TypeOK, LoopInv
  <2> QED
    BY <2>1, <2>2
<1> QED
  BY <1>1, <1>2, <1>3 DEF LoopInv, TypeOK

-----------------------------------------------------------------------------
(* Type correctness.                                                       *)

LEMMA InitTypes == Init => TypeOK /\ LoopInv
<1> SUFFICES ASSUME Init PROVE TypeOK /\ LoopInv
  OBVIOUS
<1>1. TypeOK
  BY DEF Init, TypeOK, PcStates
<1>2. \A w \in Workers : pc[w] = "idle" /\ batch[w] = <<>>
  BY DEF Init
<1> QED
  BY <1>1, <1>2 DEF LoopInv

LEMMA StepTypes == TypeOK /\ LoopInv /\ [Next]_vars => TypeOK' /\ LoopInv'
<1> SUFFICES ASSUME TypeOK, LoopInv, [Next]_vars
             PROVE  TypeOK' /\ LoopInv'
  OBVIOUS
<1> USE DEF txVars, loopVars
<1>1. CASE UNCHANGED vars
  BY <1>1 DEF vars, TypeOK, LoopInv
<1>2. ASSUME NEW t \in Txns, Begin(t)
      PROVE  TypeOK' /\ LoopInv'
  BY <1>2 DEF Begin, TypeOK, LoopInv
<1>3. ASSUME NEW t \in Txns, WriteBusinessRows(t)
      PROVE  TypeOK' /\ LoopInv'
  BY <1>3 DEF WriteBusinessRows, TypeOK, LoopInv
<1>4. ASSUME NEW t \in Txns, PublishToOutbox(t)
      PROVE  TypeOK' /\ LoopInv'
  <2>1. Writes[t][wrote[t]] \in Events
    BY <1>4, EventsOfElements DEF PublishToOutbox, TypeOK
  <2> QED
    BY <1>4, <2>1 DEF PublishToOutbox, TypeOK, LoopInv
<1>5. ASSUME NEW t \in Txns, Commit(t)
      PROVE  TypeOK' /\ LoopInv'
  BY <1>5 DEF Commit, TypeOK, LoopInv
<1>6. ASSUME NEW t \in Txns, Rollback(t)
      PROVE  TypeOK' /\ LoopInv'
  BY <1>6 DEF Rollback, TypeOK, LoopInv
<1>7. ASSUME NEW w \in Relays, FetchBatch(w)
      PROVE  TypeOK' /\ LoopInv'
  <2>1. PICK s \in OldestFirst(Unprocessed, RelayBatch) :
           /\ batch' = [batch EXCEPT ![w] = s]
           /\ pos' = [pos EXCEPT ![w] = 1]
           /\ pc' = [pc EXCEPT ![w] = IF Len(s) = 0 THEN "idle" ELSE "publish"]
    BY <1>7 DEF FetchBatch
  <2>2. /\ s \in Seq(Events)
        /\ \A i, j \in Nat :
              (i \in 1 .. Len(s) /\ j \in 1 .. Len(s) /\ s[i] = s[j]) => i = j
    BY FetchedRows, BoundAssumption DEF Unprocessed, TypeOK
  <2>3. w \in Workers
    BY DEF Workers
  <2>4. TypeOK'
    BY <1>7, <2>1, <2>2, <2>3 DEF FetchBatch, TypeOK, PcStates
  <2>5. LoopInv'
    BY <2>1, <2>2, <2>3 DEF TypeOK, LoopInv
  <2> QED
    BY <2>4, <2>5
<1>8. ASSUME NEW w \in Relays, PublishOk(w)
      PROVE  TypeOK' /\ LoopInv'
  <2>1. w \in Workers
    BY DEF Workers
  <2>2. published' \in [Relays -> [Events -> Nat]]
    BY <1>8, <2>1, CurrentRow, CountUp DEF PublishOk, TypeOK
  <2>3. pc' \in [Workers -> PcStates]
    BY <1>8, <2>1 DEF PublishOk, TypeOK, PcStates
  <2>4. TypeOK'
    BY <1>8, <2>2, <2>3 DEF PublishOk, TypeOK
  <2>5. LoopInv'
    BY <1>8, <2>1 DEF PublishOk, LoopInv, TypeOK
  <2> QED
    BY <2>4, <2>5
<1>9. ASSUME NEW w \in Relays, PublishFail(w)
      PROVE  TypeOK' /\ LoopInv'
  <2>1. w \in Workers
    BY DEF Workers
  <2> QED
    BY <1>9, <2>1, AdvanceLoop DEF PublishFail, TypeOK
<1>10. ASSUME NEW w \in Relays, Shutdown(w)
       PROVE  TypeOK' /\ LoopInv'
  <2>1. w \in Workers
    BY DEF Workers
  <2>2. /\ pc' = pc \/ pc' = [pc EXCEPT ![w] = "down"]
        /\ stopping' = stopping \/ stopping' = stopping \cup {w}
    BY <1>10 DEF Shutdown
  <2>3. pc' \in [Workers -> PcStates] /\ stopping' \subseteq Relays
    BY <2>1, <2>2 DEF TypeOK, PcStates
  <2>4. crashes' \in [Workers -> Nat]
    BY <1>10, <2>1 DEF Shutdown, TypeOK
  <2>5. TypeOK'
    BY <1>10, <2>3, <2>4 DEF Shutdown, TypeOK
  <2>6. LoopInv'
    BY <1>10, <2>1, <2>2 DEF Shutdown, LoopInv, TypeOK
  <2> QED
    BY <2>5, <2>6
<1>11. ASSUME NEW w \in Sentinels, FetchUnprocessed(w)
       PROVE  TypeOK' /\ LoopInv'
  <2> DEFINE S == Unprocessed \ UNION {locked[v] : v \in Workers}
  <2>1. PICK s \in OldestFirst(S, SentinelBatch) :
           /\ batch' = [batch EXCEPT ![w] = s]
           /\ pos' = [pos EXCEPT ![w] = 1]
           /\ locked' = [locked EXCEPT ![w] = Range(s)]
           /\ pc' = [pc EXCEPT ![w] = IF Len(s) = 0 THEN "idle" ELSE "reading"]
    BY <1>11 DEF FetchUnprocessed
  <2>2. S \in SUBSET Events
    BY DEF Unprocessed, TypeOK
  <2>3. /\ s \in Seq(Events)
        /\ \A i, j \in Nat :
              (i \in 1 .. Len(s) /\ j \in 1 .. Len(s) /\ s[i] = s[j]) => i = j
    BY <2>2, FetchedRows, BoundAssumption
  <2>4. Range(s) \subseteq Events
    BY <2>3 DEF Range
  <2>5. w \in Workers
    BY DEF Workers
  <2>6. TypeOK'
    BY <1>11, <2>1, <2>3, <2>4, <2>5 DEF FetchUnprocessed, TypeOK, PcStates
  <2>7. LoopInv'
    BY <2>1, <2>3, <2>5 DEF TypeOK, LoopInv
  <2> QED
    BY <2>6, <2>7
<1>12. ASSUME NEW w \in Sentinels, RowsClose(w)
       PROVE  TypeOK' /\ LoopInv'
  BY <1>12 DEF RowsClose, TypeOK, LoopInv, PcStates, Workers
<1>13. ASSUME NEW w \in Workers, MarkProcessed(w)
       PROVE  TypeOK' /\ LoopInv'
  <2>1. Current(w) \in Events
    BY <1>13, CurrentRow DEF MarkProcessed
  <2> QED
    BY <1>13, <2>1, AdvanceLoop DEF MarkProcessed, TypeOK
<1>14. ASSUME NEW w \in Workers, MarkFail(w)
       PROVE  TypeOK' /\ LoopInv'
  <2>1. lost' \in [Relays -> [Events -> Nat]]
    <3>1. CASE w \in Relays
      <4>1. lost' = [lost EXCEPT ![w][Current(w)] = @ + 1]
        BY <1>14, <3>1 DEF MarkFail
      <4>2. Current(w) \in Events
        BY <1>14, CurrentRow DEF MarkFail
      <4> QED
        BY <3>1, <4>1, <4>2, CountUp DEF TypeOK
    <3>2. CASE w \notin Relays
      BY <1>14, <3>2 DEF MarkFail, TypeOK
    <3> QED
      BY <3>1, <3>2
  <2> QED
    BY <1>14, <2>1, AdvanceLoop DEF MarkFail, TypeOK
<1>15. ASSUME NEW w \in Workers, Crash(w)
       PROVE  TypeOK' /\ LoopInv'
  <2>1. lost' \in [Relays -> [Events -> Nat]]
    BY <1>15, CurrentRow, CountUp DEF Crash, TypeOK
  <2>2. /\ pc' \in [Workers -> PcStates]
        /\ crashes' \in [Workers -> Nat]
        /\ locked' \in [Workers -> SUBSET Events]
    BY <1>15 DEF Crash, TypeOK, PcStates
  <2>3. TypeOK'
    BY <1>15, <2>1, <2>2 DEF Crash, TypeOK
  <2>4. LoopInv'
    BY <1>15 DEF Crash, LoopInv, TypeOK
  <2> QED
    BY <2>3, <2>4
<1>16. ASSUME NEW w \in Workers, Restart(w)
       PROVE  TypeOK' /\ LoopInv'
  <2>1. <<>> \in Seq(Events) /\ Len(<<>>) = 0
    OBVIOUS
  <2> QED
    BY <1>16, <2>1 DEF Restart, TypeOK, LoopInv, PcStates
<1> QED
  BY <1>1, <1>2, <1>3, <1>4, <1>5, <1>6, <1>7, <1>8, <1>9, <1>10, <1>11, <1>12,
     <1>13, <1>14, <1>15, <1>16
     DEF Next, WriterStep, RelayStep, SentinelStep, WorkerStep

\* Every reachable state is well typed: in particular no worker indexes its
\* batch outside its bounds when it publishes or marks.
THEOREM TypeCorrect == Spec => []TypeOK
<1>1. Spec => [](TypeOK /\ LoopInv)
  BY InitTypes, StepTypes, PTL DEF Spec
<1> QED
  BY <1>1, PTL

-----------------------------------------------------------------------------
(* Atomicity of a transaction and its events.                              *)

\* Only the writers change what a transaction holds and what is visible.
LEMMA WorkersKeepTables ==
    ASSUME [Next]_vars, ~ \E t \in Txns : WriterStep(t)
    PROVE  UNCHANGED txVars
  BY DEF Next, vars, RelayStep, SentinelStep, WorkerStep, FetchBatch,
         PublishOk, PublishFail, Shutdown, FetchUnprocessed, RowsClose,
         MarkProcessed, MarkFail, Crash, Restart

LEMMA InitWriters == Init => WriterInv /\ AtomicOutbox
<1> SUFFICES ASSUME Init PROVE WriterInv /\ AtomicOutbox
  OBVIOUS
<1>1. \A t \in Txns : Len(Writes[t]) \in Nat
  BY EventsOfElements
<1> QED
  BY <1>1 DEF Init, WriterInv, AtomicOutbox

LEMMA StepWriters ==
    TypeOK /\ WriterInv /\ AtomicOutbox /\ [Next]_vars
        => WriterInv' /\ AtomicOutbox'
<1> SUFFICES ASSUME TypeOK, WriterInv, AtomicOutbox, [Next]_vars
             PROVE  WriterInv' /\ AtomicOutbox'
  OBVIOUS
<1>0. \A t \in Txns : Len(Writes[t]) \in Nat
  BY EventsOfElements
<1>1. ASSUME NEW t \in Txns, Begin(t)
      PROVE  WriterInv' /\ AtomicOutbox'
  BY <1>1 DEF Begin, WriterInv, AtomicOutbox, TypeOK
<1>2. ASSUME NEW t \in Txns, WriteBusinessRows(t)
      PROVE  WriterInv' /\ AtomicOutbox'
  <2>1. wrote[t] = 0 /\ wrote'[t] = 1 /\ held'[t] = held[t]
    BY <1>2 DEF WriteBusinessRows, TypeOK
  <2>2. 1 .. (wrote'[t] - 1) = {} /\ 1 .. (wrote[t] - 1) = {}
    BY <2>1
  <2>3. WriterInv'
    BY <1>0, <1>2, <2>1, <2>2 DEF WriteBusinessRows, WriterInv, TypeOK
  <2> QED
    BY <1>2, <2>3 DEF WriteBusinessRows, AtomicOutbox
<1>3. ASSUME NEW t \in Txns, PublishToOutbox(t)
      PROVE  WriterInv' /\ AtomicOutbox'
  <2>1. wrote[t] \in 1 .. Len(Writes[t]) /\ wrote'[t] = wrote[t] + 1
    BY <1>3 DEF PublishToOutbox, TypeOK
  <2>2. held'[t] = held[t] \cup {Writes[t][wrote[t]]}
    BY <1>3 DEF PublishToOutbox, TypeOK
  <2>3. held[t] = {Writes[t][i] : i \in 1 .. (wrote[t] - 1)}
    BY <1>3 DEF PublishToOutbox, WriterInv
  <2>4. 1 .. (wrote'[t] - 1) = (1 .. (wrote[t] - 1)) \cup {wrote[t]}
    BY <1>0, <2>1
  <2>5. held'[t] = {Writes[t][i] : i \in 1 .. (wrote'[t] - 1)}
    BY <2>2, <2>3, <2>4
  <2>6. wrote'[t] <= Len(Writes[t]) + 1
    BY <1>0, <2>1
  <2>7. ASSUME NEW u \in Txns, u # t
        PROVE  wrote'[u] = wrote[u] /\ held'[u] = held[u]
    BY <1>3, <2>7 DEF PublishToOutbox, TypeOK
  <2>8. phase[t] = "open" /\ phase' = phase /\ data' = data
    BY <1>3 DEF PublishToOutbox
  <2>9. ASSUME NEW u \in Txns
        PROVE  /\ wrote'[u] <= Len(Writes[u]) + 1
               /\ phase'[u] = "new" => wrote'[u] = 0
               /\ phase'[u] \in {"new", "open"} =>
                     held'[u] = {Writes[u][i] : i \in 1 .. (wrote'[u] - 1)}
               /\ u \in data' <=> phase'[u] = "committed"
    <3>1. CASE u = t
      BY <2>5, <2>6, <2>8, <3>1 DEF WriterInv
    <3>2. CASE u # t
      BY <2>7, <2>8, <3>2 DEF WriterInv
    <3> QED
      BY <3>1, <3>2
  <2>10. WriterInv'
    BY <2>9 DEF WriterInv
  <2> QED
    BY <1>3, <2>10 DEF PublishToOutbox, AtomicOutbox
<1>4. ASSUME NEW t \in Txns, Commit(t)
      PROVE  WriterInv' /\ AtomicOutbox'
  <2>1. held[t] = EventsOf(t)
    <3>1. wrote[t] - 1 = Len(Writes[t])
      BY <1>0, <1>4 DEF Commit
    <3>2. held[t] = {Writes[t][i] : i \in 1 .. (wrote[t] - 1)}
      BY <1>4 DEF Commit, WriterInv
    <3> QED
      BY <3>1, <3>2, EventsOfElements
  <2>2. WriterInv'
    BY <1>4 DEF Commit, WriterInv, TypeOK
  <2>3. AtomicOutbox'
    <3>1. data' = data \cup {t} /\ table' = table \cup EventsOf(t)
      BY <1>4, <2>1 DEF Commit
    <3>2. \A u \in Txns : u # t => EventsOf(u) \cap EventsOf(t) = {}
      BY WritesAssumption
    <3> QED
      BY <3>1, <3>2 DEF AtomicOutbox
  <2> QED
    BY <2>2, <2>3
<1>5. ASSUME NEW t \in Txns, Rollback(t)
      PROVE  WriterInv' /\ AtomicOutbox'
  BY <1>5 DEF Rollback, WriterInv, AtomicOutbox, TypeOK
<1>6. CASE ~ \E t \in Txns : WriterStep(t)
  <2>1. UNCHANGED txVars
    BY <1>6, WorkersKeepTables
  <2> QED
    BY <2>1 DEF txVars, WriterInv, AtomicOutbox
<1> QED
  BY <1>1, <1>2, <1>3, <1>4, <1>5, <1>6 DEF WriterStep

\* The rows of a transaction and its events become visible together or not
\* at all, whatever fails, for any number of events per transaction.
THEOREM AtomicCorrect == Spec => []AtomicOutbox
<1>1. Spec => [](TypeOK /\ LoopInv /\ WriterInv /\ AtomicOutbox)
  BY InitTypes, StepTypes, InitWriters, StepWriters, PTL DEF Spec
<1> QED
  BY <1>1, PTL

-----------------------------------------------------------------------------
(* Only durable events are published.                                      *)

LEMMA TableGrows == [Next]_vars => table \subseteq table'
<1> SUFFICES ASSUME [Next]_vars PROVE table \subseteq table'
  OBVIOUS
<1>1. CASE \E t \in Txns : WriterStep(t)
  BY <1>1 DEF WriterStep, Begin, WriteBusinessRows, PublishToOutbox, Commit,
              Rollback
<1>2. CASE ~ \E t \in Txns : WriterStep(t)
  BY <1>2, WorkersKeepTables DEF txVars
<1> QED
  BY <1>1, <1>2

LEMMA InitRows == Init => RowsInv
  BY DEF Init, RowsInv, Workers

\* A step that fetches nothing and publishes nothing keeps RowsInv.
LEMMA RowsFrame ==
    ASSUME RowsInv, [Next]_vars, processed' \subseteq table, batch' = batch,
           published' = published
    PROVE  RowsInv'
  BY TableGrows DEF RowsInv

LEMMA StepRows ==
    TypeOK /\ LoopInv /\ RowsInv /\ [Next]_vars => RowsInv'
<1> SUFFICES ASSUME TypeOK, LoopInv, RowsInv, [Next]_vars
             PROVE  RowsInv'
  OBVIOUS
<1> USE DEF loopVars
<1>1. CASE UNCHANGED vars
  BY <1>1, RowsFrame DEF vars, RowsInv
<1>2. CASE \E t \in Txns : WriterStep(t)
  <2>1. UNCHANGED <<processed, batch, published>>
    BY <1>2 DEF WriterStep, Begin, WriteBusinessRows, PublishToOutbox, Commit,
                Rollback
  <2> QED
    BY <2>1, RowsFrame DEF RowsInv
<1>3. ASSUME NEW w \in Relays, FetchBatch(w)
      PROVE  RowsInv'
  <2>1. PICK s \in OldestFirst(Unprocessed, RelayBatch) :
           batch' = [batch EXCEPT ![w] = s]
    BY <1>3 DEF FetchBatch
  <2>2. \A i \in 1 .. Len(s) : s[i] \in table
    <3>1. Unprocessed \in SUBSET Events /\ Unprocessed \subseteq table
      BY DEF Unprocessed, TypeOK
    <3>2. \A i \in 1 .. Len(s) : s[i] \in Unprocessed
      BY <3>1, FetchedRows, BoundAssumption
    <3> QED
      BY <3>1, <3>2
  <2>3. processed' = processed /\ published' = published
    BY <1>3 DEF FetchBatch
  <2> QED
    BY <2>1, <2>2, <2>3, TableGrows DEF RowsInv, TypeOK
<1>4. ASSUME NEW w \in Relays, PublishOk(w)
      PROVE  RowsInv'
  <2>1. w \in Workers
    BY DEF Workers
  <2>2. pos[w] \in 1 .. Len(batch[w]) /\ Current(w) \in Events
    BY <1>4, <2>1, CurrentRow DEF PublishOk
  <2>3. Current(w) \in table
    BY <2>1, <2>2 DEF RowsInv, Current
  <2>4. \A v \in Relays, e \in Events :
           published'[v][e] > 0 => published[v][e] > 0 \/ e = Current(w)
    BY <1>4, <2>2, CountUp DEF PublishOk, TypeOK
  <2>5. processed' = processed /\ batch' = batch
    BY <1>4 DEF PublishOk
  <2> QED
    BY <2>3, <2>4, <2>5, TableGrows DEF RowsInv
<1>5. ASSUME NEW w \in Relays, PublishFail(w) \/ Shutdown(w)
      PROVE  RowsInv'
  <2>1. UNCHANGED <<processed, batch, published>>
    BY <1>5 DEF PublishFail, Shutdown, Advance
  <2> QED
    BY <2>1, RowsFrame DEF RowsInv
<1>6. ASSUME NEW w \in Sentinels, FetchUnprocessed(w)
      PROVE  RowsInv'
  <2> DEFINE S == Unprocessed \ UNION {locked[v] : v \in Workers}
  <2>1. PICK s \in OldestFirst(S, SentinelBatch) :
           batch' = [batch EXCEPT ![w] = s]
    BY <1>6 DEF FetchUnprocessed
  <2>2. S \in SUBSET Events /\ S \subseteq table
    BY DEF Unprocessed, TypeOK
  <2>3. \A i \in 1 .. Len(s) : s[i] \in table
    BY <2>2, FetchedRows, BoundAssumption
  <2>4. processed' = processed /\ published' = published
    BY <1>6 DEF FetchUnprocessed
  <2> QED
    BY <2>1, <2>3, <2>4, TableGrows DEF RowsInv, TypeOK
<1>7. ASSUME NEW w \in Sentinels, RowsClose(w)
      PROVE  RowsInv'
  <2>1. UNCHANGED <<processed, batch, published>>
    BY <1>7 DEF RowsClose
  <2> QED
    BY <2>1, RowsFrame DEF RowsInv
<1>8. ASSUME NEW w \in Workers, MarkProcessed(w)
      PROVE  RowsInv'
  <2>1. pos[w] \in 1 .. Len(batch[w])
    BY <1>8, CurrentRow DEF MarkProcessed
  <2>2. Current(w) \in table
    BY <2>1 DEF RowsInv, Current
  <2>3. batch' = batch /\ published' = published
    BY <1>8 DEF MarkProcessed, Advance
  <2>4. processed' \subseteq table
    BY <1>8, <2>2 DEF MarkProcessed, RowsInv
  <2> QED
    BY <2>3, <2>4, RowsFrame
<1>9. ASSUME NEW w \in Workers, MarkFail(w) \/ Crash(w)
      PROVE  RowsInv'
  <2>1. UNCHANGED <<processed, batch, published>>
    BY <1>9 DEF MarkFail, Crash, Advance
  <2> QED
    BY <2>1, RowsFrame DEF RowsInv
<1>10. ASSUME NEW w \in Workers, Restart(w)
       PROVE  RowsInv'
  <2>1. /\ batch' = [batch EXCEPT ![w] = <<>>]
        /\ processed' = processed /\ published' = published
    BY <1>10 DEF Restart
  <2> QED
    BY <2>1, TableGrows DEF RowsInv, TypeOK
<1> QED
  BY <1>1, <1>2, <1>3, <1>4, <1>5, <1>6, <1>7, <1>8, <1>9, <1>10
     DEF Next, RelayStep, SentinelStep, WorkerStep

\* A visible row belongs to a committed transaction.
LEMMA VisibleIsDurable ==
    ASSUME AtomicOutbox, NEW e \in Events, e \in table
    PROVE  TxOf(e) \in data
  BY TxOfEvent DEF AtomicOutbox

\* No relay publishes an event of a transaction that did not commit.
THEOREM DurableCorrect == Spec => []OnlyDurablePublished
<1>1. Spec => [](/\ TypeOK /\ LoopInv /\ WriterInv /\ AtomicOutbox /\ RowsInv)
  BY InitTypes, StepTypes, InitWriters, StepWriters, InitRows, StepRows, PTL
     DEF Spec
<1>2. AtomicOutbox /\ RowsInv => OnlyDurablePublished
  BY VisibleIsDurable DEF RowsInv, OnlyDurablePublished
<1> QED
  BY <1>1, <1>2, PTL

\* Nothing of an uncommitted transaction is seen, by a reader of the tables or
\* by the broker, for any transactions, workers and failures.
THEOREM UncommittedUnseen == Spec => []NothingUncommittedSeen
<1>1. AtomicOutbox /\ OnlyDurablePublished => NothingUncommittedSeen
  BY DEF NothingUncommittedSeen
<1> QED
  BY <1>1, AtomicCorrect, DurableCorrect, PTL

-----------------------------------------------------------------------------
(* A repeated publication is paid for by a lost mark.                      *)

\* A relay other than the one that moves keeps what it is owed.
LEMMA OwedFrame ==
    ASSUME NEW v \in Relays, NEW e \in Events,
           pc'[v] = pc[v], batch'[v] = batch[v], pos'[v] = pos[v],
           processed \subseteq processed', Owed(v, e)
    PROVE  Owed(v, e)'
  BY DEF Owed, Waiting, Current

\* Counters that stay and a debt that stays keep the bound.
LEMMA LossFrame ==
    ASSUME LossInv, NEW v \in Relays, NEW e \in Events,
           published'[v][e] = published[v][e], lost'[v][e] = lost[v][e],
           Owed(v, e) => Owed(v, e)'
    PROVE  LossAt(v, e)'
  BY DEF LossInv, LossAt

\* At the end of a loop body the relay has left its current row for good and
\* waits for no new one.
LEMMA AdvanceWaiting ==
    ASSUME TypeOK, LoopInv, NEW w \in Relays, pc[w] \in {"publish", "mark"},
           Advance(w)
    PROVE  /\ pc'[w] # "mark"
           /\ \A e \in Events : e = Current(w) => ~Waiting(w, e)'
           /\ \A e \in Events : Waiting(w, e)' => Waiting(w, e)
           /\ \A v \in Workers : v # w =>
                 pc'[v] = pc[v] /\ batch'[v] = batch[v] /\ pos'[v] = pos[v]
<1>1. w \in Workers
  BY DEF Workers
<1>2. batch' = batch /\ pos'[w] = pos[w] + 1 /\ pos[w] \in Nat
  BY <1>1 DEF Advance, TypeOK
<1>3. pc'[w] # "mark"
  BY <1>1 DEF Advance, TypeOK
<1>4. pos[w] \in 1 .. Len(batch[w]) /\ Len(batch[w]) \in Nat
  BY <1>1, CurrentRow DEF TypeOK
<1>5. \A e \in Events : e = Current(w) => ~Waiting(w, e)'
  <2> SUFFICES ASSUME NEW i \in 1 .. Len(batch[w]), pos[w] + 1 <= i,
                      batch[w][i] = batch[w][pos[w]]
               PROVE  FALSE
    BY <1>2 DEF Waiting, Current
  <2>1. i = pos[w]
    BY <1>1, <1>4 DEF LoopInv
  <2> QED
    BY <1>2, <2>1
<1>6. \A e \in Events : Waiting(w, e)' => Waiting(w, e)
  BY <1>2, <1>4 DEF Waiting
<1>7. \A v \in Workers : v # w =>
         pc'[v] = pc[v] /\ batch'[v] = batch[v] /\ pos'[v] = pos[v]
  BY <1>1 DEF Advance, TypeOK
<1> QED
  BY <1>3, <1>5, <1>6, <1>7

LEMMA InitLoss == Init => LossInv
  BY DEF Init, LossInv, LossAt

LEMMA StepLoss == TypeOK /\ LoopInv /\ LossInv /\ [Next]_vars => LossInv'
<1> SUFFICES ASSUME TypeOK, LoopInv, LossInv, [Next]_vars,
                    NEW v \in Relays, NEW e \in Events
             PROVE  LossAt(v, e)'
  BY DEF LossInv
<1> USE DEF loopVars
<1>0. v \in Workers /\ v \notin Sentinels
  BY WorkerAssumption DEF Workers
<1>1. CASE UNCHANGED <<pc, batch, pos, processed, published, lost>>
  BY <1>1, OwedFrame, LossFrame
<1>2. ASSUME NEW w \in Relays, FetchBatch(w)
      PROVE  LossAt(v, e)'
  <2>1. processed' = processed /\ published' = published /\ lost' = lost
    BY <1>2 DEF FetchBatch
  <2>2. CASE v # w
    <3>1. pc'[v] = pc[v] /\ batch'[v] = batch[v] /\ pos'[v] = pos[v]
      BY <1>0, <1>2, <2>2 DEF FetchBatch, TypeOK
    <3> QED
      BY <2>1, <3>1, OwedFrame, LossFrame
  <2>3. CASE v = w
    <3>1. PICK s \in OldestFirst(Unprocessed, RelayBatch) :
             batch' = [batch EXCEPT ![w] = s]
      BY <1>2 DEF FetchBatch
    <3>2. Unprocessed \in SUBSET Events
      BY DEF Unprocessed, TypeOK
    <3>3. batch'[v] = s /\ \A i \in 1 .. Len(s) : s[i] \notin processed
      <4>1. \A i \in 1 .. Len(s) : s[i] \in Unprocessed
        BY <3>2, FetchedRows, BoundAssumption
      <4> QED
        BY <1>0, <2>3, <3>1, <4>1 DEF Unprocessed, TypeOK
    <3>4. Owed(v, e) => e \in processed
      BY <1>2, <2>3 DEF FetchBatch, Owed
    <3>5. Owed(v, e) => Owed(v, e)'
      BY <2>1, <3>3, <3>4 DEF Owed, Waiting
    <3> QED
      BY <2>1, <3>5, LossFrame
  <2> QED
    BY <2>2, <2>3
<1>3. ASSUME NEW w \in Relays, PublishOk(w)
      PROVE  LossAt(v, e)'
  <2>1. w \in Workers /\ processed' = processed /\ lost' = lost
        /\ batch' = batch /\ pos' = pos
    BY <1>3 DEF PublishOk, Workers
  <2>2. pos[w] \in 1 .. Len(batch[w]) /\ Current(w) \in Events
    BY <1>3, <2>1, CurrentRow DEF PublishOk
  <2>3. published'[v][e] = IF v = w /\ e = Current(w)
                           THEN published[v][e] + 1 ELSE published[v][e]
    <3>1. published \in [Relays -> [Events -> Nat]]
      BY DEF TypeOK
    <3>2. published' = [published EXCEPT ![w][Current(w)] = @ + 1]
      BY <1>3 DEF PublishOk
    <3> QED
      BY <1>3, <2>2, <3>1, <3>2, CountUp
  <2>4. CASE v = w /\ e = Current(w)
    <3>1. pc[w] = "publish" /\ pc'[w] = "mark"
      BY <1>3, <2>1 DEF PublishOk, TypeOK
    <3>2. pos[w] <= pos[w]
      BY <2>1 DEF TypeOK
    <3>3. Waiting(w, e)
      BY <2>2, <2>4, <3>1, <3>2 DEF Waiting, Current
    <3>4. ~Owed(w, e)
      BY <3>1, <3>3 DEF Owed
    <3>5. published[w][e] <= lost[w][e]
      BY <2>4, <3>4 DEF LossInv, LossAt
    <3>6. Owed(w, e)'
      BY <2>1, <2>4, <3>1 DEF Owed, Current
    <3>7. published[w][e] \in Nat /\ lost[w][e] \in Nat
      BY DEF TypeOK
    <3> QED
      BY <2>1, <2>3, <2>4, <3>5, <3>6, <3>7 DEF LossAt
  <2>5. CASE ~(v = w /\ e = Current(w))
    <3>1. Owed(v, e) => Owed(v, e)'
      BY <1>0, <1>3, <2>1, <2>5 DEF PublishOk, Owed, Waiting, Current, TypeOK
    <3> QED
      BY <2>1, <2>3, <2>5, <3>1, LossFrame
  <2> QED
    BY <2>4, <2>5
<1>4. ASSUME NEW w \in Relays, PublishFail(w)
      PROVE  LossAt(v, e)'
  <2>1. /\ processed' = processed /\ published' = published /\ lost' = lost
        /\ pc[w] = "publish" /\ Advance(w)
    BY <1>4 DEF PublishFail
  <2>2. Owed(v, e) => Owed(v, e)'
    BY <1>0, <2>1, AdvanceWaiting, OwedFrame DEF Owed
  <2> QED
    BY <2>1, <2>2, LossFrame
<1>5. ASSUME NEW w \in Relays, Shutdown(w)
      PROVE  LossAt(v, e)'
  <2>1. UNCHANGED <<batch, pos, processed, published, lost>>
    BY <1>5 DEF Shutdown
  <2>2. pc'[v] = pc[v] \/ (pc[v] = "idle" /\ pc'[v] = "down")
    BY <1>0, <1>5 DEF Shutdown, TypeOK
  <2>3. Owed(v, e) => Owed(v, e)'
    BY <2>1, <2>2 DEF Owed, Waiting, Current
  <2> QED
    BY <2>1, <2>3, LossFrame
<1>6. ASSUME NEW w \in Sentinels, SentinelStep(w)
      PROVE  LossAt(v, e)'
  <2>1. processed' = processed /\ published' = published /\ lost' = lost
    BY <1>6 DEF SentinelStep, FetchUnprocessed, RowsClose
  <2>2. pc'[v] = pc[v] /\ batch'[v] = batch[v] /\ pos'[v] = pos[v]
    BY <1>0, <1>6 DEF SentinelStep, FetchUnprocessed, RowsClose, TypeOK
  <2> QED
    BY <2>1, <2>2, OwedFrame, LossFrame
<1>7. ASSUME NEW w \in Workers, MarkProcessed(w)
      PROVE  LossAt(v, e)'
  <2>1. /\ pc[w] = "mark" /\ Advance(w)
        /\ processed' = processed \cup {Current(w)}
        /\ published' = published /\ lost' = lost
    BY <1>7 DEF MarkProcessed
  <2>2. CASE v = w
    <3>1. Owed(v, e) => Owed(v, e)'
      BY <2>1, <2>2, AdvanceWaiting DEF Owed
    <3> QED
      BY <2>1, <3>1, LossFrame
  <2>3. CASE v # w
    <3>1. pc'[v] = pc[v] /\ batch'[v] = batch[v] /\ pos'[v] = pos[v]
      BY <1>0, <2>1, <2>3 DEF Advance, TypeOK
    <3> QED
      BY <2>1, <3>1, OwedFrame, LossFrame
  <2> QED
    BY <2>2, <2>3
<1>8. ASSUME NEW w \in Workers, MarkFail(w)
      PROVE  LossAt(v, e)'
  <2>1. /\ pc[w] = "mark" /\ Advance(w)
        /\ processed' = processed /\ published' = published
    BY <1>8 DEF MarkFail
  <2>2. CASE v = w
    <3>1. Current(w) \in Events
      BY <2>1, CurrentRow
    <3>2. lost'[v][e] = IF e = Current(w) THEN lost[v][e] + 1 ELSE lost[v][e]
      BY <1>8, <2>2, <3>1, CountUp DEF MarkFail, TypeOK
    <3>3. CASE e = Current(w)
      <4>1. published[v][e] <= lost[v][e] + 1
        BY DEF LossInv, LossAt
      <4>2. published[v][e] \in Nat /\ lost[v][e] \in Nat
        BY DEF TypeOK
      <4> QED
        BY <2>1, <3>2, <3>3, <4>1, <4>2 DEF LossAt
    <3>4. CASE e # Current(w)
      BY <2>1, <2>2, <3>2, <3>4, AdvanceWaiting, LossFrame DEF Owed
    <3> QED
      BY <3>3, <3>4
  <2>3. CASE v # w
    <3>1. pc'[v] = pc[v] /\ batch'[v] = batch[v] /\ pos'[v] = pos[v]
      BY <1>0, <2>1, <2>3 DEF Advance, TypeOK
    <3>2. lost'[v] = lost[v]
      BY <1>8, <2>3 DEF MarkFail, TypeOK
    <3> QED
      BY <2>1, <3>1, <3>2, OwedFrame, LossFrame
  <2> QED
    BY <2>2, <2>3
<1>9. ASSUME NEW w \in Workers, Crash(w)
      PROVE  LossAt(v, e)'
  <2>1. UNCHANGED <<batch, pos, processed, published>>
    BY <1>9 DEF Crash
  <2>2. pc'[w] = "down" /\ \A u \in Workers : u # w => pc'[u] = pc[u]
    BY <1>9 DEF Crash, TypeOK
  <2>3. CASE v = w /\ pc[w] = "mark" /\ e = Current(w)
    <3>1. Current(w) \in Events
      BY <2>3, CurrentRow
    <3>2. lost'[v][e] = lost[v][e] + 1
      BY <1>9, <2>3, <3>1, CountUp DEF Crash, TypeOK
    <3>3. published[v][e] <= lost[v][e] + 1
      BY DEF LossInv, LossAt
    <3>4. published[v][e] \in Nat /\ lost[v][e] \in Nat
      BY DEF TypeOK
    <3> QED
      BY <2>1, <3>2, <3>3, <3>4 DEF LossAt
  <2>4. CASE ~(v = w /\ pc[w] = "mark" /\ e = Current(w))
    <3>1. lost'[v][e] = lost[v][e]
      <4>1. CASE w \in Relays /\ pc[w] = "mark"
        <5>1. Current(w) \in Events
          BY <4>1, CurrentRow
        <5> QED
          BY <1>9, <2>4, <4>1, <5>1, CountUp DEF Crash, TypeOK
      <4>2. CASE ~(w \in Relays /\ pc[w] = "mark")
        BY <1>9, <4>2 DEF Crash
      <4> QED
        BY <4>1, <4>2
    <3>2. Owed(v, e) => Owed(v, e)'
      BY <1>0, <2>1, <2>2, <2>4 DEF Owed, Waiting, Current
    <3> QED
      BY <2>1, <3>1, <3>2, LossFrame
  <2> QED
    BY <2>3, <2>4
<1>10. ASSUME NEW w \in Workers, Restart(w)
       PROVE  LossAt(v, e)'
  <2>1. processed' = processed /\ published' = published /\ lost' = lost
    BY <1>10 DEF Restart
  <2>2. CASE v = w
    <3>1. pc[v] = "down" /\ pc'[v] = "idle"
      BY <1>10, <2>2 DEF Restart, TypeOK
    <3> QED
      BY <2>1, <3>1, LossFrame DEF Owed, Waiting
  <2>3. CASE v # w
    <3>1. pc'[v] = pc[v] /\ batch'[v] = batch[v] /\ pos'[v] = pos[v]
      BY <1>0, <1>10, <2>3 DEF Restart, TypeOK
    <3> QED
      BY <2>1, <3>1, OwedFrame, LossFrame
  <2> QED
    BY <2>2, <2>3
<1>11. CASE \E t \in Txns : WriterStep(t)
  <2>1. UNCHANGED <<pc, batch, pos, processed, published, lost>>
    BY <1>11 DEF WriterStep, Begin, WriteBusinessRows, PublishToOutbox, Commit,
                 Rollback
  <2> QED
    BY <2>1, <1>1
<1>12. CASE UNCHANGED vars
  BY <1>1, <1>12 DEF vars
<1> QED
  BY <1>2, <1>3, <1>4, <1>5, <1>6, <1>7, <1>8, <1>9, <1>10, <1>11, <1>12
     DEF Next, RelayStep, WorkerStep

\* Whatever other workers do to the rows it holds, a relay publishes an event
\* at most once more than it lost marks of it.
THEOREM RepublishCorrect == Spec => []RepublishNeedsLoss
<1>1. Spec => [](TypeOK /\ LoopInv /\ LossInv)
  BY InitTypes, StepTypes, InitLoss, StepLoss, PTL DEF Spec
<1>2. LossInv => RepublishNeedsLoss
  BY DEF LossInv, LossAt, RepublishNeedsLoss
<1> QED
  BY <1>1, <1>2, PTL

-----------------------------------------------------------------------------
(* Relays alone implement at-least-once delivery.                          *)

LEMMA InitMark == Init => MarkInv /\ SettledWasPublished
  BY DEF Init, MarkInv, SettledWasPublished, Workers

\* A step that publishes nothing and lets no relay begin to mark.
LEMMA MarkFrame ==
    ASSUME MarkInv, published' = published,
           \A v \in Relays : pc'[v] = "mark" =>
               pc[v] = "mark" /\ batch'[v] = batch[v] /\ pos'[v] = pos[v]
    PROVE  MarkInv'
  BY DEF MarkInv, Current

LEMMA StepMark == TypeOK /\ LoopInv /\ MarkInv /\ [Next]_vars => MarkInv'
<1> SUFFICES ASSUME TypeOK, LoopInv, MarkInv, [Next]_vars PROVE MarkInv'
  OBVIOUS
<1> USE DEF loopVars
<1>0. \A v \in Relays : v \in Workers /\ v \notin Sentinels
  BY WorkerAssumption DEF Workers
<1>1. CASE UNCHANGED <<pc, batch, pos, published>>
  BY <1>1, MarkFrame
<1>2. ASSUME NEW w \in Relays, FetchBatch(w) \/ Shutdown(w)
      PROVE  MarkInv'
  <2>1. /\ published' = published
        /\ \A v \in Relays : pc'[v] = "mark" =>
               pc[v] = "mark" /\ batch'[v] = batch[v] /\ pos'[v] = pos[v]
    BY <1>0, <1>2 DEF FetchBatch, Shutdown, TypeOK
  <2> QED
    BY <2>1, MarkFrame
<1>3. ASSUME NEW w \in Relays, PublishOk(w)
      PROVE  MarkInv'
  <2>1. Current(w) \in Events /\ pc[w] = "publish" /\ batch' = batch /\ pos' = pos
    BY <1>0, <1>3, CurrentRow DEF PublishOk
  <2>2. \A v \in Relays, e \in Events :
           published'[v][e] = IF v = w /\ e = Current(w)
                              THEN published[v][e] + 1 ELSE published[v][e]
    BY <1>3, <2>1, CountUp DEF PublishOk, TypeOK
  <2>3. ASSUME NEW v \in Relays, pc'[v] = "mark"
        PROVE  published'[v][Current(v)] > 0
    <3>1. CASE v = w
      <4>1. published[w][Current(w)] \in Nat
        BY <2>1 DEF TypeOK
      <4> QED
        BY <2>1, <2>2, <3>1, <4>1
    <3>2. CASE v # w
      <4>1. pc[v] = "mark"
        BY <1>0, <1>3, <2>3, <3>2 DEF PublishOk, TypeOK
      <4>2. Current(v) \in Events
        BY <1>0, <4>1, CurrentRow
      <4> QED
        BY <2>2, <3>2, <4>1, <4>2 DEF MarkInv
    <3> QED
      BY <3>1, <3>2
  <2> QED
    BY <2>1, <2>3 DEF MarkInv, Current
<1>4. ASSUME NEW w \in Workers,
             PublishFail(w) \/ MarkProcessed(w) \/ MarkFail(w)
      PROVE  MarkInv'
  <2>1. published' = published /\ Advance(w)
    BY <1>4 DEF PublishFail, MarkProcessed, MarkFail
  <2>2. \A v \in Relays : pc'[v] = "mark" =>
           pc[v] = "mark" /\ batch'[v] = batch[v] /\ pos'[v] = pos[v]
    BY <1>0, <2>1 DEF Advance, TypeOK
  <2> QED
    BY <2>1, <2>2, MarkFrame
<1>5. ASSUME NEW w \in Sentinels, SentinelStep(w)
      PROVE  MarkInv'
  <2>1. published' = published
    BY <1>5 DEF SentinelStep, FetchUnprocessed, RowsClose
  <2>2. \A v \in Relays :
           pc'[v] = pc[v] /\ batch'[v] = batch[v] /\ pos'[v] = pos[v]
    BY <1>0, <1>5, ZenonT(30) DEF SentinelStep, FetchUnprocessed, RowsClose, TypeOK
  <2> QED
    BY <2>1, <2>2, MarkFrame
<1>6. ASSUME NEW w \in Workers, Crash(w) \/ Restart(w)
      PROVE  MarkInv'
  <2>1. published' = published
    BY <1>6 DEF Crash, Restart
  <2>2. \A v \in Relays : pc'[v] = "mark" =>
           pc[v] = "mark" /\ batch'[v] = batch[v] /\ pos'[v] = pos[v]
    BY <1>0, <1>6 DEF Crash, Restart, TypeOK
  <2> QED
    BY <2>1, <2>2, MarkFrame
<1>7. CASE \E t \in Txns : WriterStep(t)
  <2>1. UNCHANGED <<pc, batch, pos, published>>
    BY <1>7 DEF WriterStep, Begin, WriteBusinessRows, PublishToOutbox, Commit,
                Rollback
  <2> QED
    BY <1>1, <2>1
<1>8. CASE UNCHANGED vars
  BY <1>1, <1>8 DEF vars
<1> QED
  BY <1>0, <1>2, <1>3, <1>4, <1>5, <1>6, <1>7, <1>8
     DEF Next, RelayStep, WorkerStep

\* Without sentinels every step of the outbox is a step of OutboxDelivery or
\* changes nothing there.
LEMMA StepDelivery ==
    ASSUME Sentinels = {}, TypeOK, LoopInv, WriterInv, AtomicOutbox, RowsInv,
           MarkInv, [Next]_vars
    PROVE  [Delivery!ANext]_(Delivery!avars)
<1> USE DEF loopVars, txVars
<1>0. Workers = Relays
  BY DEF Workers
<1>1. CASE UNCHANGED <<data, published, processed>>
  BY <1>1 DEF Delivery!avars, delivered
<1>2. ASSUME NEW t \in Txns, WriterStep(t)
      PROVE  [Delivery!ANext]_(Delivery!avars)
  <2>1. published' = published /\ processed' = processed
    BY <1>2 DEF WriterStep, Begin, WriteBusinessRows, PublishToOutbox, Commit,
                Rollback
  <2>2. CASE Commit(t)
    <3>1. t \notin data /\ data' = data \cup {t}
      BY <2>2 DEF Commit, WriterInv
    <3>2. delivered' = delivered
      BY <2>1 DEF delivered
    <3>3. Delivery!ACommit(t)
      BY <2>1, <3>1, <3>2 DEF Delivery!ACommit
    <3> QED
      BY <3>3 DEF Delivery!ANext
  <2>3. CASE ~Commit(t)
    <3>1. data' = data
      BY <1>2, <2>3 DEF WriterStep, Begin, WriteBusinessRows, PublishToOutbox,
                        Rollback
    <3> QED
      BY <1>1, <2>1, <3>1
  <2> QED
    BY <2>2, <2>3
<1>3. ASSUME NEW w \in Relays, PublishOk(w)
      PROVE  [Delivery!ANext]_(Delivery!avars)
  <2> DEFINE e == Current(w)
  <2>1. e \in Events /\ pos[w] \in 1 .. Len(batch[w])
    BY <1>0, <1>3, CurrentRow DEF PublishOk
  <2>2. \A v \in Relays, x \in Events :
           published'[v][x] = IF v = w /\ x = e
                              THEN published[v][x] + 1 ELSE published[v][x]
    <3>1. published \in [Relays -> [Events -> Nat]]
      BY DEF TypeOK
    <3>2. published' = [published EXCEPT ![w][Current(w)] = @ + 1]
      BY <1>3 DEF PublishOk
    <3> QED
      BY <1>3, <2>1, <3>1, <3>2, CountUp
  <2>3. delivered' = delivered \cup {e}
    <3>1. published[w][e] \in Nat
      BY <2>1 DEF TypeOK
    <3> HIDE DEF e
    <3> QED
      BY <2>1, <2>2, <3>1 DEF delivered
  <2>4. data' = data /\ processed' = processed /\ e \notin Poison
    BY <1>3 DEF PublishOk
  <2>5. TxOf(e) \in data
    BY <1>0, <2>1, VisibleIsDurable DEF RowsInv, Current
  <2>6. CASE e \in delivered
    BY <2>3, <2>4, <2>6 DEF Delivery!avars
  <2>7. CASE e \notin delivered
    <3>1. Delivery!ADeliver(e)
      BY <2>3, <2>4, <2>5, <2>7 DEF Delivery!ADeliver
    <3> QED
      BY <2>1, <3>1 DEF Delivery!ANext
  <2> QED
    BY <2>6, <2>7
<1>4. ASSUME NEW w \in Relays, MarkProcessed(w)
      PROVE  [Delivery!ANext]_(Delivery!avars)
  <2> DEFINE e == Current(w)
  <2>1. e \in Events /\ published[w][e] > 0
    BY <1>0, <1>4, CurrentRow DEF MarkProcessed, MarkInv
  <2>2. e \in delivered
    BY <2>1 DEF delivered
  <2>3. /\ processed' = processed \cup {e}
        /\ data' = data /\ published' = published
    BY <1>4 DEF MarkProcessed
  <2>4. delivered' = delivered
    BY <2>3 DEF delivered
  <2>5. CASE e \in processed
    BY <2>3, <2>4, <2>5 DEF Delivery!avars
  <2>6. CASE e \notin processed
    <3>1. Delivery!ASettle(e)
      BY <2>2, <2>3, <2>4, <2>6 DEF Delivery!ASettle
    <3> QED
      BY <2>1, <3>1 DEF Delivery!ANext
  <2> QED
    BY <2>5, <2>6
<1>5. ASSUME NEW w \in Relays,
             \/ FetchBatch(w) \/ PublishFail(w) \/ Shutdown(w)
             \/ MarkFail(w) \/ Crash(w) \/ Restart(w)
      PROVE  [Delivery!ANext]_(Delivery!avars)
  <2>1. UNCHANGED <<data, published, processed>>
    BY <1>5 DEF FetchBatch, PublishFail, Shutdown, MarkFail, Crash, Restart
  <2> QED
    BY <1>1, <2>1
<1>6. CASE UNCHANGED vars
  BY <1>1, <1>6 DEF vars
<1> QED
  BY <1>0, <1>2, <1>3, <1>4, <1>5, <1>6 DEF Next, RelayStep, WorkerStep

\* The detailed outbox implements the safety part of the abstract
\* specification when the relays are the only readers of the table.
THEOREM ImplementsDelivery ==
    ASSUME Sentinels = {}
    PROVE  Spec => Delivery!ASafety
<1>1. Init => Delivery!AInit
  BY DEF Init, Delivery!AInit, delivered, Workers
<1>2. Spec => [](/\ TypeOK /\ LoopInv /\ WriterInv /\ AtomicOutbox /\ RowsInv
                 /\ MarkInv)
  BY InitTypes, StepTypes, InitWriters, StepWriters, InitRows, StepRows,
     InitMark, StepMark, PTL DEF Spec
<1>3. /\ TypeOK /\ LoopInv /\ WriterInv /\ AtomicOutbox /\ RowsInv /\ MarkInv
      /\ [Next]_vars
      => [Delivery!ANext]_(Delivery!avars)
  BY StepDelivery
<1> QED
  BY <1>1, <1>2, <1>3, PTL DEF Spec, Delivery!ASafety

\* No event leaves the queue before some relay handed it to the broker.
THEOREM SettledCorrect ==
    ASSUME Sentinels = {}
    PROVE  Spec => []SettledWasPublished
<1>1. processed \subseteq Events /\ processed \subseteq delivered
      => SettledWasPublished
  BY DEF delivered, SettledWasPublished
<1>2. Delivery!AInit => processed \subseteq delivered
  BY DEF Delivery!AInit
<1>3. processed \subseteq delivered /\ [Delivery!ANext]_(Delivery!avars)
      => (processed \subseteq delivered)'
  BY DEF Delivery!ANext, Delivery!avars, Delivery!ACommit, Delivery!ADeliver,
         Delivery!ASettle
<1>4. Spec => [](processed \subseteq delivered)
  BY <1>2, <1>3, ImplementsDelivery, PTL DEF Delivery!ASafety
<1>5. TypeOK => processed \subseteq Events
  BY DEF TypeOK
<1> QED
  BY <1>1, <1>4, <1>5, TypeCorrect, PTL

-----------------------------------------------------------------------------
(* KillSwitch.                                                             *)

\* The index the removal in progress overwrites next; 0 without one.
Hole == IF lock = Nil THEN 0 ELSE shift[lock]

\* The slice lies in its array, a stream in its removal holds the lock and
\* stands on an index of the slice, and a new stream has allocated nothing.
ArrayInv ==
    /\ header.arr = Nil <=> header.len = 0
    /\ header.arr # Nil => header.len <= Len(heap[header.arr])
    /\ \A s \in Streams : spc[s] = "shifting" <=> lock = s
    /\ \A s \in Streams : spc[s] = "new" => heap[s] = <<>>
    /\ lock # Nil => /\ shift[lock] \in 1 .. header.len
                     /\ heap[header.arr][shift[lock]] \in Streams

\* The slice without the hole holds every registered stream, once.
SliceInv ==
    /\ \A i, j \in 1 .. header.len :
          i # Hole /\ j # Hole /\ heap[header.arr][i] = heap[header.arr][j] => i = j
    /\ \A i \in 1 .. header.len :
          i # Hole => heap[header.arr][i] \in Streams /\ Registered(heap[header.arr][i])
    /\ \A s \in Streams :
          Registered(s) => \E i \in 1 .. header.len : i # Hole /\ heap[header.arr][i] = s

\* The indices of the targets before the first that left.
Clean(k) ==
    {n \in 1 .. Len(targets[k]) : \A m \in 1 .. n : targets[k][m] \notin leftDuring[k]}

\* Trigger k walks an array that no new stream owns.
ViewInv(k) ==
    Running(k) =>
        /\ view[k].arr \in Streams
        /\ view[k].len = Len(targets[k]) /\ view[k].len <= Len(heap[view[k].arr])
        /\ ti[k] \in 1 .. view[k].len
        /\ \A i \in 1 .. view[k].len : heap[view[k].arr][i] \in Streams
        /\ tpc[k] = "close" => tch[k] \in Streams

\* The clean targets stay where they were: before the hole, inside the slice.
PlaceInv(k) ==
    Running(k) =>
        /\ \A n \in Clean(k) : heap[view[k].arr][n] = targets[k][n]
        /\ header.arr = view[k].arr =>
              \A n \in Clean(k) : n <= header.len /\ (lock # Nil => n < shift[lock])

\* The clean targets the walk has passed are closed.
PassedInv(k) ==
    /\ Running(k) => \A n \in Clean(k) : n < ti[k] => targets[k][n] \in closed
    /\ tpc[k] = "close" /\ ti[k] \in Clean(k) => tch[k] = targets[k][ti[k]]
    /\ tpc[k] = "done" /\ ~panicked => \A n \in Clean(k) : targets[k][n] \in closed
    /\ tpc[k] = "idle" => ti[k] = 1

KillInv ==
    /\ KillTypeOK /\ ArrayInv /\ SliceInv
    /\ \A k \in Triggers : ViewInv(k) /\ PlaceInv(k) /\ PassedInv(k)

LEMMA HeadLemma ==
    ASSUME KillInv
    PROVE  /\ header.len \in Nat /\ header.arr \in Streams \cup {Nil}
           /\ header.arr # Nil => /\ heap[header.arr] \in Seq(Streams \cup {Nil})
                                  /\ Len(heap[header.arr]) \in Nat
                                  /\ header.len >= 1
           /\ lock # Nil => lock \in Streams /\ shift[lock] \in Nat /\ header.arr # Nil
           /\ lock = Nil => Hole = 0
           /\ lock # Nil => Hole = shift[lock]
<1>1. header.len \in Nat /\ header.arr \in Streams \cup {Nil}
  BY DEF KillInv, KillTypeOK, Headers
<1>2. header.arr # Nil => /\ heap[header.arr] \in Seq(Streams \cup {Nil})
                          /\ Len(heap[header.arr]) \in Nat
                          /\ header.len >= 1
  <2>1. header.arr # Nil => heap[header.arr] \in Seq(Streams \cup {Nil})
    BY <1>1 DEF KillInv, KillTypeOK
  <2> QED
    BY <1>1, <2>1 DEF KillInv, ArrayInv
<1>3. lock # Nil => lock \in Streams /\ shift[lock] \in Nat /\ header.arr # Nil
  <2>1. lock # Nil => lock \in Streams /\ shift[lock] \in Nat
    BY DEF KillInv, KillTypeOK
  <2>2. lock # Nil => shift[lock] \in 1 .. header.len
    BY DEF KillInv, ArrayInv
  <2>3. header.arr = Nil => header.len = 0
    BY DEF KillInv, ArrayInv
  <2> QED
    BY <1>1, <2>1, <2>2, <2>3
<1> QED
  BY <1>1, <1>2, <1>3 DEF Hole

\* The walks go on as before when what they read does not change.
LEMMA WalksStay ==
    ASSUME KillInv, heap' = heap, header' = header, lock' = lock, shift' = shift,
           closed' = closed, UNCHANGED triggerVars, leftDuring' = leftDuring
    PROVE  (\A k \in Triggers : ViewInv(k) /\ PlaceInv(k) /\ PassedInv(k))'
BY DEF KillInv, ViewInv, PlaceInv, PassedInv, Running, Clean, triggerVars

\* A stream moves on between two states that keep its entry in the slice.
LEMMA StreamMoves ==
    ASSUME KillInv, NEW s \in Streams, NEW st \in StreamStates,
           spc' = [spc EXCEPT ![s] = st], told' \subseteq Streams,
           st \notin {"new", "shifting"}, spc[s] # "shifting",
           Registered(s) <=> st \in {"registered", "serving", "leaving"},
           UNCHANGED <<header, heap, lock, closed, shift, triggerVars, leftDuring>>
    PROVE  KillInv'
<1>1. spc' \in [Streams -> StreamStates]
      /\ \A t \in Streams : spc'[t] = IF t = s THEN st ELSE spc[t]
  BY DEF KillInv, KillTypeOK
<1>2. KillTypeOK'
  BY <1>1 DEF KillInv, KillTypeOK, triggerVars
<1>3. \A t \in Streams : /\ Registered(t)' <=> Registered(t)
                         /\ spc'[t] = "shifting" <=> spc[t] = "shifting"
                         /\ spc'[t] = "new" => spc[t] = "new"
  BY <1>1 DEF Registered
<1>4. ArrayInv'
  BY <1>3 DEF KillInv, ArrayInv
<1>5. Hole' = Hole
  BY DEF Hole
<1>6. SliceInv'
  <2>1. /\ \A i, j \in 1 .. header.len :
             i # Hole /\ j # Hole /\ heap[header.arr][i] = heap[header.arr][j] => i = j
        /\ \A i \in 1 .. header.len :
             i # Hole => heap[header.arr][i] \in Streams /\ Registered(heap[header.arr][i])'
        /\ \A t \in Streams :
             Registered(t)' => \E i \in 1 .. header.len : i # Hole /\ heap[header.arr][i] = t
    BY <1>3 DEF KillInv, SliceInv
  <2> QED
    BY <1>5, <2>1 DEF SliceInv, Registered
<1> QED
  BY <1>2, <1>4, <1>6, WalksStay DEF KillInv

-----------------------------------------------------------------------------
(* Registration.                                                           *)

LEMMA Appended ==
    ASSUME KillInv, NEW s \in Streams, spc[s] = "new", lock = Nil, AppendTo(s)
    PROVE  /\ heap' \in [Streams -> Seq(Streams \cup {Nil})]
           /\ header' \in Headers
           /\ header'.arr \in Streams /\ header'.len = header.len + 1
           /\ header'.len <= Len(heap'[header'.arr])
           /\ \A i \in 1 .. header.len : heap'[header'.arr][i] = heap[header.arr][i]
           /\ heap'[header'.arr][header.len + 1] = s
           /\ \A b \in Streams : heap[b] = <<>> /\ b # s => heap'[b] = <<>>
           /\ \A b \in Streams : heap[b] # <<>> =>
                 /\ Len(heap'[b]) = Len(heap[b])
                 /\ header'.arr = b => header.arr = b
                 /\ \A i \in 1 .. Len(heap[b]) :
                       \/ heap'[b][i] = heap[b][i]
                       \/ b = header.arr /\ i = header.len + 1 /\ heap'[b][i] = s
<1>1. /\ heap \in [Streams -> Seq(Streams \cup {Nil})] /\ header \in Headers
      /\ heap[s] = <<>>
  BY DEF KillInv, KillTypeOK, ArrayInv
<1>2. /\ header.len \in Nat /\ header.arr \in Streams \cup {Nil}
      /\ header.arr = Nil <=> header.len = 0
      /\ header.arr # Nil => header.len <= Len(heap[header.arr])
      /\ header.arr # Nil => /\ heap[header.arr] \in Seq(Streams \cup {Nil})
                             /\ Len(heap[header.arr]) \in Nat
                             /\ header.len >= 1
  BY HeadLemma DEF KillInv, ArrayInv
<1>3. CASE header.arr # Nil /\ header.len < Len(heap[header.arr])
  <2>1. PICK a \in Streams : a = header.arr
    BY <1>2, <1>3
  <2>2. PICK w : w = [heap[a] EXCEPT ![header.len + 1] = s]
    OBVIOUS
  <2>3. /\ w \in Seq(Streams \cup {Nil}) /\ Len(w) = Len(heap[a])
        /\ \A i \in 1 .. Len(heap[a]) : w[i] = IF i = header.len + 1 THEN s ELSE heap[a][i]
    BY <1>2, <1>3, <2>1, <2>2
  <2>4. heap' = [heap EXCEPT ![a] = w]
    BY <1>3, <2>1, <2>2 DEF AppendTo
  <2>5. header' = [header EXCEPT !.len = header.len + 1]
    BY <1>3 DEF AppendTo
  <2>6. header' \in Headers /\ header'.arr = a /\ header'.len = header.len + 1
    BY <1>1, <1>2, <2>1, <2>5 DEF Headers
  <2>7. heap' \in [Streams -> Seq(Streams \cup {Nil})]
        /\ \A b \in Streams : heap'[b] = IF b = a THEN w ELSE heap[b]
    BY <1>1, <2>3, <2>4
  <2>8. heap[a] # <<>>
    BY <1>2, <1>3, <2>1
  <2>9. \A b \in Streams : heap[b] # <<>> =>
                 /\ Len(heap'[b]) = Len(heap[b])
                 /\ header'.arr = b => header.arr = b
                 /\ \A i \in 1 .. Len(heap[b]) :
                       \/ heap'[b][i] = heap[b][i]
                       \/ b = header.arr /\ i = header.len + 1 /\ heap'[b][i] = s
    BY <2>1, <2>3, <2>6, <2>7
  <2>10. header.len + 1 \in 1 .. Len(heap[a]) /\ 1 .. header.len \subseteq 1 .. Len(heap[a])
    BY <1>2, <1>3, <2>1
  <2>11. /\ heap'[a] = w /\ w[header.len + 1] = s
         /\ \A i \in 1 .. header.len : w[i] = heap[a][i]
    <3>1. heap'[a] = w
      BY <2>7
    <3>2. w[header.len + 1] = s
      BY <2>3, <2>10
    <3>3. \A i \in 1 .. header.len : i # header.len + 1
      BY <1>2
    <3>4. ASSUME NEW i \in 1 .. header.len
          PROVE  w[i] = heap[a][i]
      <4>1. i \in 1 .. Len(heap[a]) /\ i # header.len + 1
        BY <2>10, <3>3
      <4> QED
        BY <2>3, <4>1
    <3> QED
      BY <3>1, <3>2, <3>4
  <2>12. header.len + 1 <= Len(w)
    BY <1>2, <1>3, <2>1, <2>3
  <2>13. \A b \in Streams : heap[b] = <<>> /\ b # s => heap'[b] = <<>>
    BY <2>7, <2>8
  <2> QED
    BY <2>1, <2>6, <2>7, <2>9, <2>11, <2>12, <2>13
<1>4. CASE ~(header.arr # Nil /\ header.len < Len(heap[header.arr]))
  <2>1. PICK cap \in Nat : cap = IF header.len = 0 THEN 1 ELSE 2 * header.len
    BY <1>2
  <2>2. header.len + 1 <= cap
    BY <1>2, <2>1
  <2>3. PICK w : w = [i \in 1 .. cap |->
                        CASE i <= header.len -> heap[header.arr][i]
                          [] i = header.len + 1 -> s
                          [] OTHER -> Nil]
    OBVIOUS
  <2>4. \A i \in 1 .. cap : w[i] = IF i <= header.len THEN heap[header.arr][i]
                                   ELSE IF i = header.len + 1 THEN s ELSE Nil
    BY <1>2, <2>3
  <2>5. \A i \in 1 .. header.len : heap[header.arr][i] \in Streams \cup {Nil}
    BY <1>2
  <2>6. \A i \in 1 .. cap : w[i] \in Streams \cup {Nil}
    BY <1>2, <2>4, <2>5
  <2>7. w \in [1 .. cap -> Streams \cup {Nil}]
    BY <2>3, <2>6
  <2>8. w \in Seq(Streams \cup {Nil}) /\ Len(w) = cap
    BY <2>7
  <2>9. heap' = [heap EXCEPT ![s] = w] /\ header' = [arr |-> s, len |-> header.len + 1]
    BY <1>4, <2>1, <2>3 DEF AppendTo
  <2>10. header' \in Headers /\ header'.arr = s /\ header'.len = header.len + 1
    BY <1>2, <2>9 DEF Headers
  <2>11. heap' \in [Streams -> Seq(Streams \cup {Nil})]
         /\ \A b \in Streams : heap'[b] = IF b = s THEN w ELSE heap[b]
    BY <1>1, <2>8, <2>9
  <2>12. \A b \in Streams : heap[b] # <<>> => heap'[b] = heap[b] /\ b # s
    BY <1>1, <2>11
  <2>13. header.len + 1 \in 1 .. cap /\ 1 .. header.len \subseteq 1 .. cap
    BY <1>2, <2>2
  <2>14. /\ heap'[s] = w /\ w[header.len + 1] = s
         /\ \A i \in 1 .. header.len : w[i] = heap[header.arr][i]
    <3>1. heap'[s] = w
      BY <2>11
    <3>2. w[header.len + 1] = s
      BY <1>2, <2>4, <2>13
    <3>3. \A i \in 1 .. header.len : i <= header.len /\ i \in 1 .. cap
      BY <1>2, <2>13
    <3>4. \A i \in 1 .. header.len : w[i] = heap[header.arr][i]
      BY <2>4, <3>3
    <3> QED
      BY <3>1, <3>2, <3>4
  <2>15. \A b \in Streams : heap[b] = <<>> /\ b # s => heap'[b] = <<>>
    BY <2>11
  <2> QED
    BY <2>2, <2>8, <2>10, <2>11, <2>12, <2>14, <2>15
<1> QED
  BY <1>3, <1>4

LEMMA RegisterStep ==
    ASSUME KillInv, NEW s \in Streams, Register(s)
    PROVE  KillInv'
<1>1. /\ spc[s] = "new" /\ lock = Nil /\ AppendTo(s)
      /\ spc' = [spc EXCEPT ![s] = "registered"]
      /\ UNCHANGED <<lock, closed, shift, told, triggerVars, leftDuring>>
  BY DEF Register
<1>2. PICK a \in Streams, l \in Nat :
          /\ a = header'.arr /\ l = header.len
          /\ header'.len = l + 1 /\ l + 1 <= Len(heap'[a])
          /\ \A i \in 1 .. l : heap'[a][i] = heap[header.arr][i]
          /\ heap'[a][l + 1] = s
  <2>1. /\ header'.arr \in Streams /\ header'.len = header.len + 1
        /\ header'.len <= Len(heap'[header'.arr])
        /\ \A i \in 1 .. header.len : heap'[header'.arr][i] = heap[header.arr][i]
        /\ heap'[header'.arr][header.len + 1] = s
    BY <1>1, Appended
  <2>2. header.len \in Nat
    BY HeadLemma
  <2> QED
    BY <2>1, <2>2
<1>3. \A t \in Streams : spc'[t] = IF t = s THEN "registered" ELSE spc[t]
  BY <1>1 DEF KillInv, KillTypeOK
<1>4. KillTypeOK'
  <2>1. /\ heap' \in [Streams -> Seq(Streams \cup {Nil})] /\ header' \in Headers
    BY <1>1, Appended
  <2>2. spc' \in [Streams -> StreamStates]
    BY <1>1 DEF KillInv, KillTypeOK, StreamStates
  <2> QED
    BY <1>1, <2>1, <2>2 DEF KillInv, KillTypeOK, triggerVars
<1>5. ArrayInv'
  <2>1. \A t \in Streams : spc'[t] = "new" => heap'[t] = <<>>
    BY <1>1, <1>3, Appended DEF KillInv, ArrayInv
  <2>2. \A t \in Streams : spc'[t] = "shifting" <=> lock' = t
    BY <1>1, <1>3, NilAssumption DEF KillInv, ArrayInv
  <2>3. header'.arr # Nil /\ header'.len # 0
    BY <1>2, NilAssumption
  <2> QED
    BY <1>1, <1>2, <2>1, <2>2, <2>3 DEF ArrayInv
<1>6. SliceInv'
  <2>1. Hole = 0 /\ Hole' = 0
    BY <1>1 DEF Hole
  <2> DEFINE Live == {"registered", "serving", "leaving"}
  <2>2. \A t \in Streams : spc'[t] \in Live <=> spc[t] \in Live \/ t = s
    BY <1>3
  <2>3. spc[s] \notin Live
    BY <1>1
  <2>4. /\ \A i, j \in 1 .. l : heap[header.arr][i] = heap[header.arr][j] => i = j
        /\ \A i \in 1 .. l : heap[header.arr][i] \in Streams /\ spc[heap[header.arr][i]] \in Live
        /\ \A t \in Streams :
              spc[t] \in Live => \E i \in 1 .. l : heap[header.arr][i] = t
    BY <1>2, <2>1 DEF KillInv, SliceInv, Registered
  <2> HIDE DEF Live
  <2>5. \A i \in 1 .. l + 1 : i \in 1 .. l \/ i = l + 1
    OBVIOUS
  <2>6. \A i \in 1 .. l : heap'[a][i] \in Streams /\ heap'[a][i] # s
    BY <1>2, <2>3, <2>4
  <2>7. \A i, j \in 1 .. l + 1 : heap'[a][i] = heap'[a][j] => i = j
    BY <1>2, <2>4, <2>5, <2>6
  <2>8. \A i \in 1 .. l + 1 : heap'[a][i] \in Streams /\ spc'[heap'[a][i]] \in Live
    BY <1>2, <2>2, <2>4, <2>5, <2>6
  <2>9. \A t \in Streams : spc'[t] \in Live => \E i \in 1 .. l + 1 : heap'[a][i] = t
    <3>1. SUFFICES ASSUME NEW t \in Streams, spc'[t] \in Live
                   PROVE  \E i \in 1 .. l + 1 : heap'[a][i] = t
      OBVIOUS
    <3>2. CASE t = s
      BY <1>2, <3>2
    <3>3. CASE t # s
      <4>1. PICK i \in 1 .. l : heap[header.arr][i] = t
        BY <2>2, <2>4, <3>1, <3>3
      <4>2. i \in 1 .. l + 1 /\ heap'[a][i] = t
        BY <1>2, <4>1
      <4> QED
        BY <4>2
    <3> QED
      BY <3>2, <3>3
  <2>10. \A i \in 1 .. l + 1 : i # 0
    OBVIOUS
  <2> QED
    BY <1>2, <2>1, <2>7, <2>8, <2>9, <2>10 DEF SliceInv, Registered, Live
<1>7. ASSUME NEW k \in Triggers PROVE (ViewInv(k) /\ PlaceInv(k) /\ PassedInv(k))'
  <2>1. /\ view' = view /\ targets' = targets /\ tpc' = tpc /\ ti' = ti /\ tch' = tch
        /\ closed' = closed /\ panicked' = panicked /\ leftDuring' = leftDuring
        /\ lock' = Nil
    BY <1>1 DEF triggerVars
  <2>2. PassedInv(k)'
    BY <2>1 DEF KillInv, PassedInv, Running, Clean
  <2>3. (Running(k)' <=> Running(k)) /\ Clean(k)' = Clean(k)
    BY <2>1 DEF Running, Clean
  <2>4. SUFFICES ASSUME Running(k) PROVE (ViewInv(k) /\ PlaceInv(k))'
    BY <2>2, <2>3 DEF ViewInv, PlaceInv
  <2>5. PICK b \in Streams, v \in Nat :
            /\ b = view[k].arr /\ v = view[k].len /\ v = Len(targets[k])
            /\ v <= Len(heap[b]) /\ ti[k] \in 1 .. v
            /\ \A i \in 1 .. v : heap[b][i] \in Streams
            /\ tpc[k] = "close" => tch[k] \in Streams
            /\ \A n \in Clean(k) : heap[b][n] = targets[k][n]
            /\ header.arr = b => \A n \in Clean(k) : n <= l
    <3>1. view[k].len \in Nat
      BY DEF KillInv, KillTypeOK, Headers
    <3> QED
      BY <1>2, <2>4, <3>1 DEF KillInv, ViewInv, PlaceInv
  <2>6. heap[b] \in Seq(Streams \cup {Nil}) /\ Len(heap[b]) \in Nat /\ Len(heap[b]) >= 1
    <3>1. heap[b] \in Seq(Streams \cup {Nil})
      BY DEF KillInv, KillTypeOK
    <3>2. Len(heap[b]) \in Nat
      BY <3>1
    <3> QED
      BY <2>5, <3>1, <3>2
  <2>7. heap[b] # <<>>
    BY <2>6
  <2>8. /\ Len(heap'[b]) = Len(heap[b])
        /\ header'.arr = b => header.arr = b
        /\ \A i \in 1 .. Len(heap[b]) :
              \/ heap'[b][i] = heap[b][i]
              \/ b = header.arr /\ i = l + 1 /\ heap'[b][i] = s
    BY <1>1, <1>2, <2>7, Appended
  <2>9. \A i \in 1 .. v : i \in 1 .. Len(heap[b])
    BY <2>5, <2>6
  <2>10. \A i \in 1 .. v : heap'[b][i] \in Streams
    BY <2>5, <2>8, <2>9
  <2>11. \A n \in Clean(k) : n \in 1 .. v
    BY <2>5 DEF Clean
  <2>12. \A n \in Clean(k) : heap'[b][n] = targets[k][n]
    <3>1. SUFFICES ASSUME NEW n \in Clean(k) PROVE heap'[b][n] = heap[b][n]
      BY <2>5
    <3>2. n \in 1 .. Len(heap[b]) /\ n \in Nat
      BY <2>9, <2>11
    <3>3. header.arr = b => n # l + 1
      BY <1>2, <2>5, <3>2
    <3> QED
      BY <2>8, <3>2, <3>3
  <2>13. header'.arr = b => \A n \in Clean(k) : n <= header'.len
    BY <1>2, <2>5, <2>8, <2>11
  <2>14. ViewInv(k)'
    BY <2>1, <2>5, <2>8, <2>10 DEF ViewInv
  <2>15. PlaceInv(k)'
    BY <2>1, <2>3, <2>5, <2>12, <2>13 DEF PlaceInv
  <2> QED
    BY <2>14, <2>15
<1> QED
  BY <1>4, <1>5, <1>6, <1>7 DEF KillInv

-----------------------------------------------------------------------------
(* Removal.                                                                *)

LEMMA FindSelfStep ==
    ASSUME KillInv, NEW s \in Streams, FindSelf(s)
    PROVE  KillInv'
<1> DEFINE Live == {"registered", "serving", "leaving"}
<1>1. /\ spc[s] = "leaving" /\ lock = Nil /\ lock' = s
      /\ spc' = [spc EXCEPT ![s] = "shifting"]
      /\ shift' = [shift EXCEPT ![s] =
             CHOOSE i \in 1 .. header.len : heap[header.arr][i] = s]
      /\ header' = header /\ heap' = heap /\ closed' = closed /\ told' = told
      /\ UNCHANGED triggerVars
  BY DEF FindSelf
<1>2. PICK l \in Nat : l = header.len
  BY HeadLemma
<1>3. /\ \A i, j \in 1 .. l : heap[header.arr][i] = heap[header.arr][j] => i = j
      /\ \A i \in 1 .. l : heap[header.arr][i] \in Streams /\ spc[heap[header.arr][i]] \in Live
      /\ \A t \in Streams : spc[t] \in Live => \E i \in 1 .. l : heap[header.arr][i] = t
  <2>1. Hole = 0
    BY <1>1 DEF Hole
  <2>2. \A i \in 1 .. l : i # 0
    OBVIOUS
  <2> QED
    BY <1>2, <2>1, <2>2 DEF KillInv, SliceInv, Registered
<1>4. PICK p \in 1 .. l : heap[header.arr][p] = s /\ shift' = [shift EXCEPT ![s] = p]
  <2>1. \E i \in 1 .. l : heap[header.arr][i] = s
    BY <1>1, <1>3
  <2>2. PICK p : p = CHOOSE i \in 1 .. l : heap[header.arr][i] = s
    OBVIOUS
  <2>3. p \in 1 .. l /\ heap[header.arr][p] = s
    BY <2>1, <2>2
  <2> QED
    BY <1>1, <1>2, <2>2, <2>3
<1>5. shift' \in [Streams -> Nat] /\ shift'[s] = p
  BY <1>4 DEF KillInv, KillTypeOK
<1>6. \A t \in Streams : spc'[t] = IF t = s THEN "shifting" ELSE spc[t]
  BY <1>1 DEF KillInv, KillTypeOK
<1>7. leftDuring' \in [Triggers -> SUBSET Streams]
      /\ \A k \in Triggers : leftDuring'[k] =
            IF Running(k) /\ s \in Range(targets[k]) THEN leftDuring[k] \cup {s}
            ELSE leftDuring[k]
  BY DEF FindSelf, KillInv, KillTypeOK
<1>8. KillTypeOK'
  <2>1. spc' \in [Streams -> StreamStates]
    BY <1>1 DEF KillInv, KillTypeOK, StreamStates
  <2> QED
    BY <1>1, <1>5, <1>7, <2>1 DEF KillInv, KillTypeOK, triggerVars
<1>9. ArrayInv'
  <2>1. \A t \in Streams : spc'[t] = "new" => heap'[t] = <<>>
    BY <1>1, <1>6 DEF KillInv, ArrayInv
  <2>2. \A t \in Streams : spc'[t] = "shifting" <=> lock' = t
    BY <1>1, <1>6, NilAssumption DEF KillInv, ArrayInv
  <2>3. shift'[lock'] \in 1 .. header'.len /\ heap'[header'.arr][shift'[lock']] \in Streams
    BY <1>1, <1>2, <1>4, <1>5
  <2> QED
    BY <1>1, <2>1, <2>2, <2>3 DEF KillInv, ArrayInv
<1>10. SliceInv'
  <2>1. Hole' = p
    BY <1>1, <1>5, NilAssumption DEF Hole
  <2>2. \A t \in Streams : spc'[t] \in Live <=> spc[t] \in Live /\ t # s
    BY <1>6
  <2>3. \A i \in 1 .. l : i # p => heap[header.arr][i] # s
    BY <1>3, <1>4
  <2>4. \A i \in 1 .. l : i # p => /\ heap[header.arr][i] \in Streams
                                   /\ spc'[heap[header.arr][i]] \in Live
    BY <1>3, <2>2, <2>3
  <2>5. \A t \in Streams : spc'[t] \in Live =>
            \E i \in 1 .. l : i # p /\ heap[header.arr][i] = t
    BY <1>3, <1>4, <2>2
  <2> QED
    BY <1>1, <1>2, <1>3, <2>1, <2>4, <2>5 DEF SliceInv, Registered
<1>11. ASSUME NEW k \in Triggers PROVE (ViewInv(k) /\ PlaceInv(k) /\ PassedInv(k))'
  <2>1. /\ view' = view /\ targets' = targets /\ tpc' = tpc /\ ti' = ti /\ tch' = tch
        /\ closed' = closed /\ panicked' = panicked
    BY <1>1 DEF triggerVars
  <2>2. Running(k)' <=> Running(k)
    BY <2>1 DEF Running
  <2>3. Clean(k)' \subseteq Clean(k)
    BY <1>7, <2>1 DEF Clean
  <2>4. PassedInv(k)'
    BY <2>1, <2>2, <2>3 DEF KillInv, PassedInv
  <2>5. ViewInv(k)'
    BY <1>1, <2>1, <2>2 DEF KillInv, ViewInv
  <2>6. PlaceInv(k)'
    <3>1. SUFFICES ASSUME Running(k) PROVE PlaceInv(k)'
      BY <2>2 DEF PlaceInv
    <3>2. /\ \A n \in Clean(k) : heap[view[k].arr][n] = targets[k][n]
          /\ header.arr = view[k].arr => \A n \in Clean(k) : n <= l
      BY <1>2, <3>1 DEF KillInv, PlaceInv
    <3>3. ASSUME header.arr = view[k].arr, NEW n \in Clean(k)'
          PROVE  n < p
      <4>1. /\ n \in 1 .. Len(targets[k]) /\ n \in Clean(k) /\ n <= l
            /\ \A m \in 1 .. n : targets[k][m] \notin leftDuring'[k]
        BY <2>1, <2>3, <3>2, <3>3 DEF Clean
      <4>2. \A m \in 1 .. n : m \in Clean(k) /\ targets[k][m] # s
        <5>1. ASSUME NEW m \in 1 .. n PROVE m \in Clean(k) /\ targets[k][m] # s
          <6>1. m \in 1 .. Len(targets[k]) /\ \A q \in 1 .. m : q \in 1 .. n
            BY <4>1
          <6>2. m \in Clean(k)
            BY <4>1, <6>1 DEF Clean
          <6>3. targets[k][m] \in Range(targets[k])
            BY <6>1 DEF Range, KillInv, KillTypeOK
          <6>4. targets[k][m] # s
            BY <1>7, <3>1, <4>1, <6>3
          <6> QED
            BY <6>2, <6>4
        <5> QED
          BY <5>1
      <4>3. \A m \in 1 .. n : heap[header.arr][m] # s
        BY <3>2, <3>3, <4>2
      <4>4. n \in Nat /\ p \notin 1 .. n
        BY <1>4, <4>1, <4>3
      <4> QED
        BY <4>4
    <3>4. header.arr = view[k].arr =>
              \A n \in Clean(k)' : n <= l /\ n < p
      BY <2>3, <3>2, <3>3
    <3>5. \A n \in Clean(k)' : heap[view[k].arr][n] = targets[k][n]
      BY <2>3, <3>2
    <3> QED
      BY <1>1, <1>2, <1>5, <2>1, <3>4, <3>5 DEF PlaceInv
  <2> QED
    BY <2>4, <2>5, <2>6
<1> QED
  BY <1>8, <1>9, <1>10, <1>11 DEF KillInv

LEMMA ShiftWordStep ==
    ASSUME KillInv, NEW s \in Streams, ShiftWord(s)
    PROVE  KillInv'
<1> DEFINE Live == {"registered", "serving", "leaving"}
<1>1. /\ spc[s] = "shifting" /\ shift[s] < header.len
      /\ heap' = [heap EXCEPT ![header.arr][shift[s]] = heap[header.arr][shift[s] + 1]]
      /\ shift' = [shift EXCEPT ![s] = shift[s] + 1]
      /\ header' = header /\ lock' = lock /\ closed' = closed /\ spc' = spc
      /\ told' = told /\ leftDuring' = leftDuring /\ UNCHANGED triggerVars
  BY DEF ShiftWord
<1>2. lock = s /\ lock # Nil
  BY <1>1, NilAssumption DEF KillInv, ArrayInv
<1>3. PICK a \in Streams, l \in Nat, p \in Nat :
          /\ a = header.arr /\ l = header.len /\ p = shift[s]
          /\ heap[a] \in Seq(Streams \cup {Nil}) /\ l <= Len(heap[a]) /\ Len(heap[a]) \in Nat
          /\ p \in 1 .. l /\ p < l
  <2>1. /\ header.arr \in Streams /\ header.len \in Nat /\ shift[s] \in Nat
        /\ heap[header.arr] \in Seq(Streams \cup {Nil}) /\ Len(heap[header.arr]) \in Nat
    BY <1>2, HeadLemma
  <2>2. header.len <= Len(heap[header.arr]) /\ shift[s] \in 1 .. header.len
    BY <1>2, <2>1, NilAssumption DEF KillInv, ArrayInv
  <2> QED
    BY <1>1, <2>1, <2>2
<1>4. Hole = p /\ Hole' = p + 1
  <2>1. shift'[s] = p + 1
    BY <1>1, <1>3 DEF KillInv, KillTypeOK
  <2> QED
    BY <1>1, <1>2, <1>3, <2>1 DEF Hole
<1>5. /\ \A i, j \in 1 .. l : i # p /\ j # p /\ heap[a][i] = heap[a][j] => i = j
      /\ \A i \in 1 .. l : i # p => heap[a][i] \in Streams /\ spc[heap[a][i]] \in Live
      /\ \A t \in Streams : spc[t] \in Live => \E i \in 1 .. l : i # p /\ heap[a][i] = t
  BY <1>3, <1>4 DEF KillInv, SliceInv, Registered
<1>6. p + 1 \in 1 .. l /\ p + 1 # p
  BY <1>3
<1>7. PICK w : w = [heap[a] EXCEPT ![p] = heap[a][p + 1]]
  OBVIOUS
<1>8. /\ w \in Seq(Streams \cup {Nil}) /\ Len(w) = Len(heap[a])
      /\ \A i \in 1 .. Len(heap[a]) : w[i] = IF i = p THEN heap[a][p + 1] ELSE heap[a][i]
  <2>1. heap[a][p + 1] \in Streams \cup {Nil} /\ p \in 1 .. Len(heap[a])
    BY <1>3, <1>5, <1>6
  <2> QED
    BY <1>3, <1>7, <2>1
<1>9. heap' = [heap EXCEPT ![a] = w]
  BY <1>1, <1>3, <1>7
<1>10. heap' \in [Streams -> Seq(Streams \cup {Nil})]
       /\ \A b \in Streams : heap'[b] = IF b = a THEN w ELSE heap[b]
  BY <1>8, <1>9 DEF KillInv, KillTypeOK
<1>11. \A i \in 1 .. l : w[i] = IF i = p THEN heap[a][p + 1] ELSE heap[a][i]
  BY <1>3, <1>8
<1>12. KillTypeOK'
  <2>1. shift' \in [Streams -> Nat]
    BY <1>1, <1>3 DEF KillInv, KillTypeOK
  <2> QED
    BY <1>1, <1>10, <2>1 DEF KillInv, KillTypeOK, triggerVars
<1>13. ArrayInv'
  <2>1. heap[a] # <<>>
    BY <1>3
  <2>2. \A t \in Streams : spc'[t] = "new" => heap'[t] = <<>>
    BY <1>1, <1>10, <2>1 DEF KillInv, ArrayInv
  <2>3. /\ header'.arr = Nil <=> header'.len = 0
        /\ \A t \in Streams : spc'[t] = "shifting" <=> lock' = t
    BY <1>1 DEF KillInv, ArrayInv
  <2>4. header'.len <= Len(heap'[header'.arr])
    BY <1>1, <1>3, <1>8, <1>10
  <2>5. shift'[lock'] = p + 1
    BY <1>1, <1>2, <1>3 DEF KillInv, KillTypeOK
  <2>6. heap'[a][p + 1] = heap[a][p + 1] /\ heap[a][p + 1] \in Streams
    BY <1>5, <1>6, <1>10, <1>11
  <2> QED
    BY <1>1, <1>3, <1>6, <2>2, <2>3, <2>4, <2>5, <2>6 DEF ArrayInv
<1>14. SliceInv'
  <2>1. \A i, j \in 1 .. l : i # p + 1 /\ j # p + 1 /\ w[i] = w[j] => i = j
    BY <1>5, <1>6, <1>11
  <2>2. \A i \in 1 .. l : i # p + 1 => w[i] \in Streams /\ spc[w[i]] \in Live
    BY <1>5, <1>6, <1>11
  <2>3. \A t \in Streams : spc[t] \in Live => \E i \in 1 .. l : i # p + 1 /\ w[i] = t
    <3>1. SUFFICES ASSUME NEW t \in Streams, spc[t] \in Live
                   PROVE  \E i \in 1 .. l : i # p + 1 /\ w[i] = t
      OBVIOUS
    <3>2. PICK i \in 1 .. l : i # p /\ heap[a][i] = t
      BY <1>5, <3>1
    <3>3. CASE i = p + 1
      BY <1>3, <1>6, <1>11, <3>2, <3>3
    <3>4. CASE i # p + 1
      BY <1>11, <3>2, <3>4
    <3> QED
      BY <3>3, <3>4
  <2>4. heap'[header'.arr] = w /\ header'.len = l /\ spc' = spc
    BY <1>1, <1>3, <1>10
  <2> QED
    BY <1>4, <2>1, <2>2, <2>3, <2>4 DEF SliceInv, Registered
<1>15. ASSUME NEW k \in Triggers PROVE (ViewInv(k) /\ PlaceInv(k) /\ PassedInv(k))'
  <2>1. /\ view' = view /\ targets' = targets /\ tpc' = tpc /\ ti' = ti /\ tch' = tch
        /\ closed' = closed /\ panicked' = panicked /\ leftDuring' = leftDuring
    BY <1>1 DEF triggerVars
  <2>2. PassedInv(k)'
    BY <2>1 DEF KillInv, PassedInv, Running, Clean
  <2>3. (Running(k)' <=> Running(k)) /\ Clean(k)' = Clean(k)
    BY <2>1 DEF Running, Clean
  <2>4. SUFFICES ASSUME Running(k) PROVE (ViewInv(k) /\ PlaceInv(k))'
    BY <2>2, <2>3 DEF ViewInv, PlaceInv
  <2>5. PICK b \in Streams, v \in Nat :
            /\ b = view[k].arr /\ v = view[k].len /\ v = Len(targets[k])
            /\ v <= Len(heap[b]) /\ ti[k] \in 1 .. v
            /\ \A i \in 1 .. v : heap[b][i] \in Streams
            /\ tpc[k] = "close" => tch[k] \in Streams
            /\ \A n \in Clean(k) : heap[b][n] = targets[k][n]
            /\ a = b => \A n \in Clean(k) : n <= l /\ n < p
    <3>1. view[k].len \in Nat
      BY DEF KillInv, KillTypeOK, Headers
    <3> QED
      BY <1>2, <1>3, <2>4, <3>1 DEF KillInv, ViewInv, PlaceInv
  <2>6. Len(heap[b]) \in Nat /\ \A i \in 1 .. v : i \in 1 .. Len(heap[b])
    BY <2>5, SMTT(30) DEF KillInv, KillTypeOK
  <2>7. \A n \in Clean(k) : n \in 1 .. v
    BY <2>5 DEF Clean
  <2>8. CASE b # a
    <3>1. heap'[b] = heap[b]
      BY <1>10, <2>8
    <3>2. ViewInv(k)'
      BY <2>1, <2>5, <3>1 DEF ViewInv
    <3>3. PlaceInv(k)'
      BY <1>1, <1>3, <2>1, <2>3, <2>5, <2>8, <3>1 DEF PlaceInv
    <3> QED
      BY <3>2, <3>3
  <2>9. CASE b = a
    <3>1. heap'[b] = w
      BY <1>10, <2>9
    <3>2. \A i \in 1 .. v : w[i] \in Streams
      BY <1>5, <1>6, <1>8, <2>5, <2>6, <2>9
    <3>3. \A n \in Clean(k) : w[n] = targets[k][n]
      <4>1. SUFFICES ASSUME NEW n \in Clean(k) PROVE w[n] = heap[a][n]
        BY <2>5, <2>9
      <4>2. n \in 1 .. Len(heap[a]) /\ n # p
        BY <1>3, <2>5, <2>6, <2>7, <2>9
      <4> QED
        BY <1>8, <4>2
    <3>4. \A n \in Clean(k) : n <= l /\ n < p + 1
      BY <1>3, <2>5, <2>7, <2>9
    <3>5. shift'[lock'] = p + 1
      BY <1>1, <1>2, <1>3 DEF KillInv, KillTypeOK
    <3>6. ViewInv(k)'
      BY <1>8, <2>1, <2>5, <2>9, <3>1, <3>2 DEF ViewInv
    <3>7. PlaceInv(k)'
      BY <1>1, <1>3, <2>1, <2>3, <2>5, <3>1, <3>3, <3>4, <3>5 DEF PlaceInv
    <3> QED
      BY <3>6, <3>7
  <2> QED
    BY <2>8, <2>9
<1> QED
  BY <1>12, <1>13, <1>14, <1>15 DEF KillInv

LEMMA DeregisterStep ==
    ASSUME KillInv, NEW s \in Streams, Deregister(s)
    PROVE  KillInv'
<1> DEFINE Live == {"registered", "serving", "leaving"}
<1>1. /\ spc[s] = "shifting" /\ shift[s] >= header.len
      /\ header' = IF header.len = 1 THEN NoEntry ELSE [header EXCEPT !.len = header.len - 1]
      /\ lock' = Nil /\ spc' = [spc EXCEPT ![s] = "gone"]
      /\ heap' = heap /\ closed' = closed /\ shift' = shift /\ told' = told
      /\ leftDuring' = leftDuring /\ UNCHANGED triggerVars
  BY DEF Deregister
<1>2. lock = s /\ lock # Nil
  BY <1>1, NilAssumption DEF KillInv, ArrayInv
<1>3. PICK a \in Streams, l \in Nat :
          /\ a = header.arr /\ l = header.len /\ l = shift[s] /\ l >= 1
          /\ l <= Len(heap[a]) /\ Len(heap[a]) \in Nat
  <2>1. /\ header.arr \in Streams /\ header.len \in Nat /\ shift[s] \in Nat
        /\ header.len >= 1 /\ Len(heap[header.arr]) \in Nat
    BY <1>2, HeadLemma
  <2>2. header.len <= Len(heap[header.arr]) /\ shift[s] \in 1 .. header.len
    BY <1>2, <2>1, NilAssumption DEF KillInv, ArrayInv
  <2> QED
    BY <1>1, <2>1, <2>2
<1>4. /\ header' \in Headers /\ header'.len = l - 1
      /\ header'.arr = IF l = 1 THEN Nil ELSE a
  <2>1. CASE l = 1
    <3>1. header' = [arr |-> Nil, len |-> 0]
      BY <1>1, <1>3, <2>1 DEF NoEntry
    <3> QED
      BY <2>1, <3>1 DEF Headers
  <2>2. CASE l # 1
    <3>1. header' = [header EXCEPT !.len = l - 1] /\ l - 1 \in Nat
      BY <1>1, <1>3, <2>2
    <3> QED
      BY <1>3, <2>2, <3>1 DEF KillInv, KillTypeOK, Headers
  <2> QED
    BY <2>1, <2>2
<1>5. Hole = l /\ Hole' = 0
  BY <1>1, <1>2, <1>3 DEF Hole
<1>6. /\ \A i, j \in 1 .. l : i # l /\ j # l /\ heap[a][i] = heap[a][j] => i = j
      /\ \A i \in 1 .. l : i # l => heap[a][i] \in Streams /\ spc[heap[a][i]] \in Live
      /\ \A t \in Streams : spc[t] \in Live => \E i \in 1 .. l : i # l /\ heap[a][i] = t
  BY <1>3, <1>5 DEF KillInv, SliceInv, Registered
<1>7. \A t \in Streams : spc'[t] = IF t = s THEN "gone" ELSE spc[t]
  BY <1>1 DEF KillInv, KillTypeOK
<1>8. KillTypeOK'
  <2>1. spc' \in [Streams -> StreamStates] /\ lock' \in Streams \cup {Nil}
    BY <1>1 DEF KillInv, KillTypeOK, StreamStates
  <2> QED
    BY <1>1, <1>4, <2>1 DEF KillInv, KillTypeOK, triggerVars
<1>9. ArrayInv'
  <2>1. \A t \in Streams : spc'[t] = "new" => heap'[t] = <<>>
    BY <1>1, <1>7 DEF KillInv, ArrayInv
  <2>2. \A t \in Streams : spc'[t] = "shifting" <=> lock' = t
    BY <1>1, <1>2, <1>7, NilAssumption DEF KillInv, ArrayInv
  <2>3. header'.arr = Nil <=> header'.len = 0
    BY <1>3, <1>4, NilAssumption
  <2>4. header'.arr # Nil => header'.len <= Len(heap'[header'.arr])
    BY <1>1, <1>3, <1>4
  <2> QED
    BY <1>1, <2>1, <2>2, <2>3, <2>4 DEF ArrayInv
<1>10. SliceInv'
  <2>1. \A t \in Streams : spc'[t] \in Live <=> spc[t] \in Live
    BY <1>1, <1>7
  <2>2. \A i : i \in 1 .. l - 1 <=> i \in 1 .. l /\ i # l
    BY <1>3
  <2>3. \A i \in 1 .. l - 1 : i # 0 /\ header'.arr = a
    BY <1>3, <1>4
  <2>4. \A i, j \in 1 .. l - 1 : heap[a][i] = heap[a][j] => i = j
    BY <1>6, <2>2
  <2>5. \A i \in 1 .. l - 1 : heap[a][i] \in Streams /\ spc'[heap[a][i]] \in Live
    BY <1>6, <2>1, <2>2
  <2>6. \A t \in Streams : spc'[t] \in Live => \E i \in 1 .. l - 1 : heap[a][i] = t
    BY <1>6, <2>1, <2>2
  <2> QED
    BY <1>1, <1>4, <1>5, <2>3, <2>4, <2>5, <2>6 DEF SliceInv, Registered
<1>11. ASSUME NEW k \in Triggers PROVE (ViewInv(k) /\ PlaceInv(k) /\ PassedInv(k))'
  <2>1. /\ view' = view /\ targets' = targets /\ tpc' = tpc /\ ti' = ti /\ tch' = tch
        /\ closed' = closed /\ panicked' = panicked /\ leftDuring' = leftDuring
    BY <1>1 DEF triggerVars
  <2>2. PassedInv(k)'
    BY <2>1 DEF KillInv, PassedInv, Running, Clean
  <2>3. (Running(k)' <=> Running(k)) /\ Clean(k)' = Clean(k)
    BY <2>1 DEF Running, Clean
  <2>4. ViewInv(k)'
    BY <1>1, <2>1, <2>3 DEF KillInv, ViewInv
  <2>5. PlaceInv(k)'
    <3>1. SUFFICES ASSUME Running(k) PROVE PlaceInv(k)'
      BY <2>3 DEF PlaceInv
    <3>2. /\ \A n \in Clean(k) : heap[view[k].arr][n] = targets[k][n]
          /\ a = view[k].arr => \A n \in Clean(k) : n < l
          /\ view[k].arr \in Streams
      BY <1>2, <1>3, <3>1 DEF KillInv, PlaceInv, ViewInv
    <3>3. \A n \in Clean(k) : n \in Nat
      BY DEF Clean
    <3>4. header'.arr = view[k].arr => \A n \in Clean(k) : n <= header'.len
      BY <1>3, <1>4, <3>2, <3>3, NilAssumption
    <3> QED
      BY <1>1, <2>1, <2>3, <3>2, <3>4 DEF PlaceInv
  <2> QED
    BY <2>2, <2>4, <2>5
<1> QED
  BY <1>8, <1>9, <1>10, <1>11 DEF KillInv

-----------------------------------------------------------------------------
(* The trigger.                                                            *)

\* The slice and the other walks when trigger k moves.
LEMMA TriggerMoves ==
    ASSUME KillInv, NEW k \in Triggers,
           header' = header, heap' = heap, lock' = lock, UNCHANGED streamVars,
           leftDuring' = leftDuring, closed \subseteq closed',
           panicked => panicked',
           \A q \in Triggers : q # k =>
               /\ tpc'[q] = tpc[q] /\ view'[q] = view[q] /\ ti'[q] = ti[q]
               /\ tch'[q] = tch[q] /\ targets'[q] = targets[q],
           KillTypeOK', (ViewInv(k) /\ PlaceInv(k) /\ PassedInv(k))'
    PROVE  KillInv'
<1>1. ArrayInv' /\ SliceInv'
  BY DEF KillInv, ArrayInv, SliceInv, Hole, Registered, streamVars
<1>2. ASSUME NEW q \in Triggers, q # k
      PROVE  (ViewInv(q) /\ PlaceInv(q) /\ PassedInv(q))'
  <2>1. /\ tpc'[q] = tpc[q] /\ view'[q] = view[q] /\ ti'[q] = ti[q]
        /\ tch'[q] = tch[q] /\ targets'[q] = targets[q] /\ shift' = shift
    BY <1>2 DEF streamVars
  <2>2. (Running(q)' <=> Running(q)) /\ Clean(q)' = Clean(q)
    BY <2>1 DEF Running, Clean
  <2>3. ViewInv(q)'
    BY <2>1, <2>2 DEF KillInv, ViewInv
  <2>4. PlaceInv(q)'
    BY <2>1, <2>2 DEF KillInv, PlaceInv
  <2>5. PassedInv(q)'
    BY <2>1, <2>2 DEF KillInv, PassedInv
  <2> QED
    BY <2>3, <2>4, <2>5
<1> QED
  BY <1>1, <1>2 DEF KillInv

LEMMA CopyHeaderStep ==
    ASSUME KillInv, NEW k \in Triggers, CopyHeader(k)
    PROVE  KillInv'
<1>1. /\ tpc[k] = "idle" /\ lock = Nil
      /\ view' = [view EXCEPT ![k] = header]
      /\ targets' = [targets EXCEPT ![k] = Elements(header)]
      /\ header' = header /\ heap' = heap /\ lock' = lock /\ closed' = closed
      /\ ti' = ti /\ tch' = tch /\ count' = count /\ panicked' = panicked
      /\ leftDuring' = leftDuring /\ UNCHANGED streamVars
  BY DEF CopyHeader
<1>2. PICK l \in Nat : l = header.len
  BY HeadLemma
<1>3. PICK st \in {"done", "select"} :
          /\ tpc' = [tpc EXCEPT ![k] = st]
          /\ st = "select" => header.arr # Nil /\ l >= 1
          /\ st = "done" => l = 0
  <2>1. CASE header = NoEntry
    <3>1. header.len = 0
      BY <2>1 DEF NoEntry
    <3>2. tpc' = [tpc EXCEPT ![k] = "done"]
      BY <2>1 DEF CopyHeader
    <3> QED
      BY <1>2, <3>1, <3>2
  <2>2. CASE header # NoEntry
    <3>1. header.arr # Nil
      <4>1. SUFFICES ASSUME header.arr = Nil PROVE FALSE
        OBVIOUS
      <4>2. header.len = 0
        BY <4>1 DEF KillInv, ArrayInv
      <4>3. header \in [arr : Streams \cup {Nil}, len : Nat]
        BY DEF KillInv, KillTypeOK, Headers
      <4>4. header = [arr |-> Nil, len |-> 0]
        BY <4>1, <4>2, <4>3
      <4> QED
        BY <2>2, <4>4 DEF NoEntry
    <3>2. tpc' = [tpc EXCEPT ![k] = "select"]
      BY <2>2 DEF CopyHeader
    <3> QED
      BY <1>2, <3>1, <3>2, HeadLemma
  <2> QED
    BY <2>1, <2>2
<1>4. PICK T : T = Elements(header)
  OBVIOUS
<1>5. \A i \in 1 .. l : heap[header.arr][i] \in Streams
  <2>1. Hole = 0 /\ \A i \in 1 .. l : i # 0
    BY <1>1 DEF Hole
  <2> QED
    BY <1>2, <2>1 DEF KillInv, SliceInv
<1>6. T \in [1 .. l -> Streams] /\ \A i \in 1 .. l : T[i] = heap[header.arr][i]
  BY <1>2, <1>4, <1>5 DEF Elements
<1>7. T \in Seq(Streams) /\ Len(T) = l
  BY <1>6
<1>8. /\ view' \in [Triggers -> Headers] /\ view'[k] = header
      /\ targets' \in [Triggers -> Seq(Streams)] /\ targets'[k] = T
      /\ tpc' \in [Triggers -> TriggerStates] /\ tpc'[k] = st
      /\ \A q \in Triggers : q # k =>
             tpc'[q] = tpc[q] /\ view'[q] = view[q] /\ targets'[q] = targets[q]
  BY <1>1, <1>3, <1>4, <1>7 DEF KillInv, KillTypeOK, TriggerStates
<1>9. KillTypeOK'
  BY <1>1, <1>8 DEF KillInv, KillTypeOK, streamVars
<1>10. \A n \in Clean(k)' : n \in 1 .. l
  BY <1>7, <1>8 DEF Clean
<1>11. ti'[k] = 1
  BY <1>1 DEF KillInv, PassedInv
<1>12. ViewInv(k)'
  <2>1. SUFFICES ASSUME st = "select" PROVE ViewInv(k)'
    BY <1>8 DEF ViewInv, Running
  <2>2. header.arr \in Streams /\ l <= Len(heap[header.arr]) /\ l >= 1
    BY <1>2, <1>3, <2>1, HeadLemma DEF KillInv, ArrayInv
  <2> QED
    BY <1>1, <1>2, <1>5, <1>7, <1>8, <1>11, <2>1, <2>2 DEF ViewInv
<1>13. PlaceInv(k)'
  BY <1>1, <1>2, <1>6, <1>8, <1>10 DEF PlaceInv
<1>14. PassedInv(k)'
  <2>1. \A n \in Clean(k)' : n >= 1 /\ ~(n < 1) /\ l # 0
    BY <1>10
  <2> QED
    BY <1>3, <1>8, <1>11, <2>1 DEF PassedInv, Running
<1> QED
  BY <1>1, <1>8, <1>9, <1>12, <1>13, <1>14, TriggerMoves

LEMMA NextIterationStep ==
    ASSUME KillInv, NEW k \in Triggers, Running(k), NextIteration(k),
           closed \subseteq closed', closed' \subseteq Streams,
           ti[k] \in Clean(k) => targets[k][ti[k]] \in closed',
           count' \in [Triggers -> Nat], tch' = tch, view' = view, targets' = targets,
           header' = header, heap' = heap, lock' = lock, UNCHANGED streamVars,
           leftDuring' = leftDuring, panicked' = panicked
    PROVE  KillInv'
<1>1. PICK v \in Nat, i \in Nat :
          /\ v = view[k].len /\ i = ti[k] /\ v = Len(targets[k]) /\ i \in 1 .. v
  <2>1. view[k].len \in Nat /\ ti[k] \in Nat
    BY DEF KillInv, KillTypeOK, Headers
  <2> QED
    BY <2>1 DEF KillInv, ViewInv
<1>2. PICK st \in {"select", "done"} :
          /\ st = IF i < v THEN "select" ELSE "done"
          /\ tpc' = [tpc EXCEPT ![k] = st] /\ ti' = [ti EXCEPT ![k] = i + 1]
  BY <1>1 DEF NextIteration
<1>3. /\ tpc' \in [Triggers -> TriggerStates] /\ tpc'[k] = st
      /\ ti' \in [Triggers -> Nat] /\ ti'[k] = i + 1
      /\ \A q \in Triggers : q # k => tpc'[q] = tpc[q] /\ ti'[q] = ti[q]
  BY <1>1, <1>2 DEF KillInv, KillTypeOK, TriggerStates
<1>4. KillTypeOK'
  BY <1>3 DEF KillInv, KillTypeOK, streamVars
<1>5. Clean(k)' = Clean(k) /\ Clean(k) \subseteq 1 .. v
  BY <1>1 DEF Clean
<1>6. \A n \in Clean(k) : n < i + 1 => targets[k][n] \in closed'
  <2>1. \A n \in Clean(k) : n < i => targets[k][n] \in closed
    BY <1>1 DEF KillInv, PassedInv
  <2>2. \A n \in Clean(k) : n < i + 1 => n < i \/ n = i
    BY <1>1, <1>5
  <2> QED
    BY <1>1, <2>1, <2>2
<1>7. st = "done" => \A n \in Clean(k) : n < i + 1
  BY <1>1, <1>2, <1>5
<1>8. st = "select" => i + 1 \in 1 .. v
  BY <1>1, <1>2
<1>9. ViewInv(k)'
  BY <1>1, <1>3, <1>8 DEF KillInv, ViewInv, Running
<1>10. PlaceInv(k)'
  BY <1>5 DEF KillInv, PlaceInv, streamVars
<1>11. PassedInv(k)'
  BY <1>3, <1>5, <1>6, <1>7 DEF PassedInv
<1> QED
  BY <1>3, <1>4, <1>9, <1>10, <1>11, TriggerMoves

LEMMA SelectChannelStep ==
    ASSUME KillInv, NEW k \in Triggers, SelectChannel(k)
    PROVE  KillInv'
<1>1. /\ tpc[k] = "select" /\ Running(k)
      /\ header' = header /\ heap' = heap /\ lock' = lock /\ closed' = closed
      /\ view' = view /\ count' = count /\ panicked' = panicked /\ targets' = targets
      /\ leftDuring' = leftDuring /\ UNCHANGED streamVars
  BY DEF SelectChannel, Running
<1>2. PICK ch \in Streams : ch = heap[view[k].arr][ti[k]]
  BY <1>1 DEF KillInv, ViewInv
<1>3. ti[k] \in Clean(k) => targets[k][ti[k]] = ch
  BY <1>1, <1>2 DEF KillInv, PlaceInv
<1>4. closed' \subseteq Streams /\ count' \in [Triggers -> Nat]
  BY <1>1 DEF KillInv, KillTypeOK
<1>5. CASE ch \in closed
  <2>1. NextIteration(k) /\ tch' = tch
    BY <1>2, <1>5 DEF SelectChannel
  <2> QED
    BY <1>1, <1>3, <1>4, <1>5, <2>1, NextIterationStep
<1>6. CASE ch \notin closed
  <2>1. /\ tch' = [tch EXCEPT ![k] = ch] /\ tpc' = [tpc EXCEPT ![k] = "close"] /\ ti' = ti
    BY <1>2, <1>6 DEF SelectChannel
  <2>2. /\ tpc' \in [Triggers -> TriggerStates] /\ tpc'[k] = "close"
        /\ tch' \in [Triggers -> Streams \cup {Nil}] /\ tch'[k] = ch
        /\ \A q \in Triggers : q # k => tpc'[q] = tpc[q] /\ tch'[q] = tch[q]
    BY <2>1 DEF KillInv, KillTypeOK, TriggerStates
  <2>3. KillTypeOK'
    BY <1>1, <2>1, <2>2 DEF KillInv, KillTypeOK, streamVars
  <2>4. Clean(k)' = Clean(k)
    BY <1>1 DEF Clean
  <2>5. ViewInv(k)'
    BY <1>1, <2>1, <2>2 DEF KillInv, ViewInv
  <2>6. PlaceInv(k)'
    BY <1>1, <2>4 DEF KillInv, PlaceInv, streamVars
  <2>7. PassedInv(k)'
    BY <1>1, <1>3, <2>1, <2>2, <2>4 DEF KillInv, PassedInv
  <2> QED
    BY <1>1, <2>1, <2>2, <2>3, <2>5, <2>6, <2>7, TriggerMoves
<1> QED
  BY <1>5, <1>6

LEMMA CloseChannelStep ==
    ASSUME KillInv, NEW k \in Triggers, CloseChannel(k)
    PROVE  KillInv'
<1>1. /\ tpc[k] = "close" /\ Running(k)
      /\ header' = header /\ heap' = heap /\ lock' = lock
      /\ view' = view /\ tch' = tch /\ targets' = targets
      /\ leftDuring' = leftDuring /\ UNCHANGED streamVars
  BY DEF CloseChannel, Running
<1>2. CASE tch[k] \in closed
  <2>1. /\ panicked' = TRUE /\ tpc' = [tpc EXCEPT ![k] = "done"]
        /\ closed' = closed /\ count' = count /\ ti' = ti
    BY <1>2 DEF CloseChannel
  <2>2. /\ tpc' \in [Triggers -> TriggerStates] /\ tpc'[k] = "done"
        /\ \A q \in Triggers : q # k => tpc'[q] = tpc[q]
    BY <2>1 DEF KillInv, KillTypeOK, TriggerStates
  <2>3. KillTypeOK'
    BY <1>1, <2>1, <2>2 DEF KillInv, KillTypeOK, streamVars
  <2>4. (ViewInv(k) /\ PlaceInv(k) /\ PassedInv(k))'
    BY <2>1, <2>2 DEF ViewInv, PlaceInv, PassedInv, Running
  <2> QED
    BY <1>1, <2>1, <2>2, <2>3, <2>4, TriggerMoves
<1>3. CASE tch[k] \notin closed
  <2>1. /\ closed' = closed \cup {tch[k]} /\ NextIteration(k) /\ panicked' = panicked
        /\ count' = [count EXCEPT ![k] = @ + 1]
    BY <1>3 DEF CloseChannel
  <2>2. tch[k] \in Streams
    BY <1>1 DEF KillInv, ViewInv
  <2>3. closed \subseteq closed' /\ closed' \subseteq Streams
    BY <2>1, <2>2 DEF KillInv, KillTypeOK
  <2>4. count' \in [Triggers -> Nat]
    BY <2>1 DEF KillInv, KillTypeOK
  <2>5. ti[k] \in Clean(k) => targets[k][ti[k]] \in closed'
    BY <1>1, <2>1 DEF KillInv, PassedInv
  <2> QED
    BY <1>1, <2>1, <2>3, <2>4, <2>5, NextIterationStep
<1> QED
  BY <1>2, <1>3

-----------------------------------------------------------------------------
LEMMA InitKill == KillInit => KillInv
<1> SUFFICES ASSUME KillInit PROVE KillInv
  OBVIOUS
<1>1. /\ header \in Headers /\ header.arr = Nil /\ header.len = 0
      /\ \A k \in Triggers : view[k] \in Headers
  BY DEF KillInit, NoEntry, Headers
<1>2. <<>> \in Seq(Streams \cup {Nil}) /\ <<>> \in Seq(Streams) /\ Len(<<>>) = 0
  OBVIOUS
<1>3. KillTypeOK
  BY <1>1, <1>2 DEF KillInit, KillTypeOK, StreamStates, TriggerStates
<1>4. ArrayInv
  BY <1>1, NilAssumption DEF KillInit, ArrayInv
<1>5. SliceInv
  BY <1>1 DEF KillInit, SliceInv, Registered
<1>6. \A k \in Triggers : ViewInv(k) /\ PlaceInv(k) /\ PassedInv(k)
  BY DEF KillInit, ViewInv, PlaceInv, PassedInv, Running
<1> QED
  BY <1>3, <1>4, <1>5, <1>6 DEF KillInv

LEMMA KillStep == KillInv /\ [KillNext]_killVars => KillInv'
<1> SUFFICES ASSUME KillInv, [KillNext]_killVars PROVE KillInv'
  OBVIOUS
<1>1. ASSUME NEW s \in Streams, StreamStep(s) PROVE KillInv'
  <2>1. CASE Register(s)
    BY <2>1, RegisterStep
  <2>2. CASE Refuse(s)
    <3>1. told' \subseteq Streams /\ spc[s] = "new" /\ "gone" \in StreamStates
      BY <2>2 DEF Refuse, KillInv, KillTypeOK, StreamStates
    <3> QED
      BY <2>2, <3>1, StreamMoves DEF Refuse, Registered
  <2>3. CASE SendActive(s)
    <3>1. told' \subseteq Streams /\ spc[s] = "registered" /\ "serving" \in StreamStates
      BY <2>3 DEF SendActive, KillInv, KillTypeOK, StreamStates
    <3> QED
      BY <2>3, <3>1, StreamMoves DEF SendActive, Registered
  <2>4. CASE Disconnect(s)
    <3>1. /\ told' \subseteq Streams /\ spc[s] \in {"registered", "serving"}
          /\ "leaving" \in StreamStates
      BY <2>4 DEF Disconnect, KillInv, KillTypeOK, StreamStates
    <3> QED
      BY <2>4, <3>1, StreamMoves DEF Disconnect, Registered
  <2>5. CASE ReceiveKill(s)
    <3>1. told' \subseteq Streams /\ spc[s] = "serving" /\ "leaving" \in StreamStates
      BY <2>5 DEF ReceiveKill, KillInv, KillTypeOK, StreamStates
    <3> QED
      BY <2>5, <3>1, StreamMoves DEF ReceiveKill, Registered
  <2>6. CASE FindSelf(s)
    BY <2>6, FindSelfStep
  <2>7. CASE ShiftWord(s)
    BY <2>7, ShiftWordStep
  <2>8. CASE Deregister(s)
    BY <2>8, DeregisterStep
  <2> QED
    BY <1>1, <2>1, <2>2, <2>3, <2>4, <2>5, <2>6, <2>7, <2>8 DEF StreamStep
<1>2. ASSUME NEW k \in Triggers, TriggerStep(k) PROVE KillInv'
  BY <1>2, CopyHeaderStep, SelectChannelStep, CloseChannelStep DEF TriggerStep
<1>3. CASE UNCHANGED killVars
  <2>1. KillTypeOK' /\ ArrayInv' /\ SliceInv'
    BY <1>3 DEF killVars, streamVars, triggerVars, KillInv, KillTypeOK, ArrayInv, SliceInv,
                Hole, Registered
  <2> QED
    BY <1>3, <2>1, WalksStay DEF killVars, streamVars, KillInv
<1> QED
  BY <1>1, <1>2, <1>3 DEF KillNext, Quiet

\* For any number of streams and triggers, triggers that overlap included:
\* the slice under the lock holds exactly the streams that registered and
\* have not left, and a trigger that returned missed only streams that had
\* registered after one that left during its walk.
THEOREM WalkCorrect == KillSpec => [](SliceExact /\ MissedWereBehind)
<1>1. KillInv => SliceExact
  <2> SUFFICES ASSUME KillInv, lock = Nil
               PROVE  /\ Range(Elements(header)) = {s \in Streams : Registered(s)}
                      /\ IsInjective(Elements(header))
    BY DEF SliceExact
  <2>1. PICK l \in Nat : l = header.len
    BY HeadLemma
  <2>2. PICK T : T = Elements(header)
    OBVIOUS
  <2>3. DOMAIN T = 1 .. l /\ \A i \in 1 .. l : T[i] = heap[header.arr][i]
    BY <2>1, <2>2 DEF Elements
  <2>4. /\ \A i, j \in 1 .. l : T[i] = T[j] => i = j
        /\ \A i \in 1 .. l : T[i] \in Streams /\ Registered(T[i])
        /\ \A s \in Streams : Registered(s) => \E i \in 1 .. l : T[i] = s
    <3>1. Hole = 0 /\ \A i \in 1 .. l : i # 0
      BY DEF Hole
    <3> QED
      BY <2>1, <2>3, <3>1 DEF KillInv, SliceInv
  <2>5. Range(T) = {s \in Streams : Registered(s)}
    BY <2>3, <2>4 DEF Range
  <2>6. IsInjective(T)
    BY <2>3, <2>4 DEF IsInjective
  <2> QED
    BY <2>2, <2>5, <2>6
<1>2. KillInv => MissedWereBehind
  BY DEF KillInv, PassedInv, MissedWereBehind, Clean
<1> QED
  BY <1>1, <1>2, InitKill, KillStep, PTL DEF KillSpec

-----------------------------------------------------------------------------
(* The sum of what the triggers report.                                    *)

LEMMA LeastNat ==
    ASSUME NEW T \in SUBSET Nat, T # {}
    PROVE  \E n \in T : \A m \in T : n <= m
<1> DEFINE R == {ss \in Nat \X Nat : ss[1] < ss[2]}
<1>1. IsWellFoundedOn(R, Nat)
  BY NatLessThanWellFounded DEF OpToRel
<1>2. \A x, y \in Nat : <<y, x>> \in R <=> y < x
  OBVIOUS
<1> HIDE DEF R
<1>3. PICK n \in T : \A y \in T : ~(<<y, n>> \in R)
  BY <1>1, WFMin
<1>4. \A m \in T : ~(m < n)
  BY <1>2, <1>3
<1> QED
  BY <1>4

\* Induction, with the hypothesis as a set.
LEMMA SetInduction ==
    ASSUME NEW T, 0 \in T, \A n \in Nat : n \in T => n + 1 \in T
    PROVE  \A n \in Nat : n \in T
<1>1. SUFFICES ASSUME NEW z \in Nat \ T PROVE FALSE
  OBVIOUS
<1>2. PICK n \in Nat \ T : \A m \in Nat \ T : n <= m
  BY LeastNat
<1>3. n # 0
  BY <1>2
<1>4. n - 1 \in Nat /\ (n - 1) + 1 = n /\ ~(n <= n - 1)
  BY <1>2, <1>3
<1>5. n - 1 \in T
  BY <1>2, <1>4
<1> QED
  BY <1>2, <1>4, <1>5

First(s) == CHOOSE x \in s : TRUE

\* g sums c over the sets of D, one element after the other.
Sums(g, c, D) == g = [s \in D |-> IF s = {} THEN 0 ELSE c[First(s)] + g[s \ {First(s)}]]

UpTo(S, n) == {s \in SUBSET S : Cardinality(s) <= n}

\* What is left of a set without its first element is smaller.
LEMMA Smaller ==
    ASSUME NEW S, IsFiniteSet(S), NEW s \in SUBSET S
    PROVE  /\ Cardinality(s) \in Nat /\ (Cardinality(s) = 0 <=> s = {})
           /\ s # {} => /\ First(s) \in s /\ s \ {First(s)} \in SUBSET S
                        /\ Cardinality(s \ {First(s)}) = Cardinality(s) - 1
<1>1. IsFiniteSet(s)
  BY FS_Subset
<1>2. Cardinality(s) \in Nat /\ (Cardinality(s) = 0 <=> s = {})
  BY <1>1, FS_CardinalityType, FS_EmptySet
<1>3. s # {} => First(s) \in s
  BY DEF First
<1>4. s # {} => Cardinality(s \ {First(s)}) = Cardinality(s) - 1
  BY <1>1, <1>3, FS_RemoveElement
<1> QED
  BY <1>2, <1>3, <1>4

LEMMA UpToFacts ==
    ASSUME NEW S, IsFiniteSet(S)
    PROVE  /\ UpTo(S, 0) = {{}}
           /\ \A n \in Nat : \A s \in UpTo(S, n) : s \in SUBSET S /\ s \in UpTo(S, n + 1)
<1>1. ASSUME NEW s \in UpTo(S, 0) PROVE s = {}
  <2>1. s \in SUBSET S /\ Cardinality(s) <= 0
    BY DEF UpTo
  <2>2. Cardinality(s) \in Nat /\ (Cardinality(s) = 0 <=> s = {})
    BY <2>1, Smaller
  <2> QED
    BY <2>1, <2>2
<1>2. {} \in UpTo(S, 0)
  BY FS_EmptySet DEF UpTo
<1>3. ASSUME NEW n \in Nat, NEW s \in UpTo(S, n) PROVE s \in SUBSET S /\ s \in UpTo(S, n + 1)
  <2>1. s \in SUBSET S /\ Cardinality(s) <= n
    BY DEF UpTo
  <2>2. Cardinality(s) \in Nat
    BY <2>1, Smaller
  <2> QED
    BY <2>1, <2>2 DEF UpTo
<1> QED
  BY <1>1, <1>2, <1>3

\* The recursive function of the fold exists.
LEMMA SumsExist == ASSUME NEW S, IsFiniteSet(S), NEW c PROVE \E g : Sums(g, c, SUBSET S)
<1> DEFINE T == {n \in Nat : \E g : Sums(g, c, UpTo(S, n))}
<1>1. 0 \in T
  <2>1. UpTo(S, 0) = {{}}
    BY UpToFacts
  <2>2. PICK g : g = [s \in {{}} |-> 0]
    OBVIOUS
  <2>3. Sums(g, c, UpTo(S, 0))
    BY <2>1, <2>2 DEF Sums
  <2> QED
    BY <2>3
<1>2. ASSUME NEW n \in Nat, n \in T PROVE n + 1 \in T
  <2>1. PICK g : Sums(g, c, UpTo(S, n))
    BY <1>2
  <2>2. PICK h : h = [s \in UpTo(S, n + 1) |->
                        IF s = {} THEN 0 ELSE c[First(s)] + g[s \ {First(s)}]]
    OBVIOUS
  <2>3. \A s \in UpTo(S, n) : s \in UpTo(S, n + 1) /\ h[s] = g[s]
    <3>1. \A s \in UpTo(S, n) : s \in UpTo(S, n + 1)
      BY UpToFacts
    <3>2. \A s \in UpTo(S, n) : g[s] = IF s = {} THEN 0 ELSE c[First(s)] + g[s \ {First(s)}]
      BY <2>1 DEF Sums
    <3> QED
      BY <2>2, <3>1, <3>2
  <2>4. \A s \in UpTo(S, n + 1) : s # {} => s \ {First(s)} \in UpTo(S, n)
    <3> SUFFICES ASSUME NEW s \in UpTo(S, n + 1), s # {} PROVE s \ {First(s)} \in UpTo(S, n)
      OBVIOUS
    <3>1. s \in SUBSET S /\ Cardinality(s) <= n + 1
      BY DEF UpTo
    <3>2. /\ Cardinality(s) \in Nat /\ s \ {First(s)} \in SUBSET S
          /\ Cardinality(s \ {First(s)}) = Cardinality(s) - 1
      BY <3>1, Smaller
    <3> QED
      BY <3>1, <3>2 DEF UpTo
  <2>5. \A s \in UpTo(S, n + 1) :
           h[s] = IF s = {} THEN 0 ELSE c[First(s)] + h[s \ {First(s)}]
    BY <2>2, <2>3, <2>4
  <2>6. Sums(h, c, UpTo(S, n + 1))
    BY <2>2, <2>5 DEF Sums
  <2> QED
    BY <2>6
<1> HIDE DEF T
<1>3. \A n \in Nat : n \in T
  BY <1>1, <1>2, SetInduction
<1>4. Cardinality(S) \in Nat
  BY FS_CardinalityType
<1>5. PICK g : Sums(g, c, UpTo(S, Cardinality(S)))
  BY <1>3, <1>4 DEF T
<1>6. UpTo(S, Cardinality(S)) = SUBSET S
  BY FS_Subset DEF UpTo
<1> QED
  BY <1>5, <1>6

Total(c) == FoldFunction(LAMBDA x, y : x + y, 0, c)

LEMMA TotalIs ==
    ASSUME NEW S, IsFiniteSet(S), NEW c \in [S -> Nat]
    PROVE  \E g : Sums(g, c, SUBSET S) /\ Total(c) = g[S]
<1> DEFINE It(g) == [s \in SUBSET DOMAIN c |->
                       IF s = {} THEN 0 ELSE c[First(s)] + g[s \ {First(s)}]]
<1>1. Total(c) = (CHOOSE g : g = It(g))[DOMAIN c]
  BY DEF Total, FoldFunction, FoldFunctionOnSet, MapThenFoldSet, First
<1>2. DOMAIN c = S
  OBVIOUS
<1>3. \A g : g = It(g) <=> Sums(g, c, SUBSET S)
  BY <1>2 DEF Sums
<1> HIDE DEF It
<1>4. PICK h : h = It(h)
  BY <1>3, SumsExist
<1>5. PICK g : g = It(g) /\ g = CHOOSE f : f = It(f)
  BY <1>4
<1> QED
  BY <1>1, <1>2, <1>3, <1>5

\* One more from one trigger is one more in the sum.
LEMMA OneMore ==
    ASSUME NEW S, IsFiniteSet(S), NEW c \in [S -> Nat], NEW t \in S,
           NEW d, d = [c EXCEPT ![t] = @ + 1]
    PROVE  Total(c) \in Nat /\ Total(d) = Total(c) + 1
<1>1. d \in [S -> Nat] /\ d[t] = c[t] + 1 /\ \A u \in S : u # t => d[u] = c[u]
  OBVIOUS
<1>2. PICK g : Sums(g, c, SUBSET S) /\ Total(c) = g[S]
  BY TotalIs
<1>3. PICK h : Sums(h, d, SUBSET S) /\ Total(d) = h[S]
  BY <1>1, TotalIs
<1> DEFINE Right(s) == g[s] \in Nat /\ h[s] = IF t \in s THEN g[s] + 1 ELSE g[s]
           T == {n \in Nat : \A s \in UpTo(S, n) : Right(s)}
<1>4. /\ \A s \in SUBSET S : g[s] = IF s = {} THEN 0 ELSE c[First(s)] + g[s \ {First(s)}]
      /\ \A s \in SUBSET S : h[s] = IF s = {} THEN 0 ELSE d[First(s)] + h[s \ {First(s)}]
  BY <1>2, <1>3 DEF Sums
<1>5. Right({})
  <2>1. {} \in SUBSET S
    OBVIOUS
  <2>2. g[{}] = 0 /\ h[{}] = 0
    BY <1>4, <2>1
  <2> QED
    BY <2>2
<1>6. 0 \in T
  <2>1. \A s \in UpTo(S, 0) : s = {}
    BY UpToFacts
  <2>2. \A s \in UpTo(S, 0) : Right(s)
    BY <1>5, <2>1
  <2> QED
    BY <2>2
<1>7. ASSUME NEW n \in Nat, n \in T PROVE n + 1 \in T
  <2>0. n + 1 \in Nat
    OBVIOUS
  <2> SUFFICES ASSUME NEW s \in UpTo(S, n + 1) PROVE Right(s)
    BY <2>0
  <2> SUFFICES ASSUME s # {} PROVE Right(s)
    BY <1>5
  <2>1. s \in SUBSET S /\ Cardinality(s) <= n + 1
    BY DEF UpTo
  <2>2. PICK r : r = s \ {First(s)}
    OBVIOUS
  <2>3. /\ Cardinality(s) \in Nat /\ r \in SUBSET S /\ First(s) \in s
        /\ Cardinality(r) = Cardinality(s) - 1
    BY <2>1, <2>2, Smaller
  <2>4. r \in UpTo(S, n)
    BY <2>1, <2>3 DEF UpTo
  <2>5. g[r] \in Nat /\ h[r] = IF t \in r THEN g[r] + 1 ELSE g[r]
    BY <1>7, <2>4
  <2>6. g[s] = c[First(s)] + g[r] /\ h[s] = d[First(s)] + h[r]
    BY <1>4, <2>1, <2>2
  <2>7. First(s) \in S /\ c[First(s)] \in Nat
    BY <2>1, <2>3
  <2>8. CASE First(s) = t
    <3>1. t \in s /\ t \notin r
      BY <2>2, <2>3, <2>8
    <3> QED
      BY <1>1, <2>5, <2>6, <2>7, <2>8, <3>1
  <2>9. CASE First(s) # t
    <3>1. t \in s <=> t \in r
      BY <2>2, <2>9
    <3> QED
      BY <1>1, <2>5, <2>6, <2>7, <2>9, <3>1
  <2> QED
    BY <2>8, <2>9
<1> HIDE DEF T
<1>8. Cardinality(S) \in T
  BY <1>6, <1>7, SetInduction, FS_CardinalityType
<1>9. Right(S)
  <2>1. S \in UpTo(S, Cardinality(S))
    BY FS_CardinalityType DEF UpTo
  <2> QED
    BY <1>8, <2>1 DEF T
<1> QED
  BY <1>2, <1>3, <1>9

LEMMA NoneYet ==
    ASSUME NEW S, IsFiniteSet(S)
    PROVE  Total([k \in S |-> 0]) = 0
<1>1. PICK c \in [S -> Nat] : c = [k \in S |-> 0]
  OBVIOUS
<1>2. PICK g : Sums(g, c, SUBSET S) /\ Total(c) = g[S]
  BY TotalIs
<1> DEFINE T == {n \in Nat : \A s \in UpTo(S, n) : g[s] = 0}
<1>3. \A s \in SUBSET S : g[s] = IF s = {} THEN 0 ELSE c[First(s)] + g[s \ {First(s)}]
  BY <1>2 DEF Sums
<1>4. g[{}] = 0
  BY <1>3
<1>5. 0 \in T
  BY <1>4, UpToFacts
<1>6. ASSUME NEW n \in Nat, n \in T PROVE n + 1 \in T
  <2>0. n + 1 \in Nat
    OBVIOUS
  <2> SUFFICES ASSUME NEW s \in UpTo(S, n + 1) PROVE g[s] = 0
    BY <2>0
  <2> SUFFICES ASSUME s # {} PROVE g[s] = 0
    BY <1>4
  <2>1. s \in SUBSET S /\ Cardinality(s) <= n + 1
    BY DEF UpTo
  <2>2. /\ Cardinality(s) \in Nat /\ s \ {First(s)} \in SUBSET S /\ First(s) \in s
        /\ Cardinality(s \ {First(s)}) = Cardinality(s) - 1
    BY <2>1, Smaller
  <2>3. s \ {First(s)} \in UpTo(S, n)
    BY <2>1, <2>2 DEF UpTo
  <2>4. g[s \ {First(s)}] = 0 /\ c[First(s)] = 0
    BY <1>1, <1>6, <2>1, <2>2, <2>3
  <2> QED
    BY <1>3, <2>1, <2>4
<1> HIDE DEF T
<1>7. Cardinality(S) \in T
  BY <1>5, <1>6, SetInduction, FS_CardinalityType
<1>8. S \in UpTo(S, Cardinality(S))
  BY FS_CardinalityType DEF UpTo
<1> QED
  BY <1>1, <1>2, <1>7, <1>8 DEF T

\* The counts add up as long as no channel was closed twice.
CountInv == IsFiniteSet(closed) /\ (~panicked => Total(count) = Cardinality(closed))

LEMMA CountStep ==
    ASSUME IsFiniteSet(Triggers), KillInv, CountInv, [KillNext]_killVars
    PROVE  CountInv'
<1>1. ASSUME NEW s \in Streams, StreamStep(s) PROVE CountInv'
  <2>1. UNCHANGED <<closed, count, panicked>>
    BY <1>1 DEF StreamStep, Register, Refuse, SendActive, Disconnect, ReceiveKill,
                FindSelf, ShiftWord, Deregister, triggerVars
  <2> QED
    BY <2>1 DEF CountInv
<1>2. ASSUME NEW k \in Triggers, CopyHeader(k) \/ SelectChannel(k) PROVE CountInv'
  BY <1>2 DEF CopyHeader, SelectChannel, CountInv
<1>3. ASSUME NEW k \in Triggers, CloseChannel(k), ~panicked PROVE CountInv'
  <2>1. CASE tch[k] \in closed
    BY <1>3, <2>1 DEF CloseChannel, CountInv
  <2>2. CASE tch[k] \notin closed
    <3>1. /\ closed' = closed \cup {tch[k]} /\ panicked' = panicked
          /\ count' = [count EXCEPT ![k] = @ + 1]
      BY <1>3, <2>2 DEF CloseChannel
    <3>2. IsFiniteSet(closed') /\ Cardinality(closed') = Cardinality(closed) + 1
      BY <2>2, <3>1, FS_AddElement DEF CountInv
    <3>3. count \in [Triggers -> Nat]
      BY DEF KillInv, KillTypeOK
    <3>4. PICK d : d = count'
      OBVIOUS
    <3>5. Total(d) = Total(count) + 1
      BY <3>1, <3>3, <3>4, OneMore
    <3>6. Total(count') = Total(count) + 1
      BY <3>4, <3>5
    <3> QED
      BY <1>3, <3>1, <3>2, <3>6 DEF CountInv
  <2> QED
    BY <2>1, <2>2
<1>4. CASE UNCHANGED killVars
  BY <1>4 DEF killVars, triggerVars, CountInv
<1> QED
  BY <1>1, <1>2, <1>3, <1>4 DEF KillNext, TriggerStep, Quiet

\* RevokedCount is honest whatever triggers overlap: until a channel is closed twice,
\* the triggers together report exactly the channels that were closed.
THEOREM RevokedCountCorrect == ASSUME IsFiniteSet(Triggers) PROVE KillSpec => []CountExact
<1>1. KillInit => CountInv
  <2> SUFFICES ASSUME KillInit PROVE CountInv
    OBVIOUS
  <2>1. closed = {} /\ count = [k \in Triggers |-> 0]
    BY DEF KillInit
  <2> QED
    BY <2>1, NoneYet, FS_EmptySet DEF CountInv
<1>2. KillInv /\ CountInv /\ [KillNext]_killVars => CountInv'
  BY CountStep
<1>3. CountInv => CountExact
  BY DEF CountInv, CountExact, Total
<1> QED
  BY <1>1, <1>2, <1>3, InitKill, KillStep, PTL DEF KillSpec

-----------------------------------------------------------------------------
(* One trigger.                                                            *)

\* A lone trigger closes what it found open.
OneInv(k) ==
    /\ ~panicked
    /\ tpc[k] = "close" => tch[k] \notin closed

LEMMA OneStep ==
    ASSUME KillInv, NEW k \in Triggers, Triggers = {k}, OneInv(k), [KillNext]_killVars
    PROVE  OneInv(k)'
<1>1. ASSUME NEW s \in Streams, StreamStep(s) PROVE OneInv(k)'
  <2>1. UNCHANGED <<closed, triggerVars>>
    BY <1>1 DEF StreamStep, Register, Refuse, SendActive, Disconnect, ReceiveKill,
                FindSelf, ShiftWord, Deregister
  <2> QED
    BY <2>1 DEF OneInv, triggerVars
<1>2. CASE CopyHeader(k)
  <2>1. tpc'[k] # "close"
    BY <1>2 DEF CopyHeader, KillInv, KillTypeOK
  <2> QED
    BY <1>2, <2>1 DEF CopyHeader, OneInv
<1>3. CASE SelectChannel(k)
  <2>1. tpc'[k] = "close" => tch'[k] \notin closed
    BY <1>3 DEF SelectChannel, NextIteration, KillInv, KillTypeOK
  <2> QED
    BY <1>3, <2>1 DEF SelectChannel, OneInv
<1>4. CASE CloseChannel(k)
  <2>1. tch[k] \notin closed
    BY <1>4 DEF CloseChannel, OneInv
  <2>2. NextIteration(k) /\ panicked' = panicked
    BY <1>4, <2>1 DEF CloseChannel
  <2>3. tpc'[k] # "close"
    BY <2>2 DEF NextIteration, KillInv, KillTypeOK
  <2> QED
    BY <2>2, <2>3 DEF OneInv
<1>5. CASE UNCHANGED killVars
  BY <1>5 DEF killVars, triggerVars, OneInv
<1> QED
  BY <1>1, <1>2, <1>3, <1>4, <1>5 DEF KillNext, TriggerStep, Quiet

\* With one trigger at a time, for any number of streams: the types, the
\* exact slice, no channel closed twice, RevokedCount is the number of
\* channels closed, and only streams behind one that left are missed.
THEOREM StreamsCorrect == ASSUME NEW k, Triggers = {k} PROVE KillSpec => []StreamsSound
<1>1. KillInit => OneInv(k)
  BY DEF KillInit, OneInv
<1>2. KillInv /\ OneInv(k) /\ [KillNext]_killVars => OneInv(k)'
  BY OneStep
<1>3. KillInv /\ OneInv(k) => KillTypeOK /\ NoPanic
  BY DEF KillInv, OneInv, NoPanic
<1>4. KillSpec => []CountExact
  BY RevokedCountCorrect, FS_Singleton
<1>5. SliceExact /\ MissedWereBehind /\ KillTypeOK /\ NoPanic /\ CountExact => StreamsSound
  BY DEF StreamsSound
<1> QED
  BY <1>1, <1>2, <1>3, <1>4, <1>5, InitKill, KillStep, WalkCorrect, PTL DEF KillSpec

=============================================================================
