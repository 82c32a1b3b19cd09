----------------------------- MODULE KillSwitch -----------------------------
(***************************************************************************)
(* The kill switch of the gRPC server (internal/interfaces/grpc/server.go) *)
(* for one user: StreamValidateSession registers a channel in              *)
(* s.streams[userID] and removes it in a deferred function, and            *)
(* triggerKillSwitch closes the channels it finds there.  Entries of other *)
(* users share nothing but the lock.                                       *)
(*                                                                         *)
(* s.streams[userID] is a Go slice: a length and a backing array.  The     *)
(* trigger copies the header under the read lock and walks the array       *)
(* without it, while a leaving stream shifts the same array in place       *)
(* (append(channels[:i], channels[i+1:]...)), here one word per step.  An  *)
(* array is named by the stream whose append allocated it; a channel by    *)
(* the stream that made it.                                                *)
(***************************************************************************)
EXTENDS Naturals, Sequences, FiniteSets, Functions

CONSTANTS
    Streams,        \* StreamValidateSession calls of the user
    Triggers,       \* triggerKillSwitch calls for the user
    Nil             \* no array, no stream, an unused array slot

ASSUME NilAssumption == Nil \notin Streams

VARIABLES
    header,         \* s.streams[userID]; arr = Nil when the key is absent
    heap,           \* heap[s]: the backing array allocated by s, or <<>>
    lock,           \* the stream inside its deferred critical section, or Nil
    spc,            \* spc[s]: where stream s is
    shift,          \* shift[s]: next index the in-place append overwrites
    closed,         \* closed channels
    told,           \* streams that were sent Active: false
    tpc,            \* tpc[k]: where trigger k is
    view,           \* view[k]: the slice header trigger k copied
    ti,             \* ti[k]: index of the range loop
    tch,            \* tch[k]: the channel the loop body works on
    count,          \* count[k]: channels trigger k closed
    panicked,       \* close of a closed channel: the process is gone
    targets,        \* history: the slice's streams when k copied the header,
                    \* in the order in which they had registered
    leftDuring      \* history: streams of targets[k] that left while k ran

streamVars == <<spc, shift, told>>
triggerVars == <<tpc, view, ti, tch, count, panicked, targets>>
killVars == <<header, heap, lock, closed, streamVars, triggerVars, leftDuring>>

NoEntry == [arr |-> Nil, len |-> 0]

Headers == [arr : Streams \cup {Nil}, len : Nat]

StreamStates == {"new", "registered", "serving", "leaving", "shifting", "gone"}

TriggerStates == {"idle", "select", "close", "done"}

KillTypeOK ==
    /\ header \in Headers
    /\ heap \in [Streams -> Seq(Streams \cup {Nil})]
    /\ lock \in Streams \cup {Nil}
    /\ spc \in [Streams -> StreamStates]
    /\ shift \in [Streams -> Nat]
    /\ closed \subseteq Streams
    /\ told \subseteq Streams
    /\ tpc \in [Triggers -> TriggerStates]
    /\ view \in [Triggers -> Headers]
    /\ ti \in [Triggers -> Nat]
    /\ tch \in [Triggers -> Streams \cup {Nil}]
    /\ count \in [Triggers -> Nat]
    /\ panicked \in BOOLEAN
    /\ targets \in [Triggers -> Seq(Streams)]
    /\ leftDuring \in [Triggers -> SUBSET Streams]

KillInit ==
    /\ header = NoEntry
    /\ heap = [s \in Streams |-> <<>>]
    /\ lock = Nil
    /\ spc = [s \in Streams |-> "new"]
    /\ shift = [s \in Streams |-> 0]
    /\ closed = {}
    /\ told = {}
    /\ tpc = [k \in Triggers |-> "idle"]
    /\ view = [k \in Triggers |-> NoEntry]
    /\ ti = [k \in Triggers |-> 1]
    /\ tch = [k \in Triggers |-> Nil]
    /\ count = [k \in Triggers |-> 0]
    /\ panicked = FALSE
    /\ targets = [k \in Triggers |-> <<>>]
    /\ leftDuring = [k \in Triggers |-> {}]

\* The channels of a slice header.
Elements(h) == [i \in 1 .. h.len |-> heap[h.arr][i]]

-----------------------------------------------------------------------------
(* StreamValidateSession.                                                  *)

\* append: in place while the array has room, else into an array of twice
\* the capacity (1 for the first element) with the old elements copied.
AppendTo(s) ==
    IF header.arr # Nil /\ header.len < Len(heap[header.arr])
    THEN /\ heap' = [heap EXCEPT ![header.arr][header.len + 1] = s]
         /\ header' = [header EXCEPT !.len = @ + 1]
    ELSE LET cap == IF header.len = 0 THEN 1 ELSE 2 * header.len
         IN  /\ heap' = [heap EXCEPT ![s] =
                    [i \in 1 .. cap |->
                        CASE i <= header.len -> heap[header.arr][i]
                          [] i = header.len + 1 -> s
                          [] OTHER -> Nil]]
             /\ header' = [arr |-> s, len |-> header.len + 1]

\* Recv and ValidateToken succeed; the channel is made and registered.
Register(s) ==
    /\ spc[s] = "new"
    /\ lock = Nil
    /\ AppendTo(s)
    /\ spc' = [spc EXCEPT ![s] = "registered"]
    /\ UNCHANGED <<lock, closed, shift, told, triggerVars, leftDuring>>

\* Recv fails, the session id is empty or the token is invalid.
Refuse(s) ==
    /\ spc[s] = "new"
    /\ spc' = [spc EXCEPT ![s] = "gone"]
    /\ UNCHANGED <<header, heap, lock, closed, shift, told, triggerVars,
                   leftDuring>>

\* The first Active: true is sent.
SendActive(s) ==
    /\ spc[s] = "registered"
    /\ spc' = [spc EXCEPT ![s] = "serving"]
    /\ UNCHANGED <<header, heap, lock, closed, shift, told, triggerVars,
                   leftDuring>>

\* A Send fails or the client's context is done: the handler returns.
Disconnect(s) ==
    /\ spc[s] \in {"registered", "serving"}
    /\ spc' = [spc EXCEPT ![s] = "leaving"]
    /\ UNCHANGED <<header, heap, lock, closed, shift, told, triggerVars,
                   leftDuring>>

\* Mutant of ReceiveKill: the handler reports the kill and keeps looping.
ReceiveKill_KeepsServing(s) ==
    /\ spc[s] = "serving"
    /\ s \in closed
    /\ told' = told \cup {s}
    /\ UNCHANGED <<header, heap, lock, closed, spc, shift, triggerVars,
                   leftDuring>>

\* case <-killChan: Active: false is sent and the handler returns.
ReceiveKill(s) ==
    /\ spc[s] = "serving"
    /\ s \in closed
    /\ told' = told \cup {s}
    /\ spc' = [spc EXCEPT ![s] = "leaving"]
    /\ UNCHANGED <<header, heap, lock, closed, shift, triggerVars,
                   leftDuring>>

Running(k) == tpc[k] \in {"select", "close"}

\* The deferred function takes the lock and finds its channel.
FindSelf(s) ==
    /\ spc[s] = "leaving"
    /\ lock = Nil
    /\ lock' = s
    /\ spc' = [spc EXCEPT ![s] = "shifting"]
    /\ shift' = [shift EXCEPT ![s] =
           CHOOSE i \in 1 .. header.len : heap[header.arr][i] = s]
    /\ leftDuring' = [k \in Triggers |->
           IF Running(k) /\ s \in Range(targets[k]) THEN leftDuring[k] \cup {s}
           ELSE leftDuring[k]]
    /\ UNCHANGED <<header, heap, closed, told, triggerVars>>

\* append(channels[:i], channels[i+1:]...): one word of the overlapping copy.
ShiftWord(s) ==
    /\ spc[s] = "shifting"
    /\ shift[s] < header.len
    /\ heap' = [heap EXCEPT ![header.arr][shift[s]] =
                   heap[header.arr][shift[s] + 1]]
    /\ shift' = [shift EXCEPT ![s] = @ + 1]
    /\ UNCHANGED <<header, lock, closed, spc, told, triggerVars, leftDuring>>

\* The shorter slice is stored, or the key is deleted, and the lock released.
Deregister(s) ==
    /\ spc[s] = "shifting"
    /\ shift[s] >= header.len
    /\ header' = IF header.len = 1 THEN NoEntry
                 ELSE [header EXCEPT !.len = @ - 1]
    /\ lock' = Nil
    /\ spc' = [spc EXCEPT ![s] = "gone"]
    /\ UNCHANGED <<heap, closed, shift, told, triggerVars, leftDuring>>

-----------------------------------------------------------------------------
(* triggerKillSwitch, called by RevokeUserSessions and by the subscriber   *)
(* of UserSuspended, each in a goroutine of its own.                       *)

\* The header is copied under RLock; no entry: return 0.
CopyHeader(k) ==
    /\ tpc[k] = "idle"
    /\ lock = Nil
    /\ view' = [view EXCEPT ![k] = header]
    /\ tpc' = [tpc EXCEPT ![k] = IF header = NoEntry THEN "done" ELSE "select"]
    /\ targets' = [targets EXCEPT ![k] = Elements(header)]
    /\ UNCHANGED <<header, heap, lock, closed, streamVars, ti, tch, count,
                   panicked, leftDuring>>

NextIteration(k) ==
    /\ ti' = [ti EXCEPT ![k] = @ + 1]
    /\ tpc' = [tpc EXCEPT ![k] = IF ti[k] < view[k].len THEN "select"
                                 ELSE "done"]

\* The loop reads the array at its index and asks whether ch is closed.
SelectChannel(k) ==
    /\ tpc[k] = "select"
    /\ LET ch == heap[view[k].arr][ti[k]]
       IN  IF ch \in closed
           THEN NextIteration(k) /\ UNCHANGED tch
           ELSE /\ tch' = [tch EXCEPT ![k] = ch]
                /\ tpc' = [tpc EXCEPT ![k] = "close"]
                /\ UNCHANGED ti
    /\ UNCHANGED <<header, heap, lock, closed, streamVars, view, count,
                   panicked, targets, leftDuring>>

\* Mutant of CloseChannel: the loop variable is advanced twice.
CloseChannel_SkipsOne(k) ==
    /\ tpc[k] = "close"
    /\ tch[k] \notin closed
    /\ closed' = closed \cup {tch[k]}
    /\ count' = [count EXCEPT ![k] = @ + 1]
    /\ ti' = [ti EXCEPT ![k] = @ + 2]
    /\ tpc' = [tpc EXCEPT ![k] = IF ti[k] + 1 < view[k].len THEN "select"
                                 ELSE "done"]
    /\ UNCHANGED <<header, heap, lock, streamVars, view, tch, panicked,
                   targets, leftDuring>>

\* close(ch): panics when another trigger closed ch after the select.
CloseChannel(k) ==
    /\ tpc[k] = "close"
    /\ IF tch[k] \in closed
       THEN /\ panicked' = TRUE
            /\ tpc' = [tpc EXCEPT ![k] = "done"]
            /\ UNCHANGED <<closed, count, ti>>
       ELSE /\ closed' = closed \cup {tch[k]}
            /\ count' = [count EXCEPT ![k] = @ + 1]
            /\ NextIteration(k)
            /\ UNCHANGED panicked
    /\ UNCHANGED <<header, heap, lock, streamVars, view, tch, targets,
                   leftDuring>>

StreamStep(s) ==
    \/ Register(s)
    \/ Refuse(s)
    \/ SendActive(s)
    \/ Disconnect(s)
    \/ ReceiveKill(s)
    \/ FindSelf(s)
    \/ ShiftWord(s)
    \/ Deregister(s)

TriggerStep(k) ==
    \/ CopyHeader(k)
    \/ SelectChannel(k)
    \/ CloseChannel(k)

\* Every stream has ended and every trigger returned, or the process died.
Quiet ==
    /\ panicked \/ (/\ \A s \in Streams : spc[s] = "gone"
                    /\ \A k \in Triggers : tpc[k] = "done")
    /\ UNCHANGED killVars

KillNext ==
    \/ ~panicked /\ \E s \in Streams : StreamStep(s)
    \/ ~panicked /\ \E k \in Triggers : TriggerStep(k)
    \/ Quiet

KillSpec == KillInit /\ [][KillNext]_killVars

\* What a stream's goroutine does without its client.
GoroutineStep(s) ==
    \/ SendActive(s)
    \/ ReceiveKill(s)
    \/ FindSelf(s)
    \/ ShiftWord(s)
    \/ Deregister(s)

(***************************************************************************)
(* Goroutines that can run do run.  Weak fairness is enough for the lock,  *)
(* too: every stream holds it once, for a bounded time.  Clients and       *)
(* callers are not fair: they may stay connected, and no trigger need      *)
(* come.                                                                   *)
(***************************************************************************)
KillFairness ==
    /\ \A s \in Streams : WF_killVars(~panicked /\ GoroutineStep(s))
    /\ \A k \in Triggers :
          WF_killVars(~panicked /\ (SelectChannel(k) \/ CloseChannel(k)))

KillFairSpec == KillSpec /\ KillFairness

-----------------------------------------------------------------------------
(* Properties.                                                             *)

Registered(s) == spc[s] \in {"registered", "serving", "leaving"}

\* Outside the critical section the slice holds the channel of every stream
\* that registered and has not left, exactly once, and no other channel,
\* whatever the appends and in-place removals did to the shared array.
SliceExact ==
    lock = Nil =>
        LET es == Elements(header)
        IN  /\ Range(es) = {s \in Streams : Registered(s)}
            /\ IsInjective(es)

\* With one trigger no channel is closed twice, although the shifting array
\* can show the loop the same channel at two indices.
NoPanic == ~panicked

\* RevokedCount is honest: the triggers together report exactly the channels
\* that were closed.
CountExact ==
    ~panicked => FoldFunction(LAMBDA x, y : x + y, 0, count) = Cardinality(closed)

\* A trigger that returned has closed every stream it saw that did not leave
\* by itself, except streams that had registered after one that left while it
\* was walking the array.
MissedWereBehind ==
    \A k \in Triggers : tpc[k] = "done" /\ ~panicked =>
        \A n \in 1 .. Len(targets[k]) :
            \/ targets[k][n] \in closed
            \/ \E m \in 1 .. n : targets[k][m] \in leftDuring[k]

\* "triggerKillSwitch terminates all active session streams for a user":
\* when it returns, every stream it saw is closed or has left by itself.
AllTerminated ==
    \A k \in Triggers :
        tpc[k] = "done" =>
            \A s \in Range(targets[k]) :
                s \in closed \/ spc[s] \notin {"registered", "serving"}

\* A stream whose channel is closed ends: the handler returns and its
\* deferred function gets the lock, also among other streams that leave.
KilledStreamsEnd ==
    \A s \in Streams : s \in closed ~> (spc[s] = "gone" \/ panicked)

\* The registry and a trigger agree although the trigger walks without the
\* lock: the slice holds the streams that registered and have not left, no
\* channel is closed twice, the count is the number of channels closed, and
\* only streams behind one that left during the walk are missed.
StreamsSound == KillTypeOK /\ SliceExact /\ NoPanic /\ CountExact /\ MissedWereBehind

=============================================================================
