----------------------------- MODULE MCSignals ------------------------------
(* Small instances of the two ways the server tells others what happened:   *)
(* the events of the outbox (Outbox, read by relays alone) and the end of a *)
(* user's session streams (KillSwitch).  They share no variable, so one     *)
(* runs while the other is in its initial state.                            *)
EXTENDS MCOutbox, KillSwitch

signalVars == <<vars, killVars>>

SignalsInit == Init /\ KillInit

Deliver(A) == KillInit /\ A /\ UNCHANGED killVars

Stream(A) == Init /\ A /\ UNCHANGED vars

\* The fairness of FairSpec and of KillFairSpec, for the one that runs.
SignalsSpec ==
    /\ SignalsInit
    /\ [][Deliver(Next) \/ Stream(KillNext)]_signalVars
    /\ \A w \in Relays :
          /\ WF_signalVars(Deliver(FetchBatch(w)))
          /\ WF_signalVars(Deliver(PublishOk(w) \/ PublishFail(w)))
          /\ WF_signalVars(Deliver(MarkProcessed(w) \/ MarkFail(w)))
          /\ WF_signalVars(Deliver(Restart(w)))
          /\ \A e \in Events \ Poison :
                /\ SF_signalVars(Deliver(PublishOk(w) /\ Current(w) = e))
                /\ SF_signalVars(Deliver(MarkProcessed(w) /\ Current(w) = e))
    /\ \A s \in Streams : WF_signalVars(Stream(~panicked /\ GoroutineStep(s)))
    /\ \A k \in Triggers :
          WF_signalVars(Stream(~panicked /\ (SelectChannel(k) \/ CloseChannel(k))))

=============================================================================
