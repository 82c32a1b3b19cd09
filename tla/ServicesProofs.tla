--------------------------- MODULE ServicesProofs ---------------------------
(***************************************************************************)
(* Proofs about the services around the core: the company lookup           *)
(* (CompanyLookup), the synchronisation of companies (CompanySync), the    *)
(* document verification (Documents), the risk analysis (RiskSentinel),    *)
(* the in-process events (EventFanout) and the SDK client (SdkClient).     *)
(* They share no variable; each section has its own inductive invariant.   *)
(***************************************************************************)
EXTENDS CompanyLookup, CompanySync, Documents, RiskSentinel, EventFanout, SdkClient,
        FiniteSetTheorems, TLAPS

-----------------------------------------------------------------------------
(* CompanyLookup: what a caller sees of a company's situation.             *)

(* An info that is still being read, and whose age can be told, has the    *)
(* age of its situation at most.                                           *)
ReadOK(where, i, sn) ==
    where = "read" /\ i # NoInfo /\ i.age <= FreshFor => sn[i.situacao] <= i.age

(* Without it an answer could be stamped that was old when it came, and    *)
(* without the last conjunct (what the provider says now it has been       *)
(* saying until now) it could be old when it was made.                     *)
LookupInv ==
    /\ LookupTypeOK /\ AgeHonest
    /\ \A p \in Callers : ReadOK(call[p].step, call[p].info, since)
    /\ since[Situacao] = 0

HonestInfo(i, sn) == i # NoInfo => sn[i.situacao] <= i.age + ReadTimeout

LEMMA SituacaoType == LookupTypeOK => Situacao \in Situations
  BY DEF LookupTypeOK, Situacao, Situations, Descriptions

LEMMA HonestForm ==
    AgeHonest <=> HonestInfo(cached, since)
                  /\ \A p \in Callers : HonestInfo(call[p].info, since)
  BY DEF AgeHonest, HonestInfo

LEMMA NoInfoIsNone == NoInfo \notin Infos
  BY DEF NoInfo, Infos, Situations

LEMMA LookupInitInv == LookupInit => LookupInv
<1> SUFFICES ASSUME LookupInit PROVE LookupInv
  OBVIOUS
<1>1. LookupTypeOK
  BY LookupAssumption
  DEF LookupInit, LookupTypeOK, Descriptions, Situations, Ages, Infos, NoInfo, LongAgo
<1>2. AgeHonest /\ \A p \in Callers : ReadOK(call[p].step, call[p].info, since)
  BY HonestForm DEF LookupInit, HonestInfo, ReadOK
<1>3. since[Situacao] = 0
  BY <1>1, SituacaoType DEF LookupInit
<1> QED
  BY <1>1, <1>2, <1>3 DEF LookupInv

\* A step that gives lookup p an info that is honest, or none.
LEMMA GoKeeps ==
    ASSUME LookupInv, NEW p \in Callers,
           NEW s \in {"idle", "fetch", "read", "save", "answer", "error"},
           NEW i \in Infos \cup {NoInfo}, HonestInfo(i, since),
           s = "read" /\ i # NoInfo => since[i.situacao] <= i.age,
           Go(p, s, i), UNCHANGED <<registered, since>>,
           cached' \in {cached, i}
    PROVE  LookupInv'
<1>1. LookupTypeOK'
  BY DEF LookupInv, LookupTypeOK, Go
<1>2. \A q \in Callers : HonestInfo(call'[q].info, since)
  BY HonestForm DEF LookupInv, LookupTypeOK, Go
<1>3. HonestInfo(cached', since)
  BY HonestForm DEF LookupInv
<1>4. AgeHonest'
  BY <1>2, <1>3 DEF AgeHonest, HonestInfo
<1>5. since'[Situacao'] = 0
  BY DEF LookupInv, Situacao
<1>6. \A q \in Callers : ReadOK(call'[q].step, call'[q].info, since')
  BY DEF LookupInv, LookupTypeOK, Go, ReadOK
<1> QED
  BY <1>1, <1>4, <1>5, <1>6 DEF LookupInv

LEMMA LookupNextInv == LookupInv /\ [LookupNext]_lookupVars => LookupInv'
<1> SUFFICES ASSUME LookupInv, [LookupNext]_lookupVars PROVE LookupInv'
  OBVIOUS
<1> USE LookupAssumption
<1>t. LookupTypeOK /\ AgeHonest /\ since[Situacao] = 0 /\ Situacao \in Situations
  BY SituacaoType DEF LookupInv
<1>h. /\ HonestInfo(cached, since)
      /\ \A p \in Callers : HonestInfo(call[p].info, since)
  BY <1>t, HonestForm
<1>r. \A p \in Callers : ReadOK(call[p].step, call[p].info, since)
  BY DEF LookupInv
<1>n. HonestInfo(NoInfo, since)
  BY DEF HonestInfo
<1>c. cached \in Infos \cup {NoInfo} /\ \A p \in Callers : call[p].info \in Infos \cup {NoInfo}
  BY <1>t DEF LookupTypeOK
<1>1. CASE \E p \in Callers : GetByCNPJ(p)
  BY <1>1, <1>h, <1>n, <1>c, GoKeeps DEF GetByCNPJ
<1>2. CASE \E p \in Callers : SearchByName(p)
  BY <1>2, <1>h, <1>n, <1>c, GoKeeps DEF SearchByName, FindByName
<1>3. CASE \E p \in Callers : ReadFails(p)
  BY <1>3, <1>n, GoKeeps DEF ReadFails
<1>4. CASE \E p \in Callers : ProviderAnswers(p)
  <2> PICK p \in Callers : ProviderAnswers(p)
    BY <1>4
  <2> DEFINE i == [situacao |-> mapCadastralSituation(registered), age |-> 0]
  <2>1. mapCadastralSituation(registered) = Situacao
    BY <1>t DEF mapCadastralSituation, Situacao, LookupTypeOK, Situations, Descriptions
  <2>2. i \in Infos /\ HonestInfo(i, since) /\ since[i.situacao] <= i.age
    BY <2>1, <1>t DEF Infos, Ages, HonestInfo
  <2> QED
    BY <2>2, GoKeeps DEF ProviderAnswers
<1>5. CASE \E p \in Callers : FetchCompanyInfo(p)
  <2> PICK p \in Callers : FetchCompanyInfo(p)
    BY <1>5
  <2> DEFINE j == call[p].info
             i == [j EXCEPT !.age = 0]
  <2>1. call[p].step = "read" /\ j.age <= ReadTimeout /\ Go(p, "save", i)
        /\ UNCHANGED <<registered, since, cached>>
    BY DEF FetchCompanyInfo
  <2>2. CASE j = NoInfo
    <3>1. i = NoInfo
      BY <2>2 DEF NoInfo
    <3> QED
      BY <2>1, <3>1, <1>n, GoKeeps
  <2>3. CASE j \in Infos /\ j # NoInfo
    <3>1. i \in Infos /\ i.situacao = j.situacao /\ i.age = 0
          /\ j.situacao \in Situations /\ j.age \in Ages
      BY <2>3 DEF Infos, Ages
    <3>2. since[j.situacao] <= j.age /\ since[j.situacao] \in 0 .. LongAgo
      BY <2>1, <2>3, <3>1, <1>r, <1>t DEF ReadOK, Ages, LookupTypeOK
    <3>3. HonestInfo(i, since)
      BY <2>1, <3>1, <3>2 DEF HonestInfo, Ages, LongAgo
    <3> HIDE DEF i
    <3> QED
      BY <2>1, <3>1, <3>3, GoKeeps
  <2> QED
    BY <2>2, <2>3, <1>c
<1>6. CASE \E p \in Callers : ProviderFails(p)
  BY <1>6, <1>n, GoKeeps DEF ProviderFails
<1>7. CASE \E p \in Callers : SaveInfo(p)
  BY <1>7, <1>h, <1>c, GoKeeps DEF SaveInfo
<1>8. CASE \E p \in Callers : SaveInfoFails(p)
  BY <1>8, <1>h, <1>c, GoKeeps DEF SaveInfoFails
<1>9. CASE \E p \in Callers : LookupReturns(p)
  BY <1>9, <1>n, GoKeeps DEF LookupReturns
<1>10. CASE LookupTick
  <2>1. \A i \in Infos \cup {NoInfo} :
           /\ Older(i) \in Infos \cup {NoInfo}
           /\ HonestInfo(i, since) => HonestInfo(Older(i), since')
           /\ \A s : ReadOK(s, i, since) => ReadOK(s, Older(i), since')
    <3> SUFFICES ASSUME NEW i \in Infos \cup {NoInfo}
                 PROVE  /\ Older(i) \in Infos \cup {NoInfo}
                        /\ HonestInfo(i, since) => HonestInfo(Older(i), since')
                        /\ \A s : ReadOK(s, i, since) => ReadOK(s, Older(i), since')
      OBVIOUS
    <3>1. CASE i = NoInfo
      BY <3>1 DEF Older, HonestInfo, ReadOK
    <3>2. CASE i \in Infos /\ i # NoInfo
      <4>1. /\ i.situacao \in Situations /\ i.age \in Ages
            /\ Older(i) = [i EXCEPT !.age = IF @ > FreshFor THEN @ ELSE @ + 1]
        BY <3>2 DEF Infos, Older
      <4>2. Older(i) \in Infos /\ Older(i).situacao = i.situacao
            /\ Older(i).age = IF i.age > FreshFor THEN i.age ELSE i.age + 1
        BY <3>2, <4>1 DEF Infos, Ages
      <4>3. since[i.situacao] \in 0 .. LongAgo
        BY <1>t, <4>1 DEF LookupTypeOK
      <4>4. since'[i.situacao] =
               IF i.situacao = Situacao THEN 0
               ELSE IF since[i.situacao] = LongAgo THEN LongAgo
               ELSE since[i.situacao] + 1
        BY <1>10, <4>1 DEF LookupTick
      <4>5. HonestInfo(i, since) => HonestInfo(Older(i), since')
        BY <3>2, <4>1, <4>2, <4>3, <4>4 DEF HonestInfo, Ages, LongAgo
      <4>6. \A s : ReadOK(s, i, since) => ReadOK(s, Older(i), since')
        BY <3>2, <4>1, <4>2, <4>3, <4>4 DEF ReadOK, Ages, LongAgo
      <4> QED
        BY <4>2, <4>5, <4>6
    <3> QED
      BY <3>1, <3>2
  <2>2. since' \in [Situations -> 0 .. LongAgo]
    BY <1>10, <1>t DEF LookupTick, LookupTypeOK, LongAgo
  <2>3. LookupTypeOK'
    BY <1>10, <1>t, <1>c, <2>1, <2>2 DEF LookupTick, LookupTypeOK
  <2>4. HonestInfo(cached', since')
    BY <1>10, <1>h, <1>c, <2>1 DEF LookupTick
  <2>5. \A p \in Callers :
           call'[p].step = call[p].step /\ call'[p].info = Older(call[p].info)
    BY <1>10, <1>t DEF LookupTick, LookupTypeOK
  <2>6. \A p \in Callers : HonestInfo(call'[p].info, since')
    BY <1>h, <1>c, <2>1, <2>5
  <2>7. \A p \in Callers : ReadOK(call'[p].step, call'[p].info, since')
    BY <1>r, <1>c, <2>1, <2>5
  <2>8. AgeHonest'
    BY <2>4, <2>6 DEF AgeHonest, HonestInfo
  <2>9. since'[Situacao'] = 0
    BY <1>10, <1>t DEF LookupTick, Situacao
  <2> QED
    BY <2>3, <2>7, <2>8, <2>9 DEF LookupInv
<1>11. CASE \E s \in Descriptions : RegistryChanges(s)
  <2>1. registered' \in Descriptions /\ UNCHANGED <<cached, call>>
    BY <1>11 DEF RegistryChanges
  <2>2. Situacao' \in Situations
    BY <2>1 DEF Situacao, Situations, Descriptions
  <2>3. since' = [since EXCEPT ![Situacao'] = 0]
    BY <1>11 DEF RegistryChanges
  <2>4. since' \in [Situations -> 0 .. LongAgo] /\ since'[Situacao'] = 0
        /\ \A s \in Situations : since'[s] = since[s] \/ since'[s] = 0
    BY <2>2, <2>3, <1>t DEF LookupTypeOK, LongAgo
  <2>5. LookupTypeOK'
    BY <2>1, <2>4, <1>t DEF LookupTypeOK
  <2>6. \A i \in Infos \cup {NoInfo} : HonestInfo(i, since) => HonestInfo(i, since')
    BY <2>4, <1>t DEF HonestInfo, Infos, Ages, LookupTypeOK
  <2>7. AgeHonest'
    BY <2>1, <2>6, <1>h, <1>c DEF AgeHonest, HonestInfo
  <2>8. \A p \in Callers : ReadOK(call'[p].step, call'[p].info, since')
    BY <2>1, <2>4, <1>r, <1>c DEF ReadOK, Infos, Ages
  <2> QED
    BY <2>4, <2>5, <2>7, <2>8 DEF LookupInv
<1>12. CASE UNCHANGED lookupVars
  BY <1>12, <1>t, <1>r
  DEF lookupVars, LookupInv, LookupTypeOK, AgeHonest, Situacao
<1> QED
  BY <1>1, <1>2, <1>3, <1>4, <1>5, <1>6, <1>7, <1>8, <1>9, <1>10, <1>11, <1>12
  DEF LookupNext, Lookup

\* A cached or returned company info was registered at most its age and the
\* client's limit ago, for any number of lookups that are answered, read, stamp,
\* save and overwrite in any order, while time passes and the registry moves.
THEOREM InfoCorrect == LookupSpec => []InfoSound
<1>1. LookupInv => InfoSound
  BY DEF LookupInv, InfoSound
<1> QED
  BY <1>1, LookupInitInv, LookupNextInv, PTL DEF LookupSpec

-----------------------------------------------------------------------------
(* EventFanout: audit log and webhooks.                                    *)

TaskKinds == {"publish", "audit", "webhook"} \cup Viewers

(* The goroutines of an event: its publisher until it is published, and    *)
(* the handlers of the snapshot afterwards.                                *)
TaskInv ==
    /\ started \subseteq Events
    /\ tasks \subseteq TaskKinds \X started
    /\ published \subseteq started /\ open \subseteq started
    /\ \A e \in Events : e \in published <=> e \in started /\ <<"publish", e>> \notin tasks
    /\ \A k \in TaskKinds \ {"publish"}, e \in Events : <<k, e>> \in tasks => e \in published
    /\ handlers \subseteq Viewers

(* A row of the audit log stands for a handler that is done.               *)
LogInv ==
    /\ log \in [Events -> {0, 1}]
    /\ \A e \in Events :
          (e \notin published \/ <<"audit", e>> \in tasks) => log[e] = 0
    /\ AuditComplete

(* A webhook is called by the one goroutine that the list started.         *)
HookInv ==
    /\ hooks \in [Hooks -> {"none", "active", "deleted"}]
    /\ sending \subseteq Hooks \X published /\ due \subseteq Hooks \X published
    /\ called \in [Hooks -> [Events -> {0, 1}]]
    /\ \A h \in Hooks, e \in Events :
          /\ (e \notin published \/ <<"webhook", e>> \in tasks)
                => called[h][e] = 0 /\ <<h, e>> \notin sending
          /\ <<h, e>> \in sending => called[h][e] = 0
          /\ <<h, e>> \in due => hooks[h] # "none"
    /\ MissedHookExplained

FanoutInv == TaskInv /\ LogInv /\ HookInv

USE ViewersAssumption DEF TaskKinds

LEMMA FanoutInitInv == FanoutInit => FanoutInv
<1> SUFFICES ASSUME FanoutInit PROVE FanoutInv
  OBVIOUS
<1>1. TaskInv
  BY DEF FanoutInit, TaskInv
<1>2. LogInv
  BY DEF FanoutInit, LogInv, AuditComplete
<1>3. HookInv
  BY DEF FanoutInit, HookInv, MissedHookExplained
<1> QED
  BY <1>1, <1>2, <1>3 DEF FanoutInv

\* What the log and the hooks see of the tasks.
LEMMA LogFrame ==
    ASSUME LogInv, UNCHANGED logVars, published' = published,
           \A e \in Events : <<"audit", e>> \in tasks' <=> <<"audit", e>> \in tasks,
           TaskInv
    PROVE  LogInv'
  BY DEF LogInv, logVars, AuditComplete, TaskInv

LEMMA HookFrame ==
    ASSUME HookInv, UNCHANGED hookVars, published' = published,
           \A e \in Events : <<"webhook", e>> \in tasks' <=> <<"webhook", e>> \in tasks
    PROVE  HookInv'
  BY DEF HookInv, hookVars, MissedHookExplained

\* A handler of event e ends.
LEMMA TaskEnds ==
    ASSUME TaskInv, NEW e \in Events, NEW k \in TaskKinds \ {"publish"},
           <<k, e>> \in tasks, tasks' = tasks \ {<<k, e>>},
           UNCHANGED <<started, published, open>>, handlers' = handlers
    PROVE  TaskInv'
  BY DEF TaskInv

LEMMA TaskFrame ==
    ASSUME TaskInv, UNCHANGED <<started, published, tasks>>, open' \subseteq open,
           handlers' \subseteq Viewers
    PROVE  TaskInv'
  BY DEF TaskInv

LEMMA FanoutNextInv == FanoutInv /\ [FanoutNext]_fanoutVars => FanoutInv'
<1> SUFFICES ASSUME TaskInv, LogInv, HookInv, [FanoutNext]_fanoutVars
             PROVE  FanoutInv'
  BY DEF FanoutInv
<1> USE DEF FanoutInv
<1>h. handlers \subseteq Viewers
  BY DEF TaskInv
<1>1. ASSUME NEW e \in Events, PublishAsync(e) PROVE FanoutInv'
  <2>1. TaskInv'
    BY <1>1 DEF PublishAsync, TaskInv, viewVars
  <2>2. LogInv'
    BY <1>1, LogFrame DEF PublishAsync
  <2>3. HookInv'
    BY <1>1, HookFrame DEF PublishAsync
  <2> QED
    BY <2>1, <2>2, <2>3
<1>2. ASSUME NEW e \in Events, Publish(e) PROVE FanoutInv'
  <2>1. /\ <<"publish", e>> \in tasks /\ e \in started /\ e \notin published
        /\ \A k \in TaskKinds \ {"publish"} : <<k, e>> \notin tasks
    BY <1>2 DEF Publish, TaskInv
  <2>2. /\ published' = published \cup {e} /\ started' = started /\ open' = open
        /\ handlers' = handlers /\ UNCHANGED logVars
        /\ \A k \in TaskKinds, f \in Events : <<k, f>> \in tasks' <=>
              IF f = e THEN k \in Snapshot ELSE <<k, f>> \in tasks
        /\ tasks' \subseteq TaskKinds \X started
    <3>1. tasks' = (tasks \ {<<"publish", e>>}) \cup {<<s, e>> : s \in Snapshot}
          /\ published' = published \cup {e} /\ UNCHANGED <<started, open, logVars, viewVars>>
      BY <1>2 DEF Publish
    <3>2. Snapshot \subseteq TaskKinds \ {"publish"}
      BY <1>h DEF Snapshot
    <3>3. tasks' \subseteq TaskKinds \X started
      BY <2>1, <3>1, <3>2 DEF TaskInv
    <3>4. \A k \in TaskKinds, f \in Events : <<k, f>> \in tasks' <=>
              IF f = e THEN k \in Snapshot ELSE <<k, f>> \in tasks
      BY <2>1, <3>1, <3>2
    <3> QED
      BY <3>1, <3>3, <3>4 DEF viewVars
  <2>3. TaskInv'
    BY <2>1, <2>2 DEF TaskInv, Snapshot
  <2>4. LogInv'
    BY <2>1, <2>2 DEF LogInv, AuditComplete, logVars, Snapshot, TaskInv
  <2>5. HookInv'
    <3>1. /\ due' = due \cup {<<h, e>> : h \in ActiveHooks}
          /\ UNCHANGED <<hooks, sending, called, unsent, unlisted>>
      BY <1>2 DEF Publish
    <3>2. sending' \subseteq Hooks \X published' /\ due' \subseteq Hooks \X published'
      BY <2>2, <3>1 DEF HookInv, ActiveHooks
    <3>3. \A h \in Hooks, f \in Events :
             /\ (f \notin published' \/ <<"webhook", f>> \in tasks')
                   => called[h][f] = 0 /\ <<h, f>> \notin sending
      BY <2>1, <2>2 DEF HookInv
    <3>4. \A h \in Hooks, f \in Events : f # e =>
             ((<<h, f>> \in due' <=> <<h, f>> \in due)
              /\ (<<"webhook", f>> \in tasks' <=> <<"webhook", f>> \in tasks))
      BY <2>2, <3>1
    <3>5. <<"webhook", e>> \in tasks'
      BY <2>2 DEF Snapshot
    <3>6. MissedHookExplained'
      BY <3>1, <3>4, <3>5 DEF MissedHookExplained, HookInv
    <3>7. \A h \in Hooks, f \in Events : <<h, f>> \in due' => hooks[h] # "none"
      BY <3>1 DEF HookInv, ActiveHooks
    <3> QED
      BY <3>1, <3>2, <3>3, <3>6, <3>7 DEF HookInv
  <2> QED
    BY <2>3, <2>4, <2>5
<1>3. ASSUME NEW e \in Events, RequestEnds(e) PROVE FanoutInv'
  <2>1. TaskInv'
    BY <1>3, TaskFrame, <1>h DEF RequestEnds, viewVars
  <2> QED
    BY <1>3, <2>1, LogFrame, HookFrame DEF RequestEnds
<1>4. ASSUME NEW e \in Events, CreateLog(e) PROVE FanoutInv'
  <2>1. /\ <<"audit", e>> \in tasks /\ e \in published /\ log[e] = 0
        /\ tasks' = tasks \ {<<"audit", e>>}
        /\ log' = [log EXCEPT ![e] = 1]
        /\ UNCHANGED <<started, published, open, hookVars, unlogged, viewVars>>
    <3>1. <<"audit", e>> \in tasks /\ log' = [log EXCEPT ![e] = @ + 1]
      BY <1>4 DEF CreateLog
    <3>2. e \in published /\ log[e] = 0
      BY <3>1 DEF TaskInv, LogInv
    <3>3. log' = [log EXCEPT ![e] = 1]
      BY <3>1, <3>2
    <3> QED
      BY <1>4, <3>1, <3>2, <3>3 DEF CreateLog
  <2>2. TaskInv'
    BY <2>1, TaskEnds DEF viewVars
  <2>3. LogInv'
    BY <2>1 DEF LogInv, AuditComplete, TaskInv
  <2>4. HookInv'
    BY <2>1, HookFrame
  <2> QED
    BY <2>2, <2>3, <2>4
<1>5. ASSUME NEW e \in Events, CreateLogFails(e) PROVE FanoutInv'
  <2>1. /\ <<"audit", e>> \in tasks
        /\ tasks' = tasks \ {<<"audit", e>>}
        /\ unlogged' = unlogged \cup {e}
        /\ UNCHANGED <<started, published, open, hookVars, log, viewVars>>
    BY <1>5 DEF CreateLogFails
  <2>2. TaskInv'
    BY <2>1, TaskEnds DEF viewVars
  <2>3. LogInv'
    BY <2>1 DEF LogInv, AuditComplete, TaskInv
  <2>4. HookInv'
    BY <2>1, HookFrame
  <2> QED
    BY <2>2, <2>3, <2>4
<1>6. ASSUME NEW e \in Events, ListByEvent(e) PROVE FanoutInv'
  <2>0. PICK listed \in SUBSET ActiveHooks :
           /\ sending' = sending \cup {<<h, e>> : h \in listed}
           /\ unlisted' = unlisted \cup {<<h, e>> : h \in ActiveHooks \ listed}
    BY <1>6 DEF ListByEvent
  <2>1. /\ <<"webhook", e>> \in tasks /\ e \in published
        /\ tasks' = tasks \ {<<"webhook", e>>}
        /\ UNCHANGED <<started, published, open, hooks, due, called, unsent, logVars, viewVars>>
    BY <1>6 DEF ListByEvent, TaskInv
  <2>2. TaskInv'
    BY <2>1, TaskEnds DEF viewVars
  <2>3. LogInv'
    BY <2>1, LogFrame
  <2>4. sending' \subseteq Hooks \X published'
    BY <2>0, <2>1 DEF HookInv, ActiveHooks
  <2>5. \A h \in Hooks, f \in Events :
           /\ <<h, f>> \in sending' => <<h, f>> \in sending \/ (f = e /\ hooks[h] = "active")
           /\ <<h, f>> \in sending => <<h, f>> \in sending'
           /\ hooks[h] = "active" => <<h, e>> \in sending' \cup unlisted'
           /\ <<h, f>> \in unlisted => <<h, f>> \in unlisted'
           /\ <<"webhook", f>> \in tasks' <=> <<"webhook", f>> \in tasks /\ f # e
    BY <2>0, <2>1 DEF ActiveHooks
  <2>6. \A h \in Hooks, f \in Events :
          /\ (f \notin published' \/ <<"webhook", f>> \in tasks')
                => called[h][f] = 0 /\ <<h, f>> \notin sending'
          /\ <<h, f>> \in sending' => called[h][f] = 0
    BY <2>1, <2>5 DEF HookInv
  <2>7. MissedHookExplained'
    BY <2>1, <2>5 DEF MissedHookExplained, HookInv
  <2>8. HookInv'
    BY <2>1, <2>4, <2>6, <2>7 DEF HookInv
  <2> QED
    BY <2>2, <2>3, <2>8
<1>7. ASSUME NEW e \in Events, ListByEventFails(e) PROVE FanoutInv'
  <2>1. /\ <<"webhook", e>> \in tasks
        /\ tasks' = tasks \ {<<"webhook", e>>}
        /\ unlisted' = unlisted \cup {<<h, e>> : h \in ActiveHooks}
        /\ UNCHANGED <<started, published, open, hooks, due, sending, called,
                       unsent, logVars, viewVars>>
    BY <1>7 DEF ListByEventFails
  <2>2. TaskInv'
    BY <2>1, TaskEnds DEF viewVars
  <2>3. LogInv'
    BY <2>1, LogFrame
  <2>4. \A f \in Events : <<"webhook", f>> \in tasks' <=> <<"webhook", f>> \in tasks /\ f # e
    BY <2>1
  <2>5. MissedHookExplained'
    BY <2>1, <2>4 DEF MissedHookExplained, HookInv, ActiveHooks
  <2>6. HookInv'
    BY <2>1, <2>4, <2>5 DEF HookInv
  <2> QED
    BY <2>2, <2>3, <2>6
<1>8. ASSUME NEW e \in Events, NEW h \in Hooks, Dispatch(h, e) PROVE FanoutInv'
  <2>1. /\ <<h, e>> \in sending /\ called[h][e] = 0
        /\ <<"webhook", e>> \notin tasks /\ e \in published
        /\ called' = [called EXCEPT ![h][e] = 1]
        /\ sending' = sending \ {<<h, e>>}
        /\ UNCHANGED <<started, published, open, tasks, hooks, due, unsent,
                       unlisted, logVars, viewVars>>
    <3>1. <<h, e>> \in sending /\ called' = [called EXCEPT ![h][e] = @ + 1]
      BY <1>8 DEF Dispatch
    <3>2. /\ called[h][e] = 0 /\ <<"webhook", e>> \notin tasks /\ e \in published
      BY <3>1 DEF HookInv
    <3>3. called' = [called EXCEPT ![h][e] = 1]
      BY <3>1, <3>2
    <3> QED
      BY <1>8, <3>1, <3>2, <3>3 DEF Dispatch
  <2>2. TaskInv'
    BY <2>1, TaskFrame, <1>h DEF viewVars
  <2>3. LogInv'
    BY <2>1, LogFrame
  <2>t. called \in [Hooks -> [Events -> {0, 1}]]
    BY DEF HookInv
  <2>9. \A g \in Hooks, f \in Events :
          /\ (f \notin published \/ <<"webhook", f>> \in tasks)
                => called[g][f] = 0 /\ <<g, f>> \notin sending
          /\ <<g, f>> \in sending => called[g][f] = 0
    BY DEF HookInv
  <2>4. /\ called' \in [Hooks -> [Events -> {0, 1}]]
        /\ \A g \in Hooks, f \in Events : called'[g][f] =
              IF g = h /\ f = e THEN 1 ELSE called[g][f]
        /\ \A g \in Hooks, f \in Events : <<g, f>> \in sending' <=>
              <<g, f>> \in sending /\ ~(g = h /\ f = e)
    BY <2>1, <2>t
  <2>5. \A g \in Hooks, f \in Events :
          /\ (f \notin published' \/ <<"webhook", f>> \in tasks')
                => called'[g][f] = 0 /\ <<g, f>> \notin sending'
          /\ <<g, f>> \in sending' => called'[g][f] = 0
    <3> SUFFICES ASSUME NEW g \in Hooks, NEW f \in Events
                 PROVE  /\ (f \notin published \/ <<"webhook", f>> \in tasks)
                              => called'[g][f] = 0 /\ <<g, f>> \notin sending'
                        /\ <<g, f>> \in sending' => called'[g][f] = 0
      BY <2>1
    <3>1. CASE g = h /\ f = e
      BY <3>1, <2>1, <2>4
    <3>2. CASE ~(g = h /\ f = e)
      BY <3>2, <2>4, <2>9
    <3> QED
      BY <3>1, <3>2
  <2>6. MissedHookExplained'
    BY <2>1, <2>4 DEF MissedHookExplained, HookInv
  <2>7. sending' \subseteq Hooks \X published'
    BY <2>1 DEF HookInv
  <2>8. HookInv'
    BY <2>1, <2>4, <2>5, <2>6, <2>7 DEF HookInv
  <2> QED
    BY <2>2, <2>3, <2>8
<1>9. ASSUME NEW e \in Events, NEW h \in Hooks, DispatchFails(h, e) PROVE FanoutInv'
  <2>1. /\ sending' = sending \ {<<h, e>>} /\ unsent' = unsent \cup {<<h, e>>}
        /\ UNCHANGED <<started, published, open, tasks, hooks, due, called,
                       unlisted, logVars, viewVars>>
    BY <1>9 DEF DispatchFails
  <2>2. TaskInv'
    BY <2>1, TaskFrame, <1>h DEF viewVars
  <2>3. LogInv'
    BY <2>1, LogFrame
  <2>4. MissedHookExplained'
    BY <2>1 DEF MissedHookExplained, HookInv
  <2>5. HookInv'
    BY <2>1, <2>4 DEF HookInv
  <2> QED
    BY <2>2, <2>3, <2>5
<1>10. ASSUME NEW e \in Events, NEW v \in Viewers, Forward(v, e) PROVE FanoutInv'
  <2>1. /\ <<v, e>> \in tasks /\ tasks' = tasks \ {<<v, e>>}
        /\ UNCHANGED <<started, published, open, hookVars, logVars, handlers>>
    BY <1>10 DEF Forward
  <2>2. TaskInv'
    BY <2>1, TaskEnds
  <2>3. \A f \in Events : /\ <<"audit", f>> \in tasks' <=> <<"audit", f>> \in tasks
                          /\ <<"webhook", f>> \in tasks' <=> <<"webhook", f>> \in tasks
    BY <2>1
  <2> QED
    BY <2>1, <2>2, <2>3, LogFrame, HookFrame
<1>11. ASSUME NEW h \in Hooks, CreateWebhook(h) \/ DeleteWebhook(h) PROVE FanoutInv'
  <2>1. UNCHANGED <<started, published, open, tasks, due, sending, called, unsent,
                    unlisted, logVars, viewVars>>
    BY <1>11 DEF CreateWebhook, DeleteWebhook
  <2>2. hooks' \in [Hooks -> {"none", "active", "deleted"}]
        /\ \A g \in Hooks : hooks[g] # "none" =>
              hooks'[g] # "none" /\ (hooks'[g] = "active" => hooks[g] = "active")
    BY <1>11 DEF CreateWebhook, DeleteWebhook, HookInv, NewWebhook
  <2>3. TaskInv' /\ LogInv'
    BY <2>1, <1>h, TaskFrame, LogFrame DEF viewVars
  <2>4. \A g \in Hooks, f \in Events : <<g, f>> \in due => hooks'[g] # "none"
    BY <2>2 DEF HookInv
  <2>5. MissedHookExplained'
    BY <2>1, <2>2 DEF MissedHookExplained, HookInv
  <2>6. HookInv'
    BY <2>1, <2>2, <2>4, <2>5 DEF HookInv
  <2> QED
    BY <2>3, <2>6
<1>12. ASSUME NEW v \in Viewers, Subscribe(v) \/ Leave(v) \/ Unsubscribe(v) PROVE FanoutInv'
  <2>1. UNCHANGED <<started, published, open, tasks, hookVars, logVars>>
        /\ handlers' \subseteq Viewers
    BY <1>12, <1>h DEF Subscribe, Leave, Unsubscribe
  <2> QED
    BY <2>1, TaskFrame, LogFrame, HookFrame
<1>13. CASE UNCHANGED fanoutVars
  BY <1>13, <1>h, TaskFrame, LogFrame, HookFrame DEF fanoutVars, hookVars, logVars
<1> QED
  BY <1>1, <1>2, <1>3, <1>4, <1>5, <1>6, <1>7, <1>8, <1>9, <1>10, <1>11, <1>12, <1>13
  DEF FanoutNext, AuditStep, ListStep, HookStep, ReadOnly

LEMMA FanoutInvSound == FanoutInv => FanoutSound
<1> SUFFICES ASSUME TaskInv, LogInv, HookInv PROVE FanoutSound
  BY DEF FanoutInv
<1>1. \A t \in tasks : IF t[2] \in published
                        THEN t[1] \in {"audit", "webhook"} \cup Viewers
                        ELSE t = <<"publish", t[2]>>
  <2> SUFFICES ASSUME NEW k \in TaskKinds, NEW e \in started, <<k, e>> \in tasks
               PROVE  IF e \in published THEN k \in {"audit", "webhook"} \cup Viewers
                                         ELSE k = "publish"
    <3>1. \A t \in tasks : t[1] \in TaskKinds /\ t[2] \in started /\ t = <<t[1], t[2]>>
      <4>1. tasks \subseteq TaskKinds \X started
        BY DEF TaskInv
      <4> QED
        BY <4>1 
    <3> QED
      BY <3>1
  <2>1. e \in Events
    BY DEF TaskInv
  <2> QED
    BY <2>1 DEF TaskInv
<1>2. FanoutTypeOK
  BY <1>1 DEF FanoutTypeOK, TaskInv, HookInv
<1>3. AtMostOnce
  <2>1. \A e \in Events : log[e] \in {0, 1}
    BY DEF LogInv
  <2>2. \A h \in Hooks, e \in Events : called[h][e] \in {0, 1}
    BY DEF HookInv
  <2> QED
    BY <2>1, <2>2 DEF AtMostOnce
<1> QED
  BY <1>2, <1>3 DEF FanoutSound, LogInv, HookInv

(* Whatever the order in which the requests end and the goroutines of      *)
(* Publish run: no event is logged or sent to a webhook twice, an audit    *)
(* row is missing only when its INSERT failed, and a webhook is missed     *)
(* only for a reason the code knows.                                       *)
THEOREM FanoutCorrect == FanoutSpec => []FanoutSound
<1>1. FanoutInit => FanoutInv
  BY FanoutInitInv
<1>2. FanoutInv /\ [FanoutNext]_fanoutVars => FanoutInv'
  BY FanoutNextInv
<1>3. FanoutInv => FanoutSound
  BY FanoutInvSound
<1> QED
  BY <1>1, <1>2, <1>3, PTL DEF FanoutSpec

HIDE ViewersAssumption DEF TaskKinds

-----------------------------------------------------------------------------
(* SdkClient: the token the client holds.                                  *)

(* The refresh token of the n-th login is new: a login that waits for its  *)
(* answer shares its token with no other login, with no Logout and not     *)
(* with the client.                                                        *)
Pending(g) == request[g] # IdleCall /\ request[g].at = "login"

FreshTokens ==
    /\ \A g \in Routines : Pending(g) =>
          request[g].token \in 1 .. logins /\ request[g].token \notin dead
          /\ request[g].token # tokens.refresh
    /\ \A g, h \in Routines : Pending(g) /\ Pending(h) /\ g # h =>
          request[g].token # request[h].token
    /\ tokens.refresh \in {Empty, Resumed} \cup 1 .. logins
    /\ dead \subseteq {Resumed} \cup 1 .. logins

Counters == tick \in 0 .. LastTick /\ logins \in 0 .. MaxLogins /\ logouts \in Nat

RequestType == request \in [Routines -> {IdleCall} \cup
                   [at : {"login", "refresh"}, token : Tokens]]

SdkInv == SdkTypeOK /\ RequestType /\ Counters /\ FreshTokens /\ LogoutClears

USE SdkAssumption DEF Empty, Resumed, Tokens

LEMMA SdkInitInv == SdkInit => SdkInv
  BY DEF SdkInit, SdkInv, SdkTypeOK, RequestType, Counters, FreshTokens,
         LogoutClears, NoTokens, IdleCall, Pending

LEMMA SdkNextInv == SdkInv /\ [SdkNext]_sdkVars => SdkInv'
<1> SUFFICES ASSUME SdkInv, [SdkNext]_sdkVars PROVE SdkInv'
  OBVIOUS
<1> USE DEF SdkInv, Counters
<1>1. CASE WithTokens
  <2>1. tokens' = [access |-> Resumed, refresh |-> Resumed, expires |-> 0]
        /\ UNCHANGED <<tick, request, logins, logouts, dead>>
        /\ dead = {} /\ \A g \in Routines : ~Pending(g)
    BY <1>1 DEF WithTokens, SdkInit, Pending
  <2>2. SdkTypeOK' /\ RequestType' /\ LogoutClears'
    BY <2>1 DEF SdkTypeOK, RequestType, LogoutClears
  <2>3. FreshTokens'
    BY <2>1 DEF FreshTokens, Pending
  <2> QED
    BY <2>1, <2>2, <2>3
<1>2. CASE SdkTick
  BY <1>2 DEF SdkTick, SdkTypeOK, RequestType, FreshTokens, Pending, LogoutClears
<1>3. CASE Logout
  <2>1. /\ tokens' = [access |-> 0, refresh |-> 0, expires |-> 0]
        /\ dead' = dead \cup ({tokens.refresh} \ {0})
        /\ logouts' = logouts + 1
        /\ UNCHANGED <<tick, request, logins>>
    BY <1>3 DEF Logout, NoTokens
  <2>2. tokens.refresh \in {0} \cup 1 .. MaxLogins + 1 /\ dead \subseteq 1 .. MaxLogins + 1
    BY DEF SdkTypeOK
  <2>3. dead' \subseteq 1 .. MaxLogins + 1
    BY <2>1, <2>2
  <2>4. RequestType'
    BY <2>1 DEF RequestType
  <2>5. tokens' \in [access : {0, MaxLogins + 1}, refresh : {0} \cup 1 .. MaxLogins + 1,
                     expires : 0 .. LastTick + Lifetime]
    BY <2>1
  <2>6. SdkTypeOK'
    BY <2>1, <2>3, <2>5 DEF SdkTypeOK
  <2>7. LogoutClears'
    BY <2>1, <2>3 DEF LogoutClears
  <2>8. tokens.refresh \in {0, MaxLogins + 1} \cup 1 .. logins
        /\ dead \subseteq {MaxLogins + 1} \cup 1 .. logins
    BY DEF FreshTokens
  <2>9. dead' \subseteq {MaxLogins + 1} \cup 1 .. logins
    BY <2>1, <2>8
  <2>10. \A g \in Routines : Pending(g)' <=> Pending(g)
    BY <2>1 DEF Pending
  <2>11. \A g \in Routines : Pending(g) =>
            request[g].token \in 1 .. logins /\ request[g].token \notin dead'
            /\ request[g].token # 0
    BY <2>1 DEF FreshTokens
  <2>12. FreshTokens'
    BY <2>1, <2>9, <2>10, <2>11 DEF FreshTokens
  <2> QED
    BY <2>1, <2>4, <2>6, <2>7, <2>12
<1>4. ASSUME NEW g \in Routines, Login(g) PROVE SdkInv'
  <2>1. /\ logins' = logins + 1 /\ logins' \in 1 .. MaxLogins
        /\ request' = [request EXCEPT ![g] = [at |-> "login", token |-> logins']]
        /\ UNCHANGED <<tick, tokens, logouts, dead>>
    BY <1>4 DEF Login
  <2>2. RequestType'
    BY <2>1 DEF RequestType
  <2>3. SdkTypeOK' /\ LogoutClears'
    BY <2>1, <2>2 DEF SdkTypeOK, RequestType, LogoutClears
  <2>4. /\ request'[g].token = logins' /\ request'[g].at = "login"
        /\ \A h \in Routines \ {g} : request'[h] = request[h]
    BY <2>1 DEF RequestType
  <2>5. \A h \in Routines \ {g} : Pending(h)' <=> Pending(h)
    BY <2>4 DEF Pending
  <2>6. FreshTokens'
    BY <2>1, <2>4, <2>5 DEF FreshTokens, Pending
  <2> QED
    BY <2>1, <2>2, <2>3, <2>6
<1>5. ASSUME NEW g \in Routines, NEW t \in {Empty} \cup Tokens, NEW l \in 0 .. Lifetime,
             t = Empty \/ (Pending(g) /\ t = request[g].token),
             StoreTokens(g, Decoded(t, l))
      PROVE  SdkInv'
  <2>1. /\ tokens' = [access |-> Empty, refresh |-> t, expires |-> tick + l]
        /\ request' = [request EXCEPT ![g] = IdleCall]
        /\ UNCHANGED <<tick, logins, logouts, dead>>
    BY <1>5 DEF StoreTokens, Decoded
  <2>2. RequestType'
    BY <2>1 DEF RequestType
  <2>3. SdkTypeOK'
    BY <2>1, <2>2 DEF SdkTypeOK, RequestType
  <2>4. LogoutClears'
    BY <1>5, <2>1 DEF LogoutClears, FreshTokens, SdkTypeOK
  <2>5. /\ request'[g] = IdleCall
        /\ \A h \in Routines \ {g} : request'[h] = request[h]
    BY <2>1 DEF RequestType
  <2>6. ~Pending(g)' /\ \A h \in Routines \ {g} : Pending(h)' <=> Pending(h)
    BY <2>5 DEF Pending
  <2>7. FreshTokens'
    BY <1>5, <2>1, <2>5, <2>6 DEF FreshTokens
  <2> QED
    BY <2>1, <2>2, <2>3, <2>4, <2>7
<1>6. ASSUME NEW g \in Routines, LoginAnswered(g) PROVE SdkInv'
  <2>1. Pending(g) /\ request[g].token \in Tokens
    BY <1>6 DEF LoginAnswered, Pending, RequestType, IdleCall
  <2>2. CASE StoreTokens(g, Decoded(request[g].token, Lifetime))
    BY <2>1, <2>2, <1>5
  <2>3. CASE StoreTokens(g, Decoded(Empty, 0))
    BY <2>3, <1>5
  <2> QED
    BY <1>6, <2>2, <2>3 DEF LoginAnswered
<1>7. ASSUME NEW g \in Routines, RefreshAnswered(g) PROVE SdkInv'
  BY <1>7, <1>5 DEF RefreshAnswered
<1>8. ASSUME NEW g \in Routines,
             NEW r \in {IdleCall} \cup [at : {"refresh"}, token : Tokens],
             request' = [request EXCEPT ![g] = r],
             UNCHANGED <<tick, tokens, logins, logouts, dead>>
      PROVE  SdkInv'
  <2>1. RequestType'
    BY <1>8 DEF RequestType
  <2>2. SdkTypeOK' /\ LogoutClears'
    BY <1>8, <2>1 DEF SdkTypeOK, RequestType, LogoutClears
  <2>3. request'[g] = r /\ \A h \in Routines \ {g} : request'[h] = request[h]
    BY <1>8 DEF RequestType
  <2>4. ~Pending(g)' /\ \A h \in Routines \ {g} : Pending(h)' <=> Pending(h)
    BY <2>3 DEF Pending
  <2>5. FreshTokens'
    BY <1>8, <2>3, <2>4 DEF FreshTokens
  <2> QED
    BY <1>8, <2>1, <2>2, <2>5
<1>9. ASSUME NEW g \in Routines, RefreshIfNeeded(g) PROVE SdkInv'
  <2>1. NeedsRefresh => tokens.refresh \in Tokens
    BY DEF NeedsRefresh, SdkTypeOK
  <2> QED
    BY <1>9, <2>1, <1>8 DEF RefreshIfNeeded
<1>10. ASSUME NEW g \in Routines, CallFails(g) PROVE SdkInv'
  BY <1>10, <1>8 DEF CallFails
<1>11. CASE UNCHANGED sdkVars
  BY <1>11 DEF sdkVars, SdkTypeOK, RequestType, FreshTokens, Pending, LogoutClears
<1> QED
  BY <1>1, <1>2, <1>3, <1>4, <1>6, <1>7, <1>9, <1>10, <1>11 DEF SdkNext, Do, Can

\* A refresh token that Logout took away never comes back into the client,
\* whatever logins and refreshes of any number of goroutines overlap it.
THEOREM ClientCorrect == SdkSpec => []ClientSound
<1>1. SdkInv => ClientSound
  BY DEF SdkInv, ClientSound
<1> QED
  BY <1>1, SdkInitInv, SdkNextInv, PTL DEF SdkSpec

HIDE SdkAssumption DEF Empty, Resumed, Tokens

-----------------------------------------------------------------------------
(* RiskSentinel: no login leaves the table unseen.                         *)

RiskSteps == {"idle", "incr", "expire", "travel", "save", "mark"}

\* The login at hand is being analysed.
RuleSteps == {"expire", "travel", "save"}

\* The batch in hand holds logins that happened, and the one at its head has
\* been counted as analysed once the worker is past the first rule, unless it
\* could not be read.
BatchOK ==
    /\ todo \in Seq(Logins) /\ step \in RiskSteps
    /\ \A i \in 1 .. Len(todo) : loginAt[todo[i]] # NotYet
    /\ step # "idle" => todo # <<>>
    /\ step \in RuleSteps => handled[todo[1]] > 0
    /\ step = "mark" => handled[todo[1]] > 0 \/ todo[1] \in malformed

RiskTypes ==
    /\ time \in Nat
    /\ loginAt \in [Logins -> Int]
    /\ \A e \in Logins : loginAt[e] \in NotYet .. time
    /\ handled \in [Logins -> Nat]
    /\ unprocessed \subseteq Logins
    /\ malformed \subseteq Logins /\ relayed \subseteq Logins
    /\ \A e \in unprocessed : loginAt[e] # NotYet
    /\ \A h \in history : h.at \in 0 .. time
    /\ score \subseteq {"velocity", "travel"}

VelocityOK ==
    /\ velocity \in [count : Nat, expires : Int]
    /\ velocity.count > 0 => born \in 0 .. time
    /\ velocity.expires # Never => velocity.count > 0 /\ velocity.expires > time

RiskInv == RiskTypes /\ VelocityOK /\ BatchOK /\ MarkedWereAnalysed

LEMMA HeadOfBatch ==
    ASSUME BatchOK, step # "idle"
    PROVE  /\ Event = todo[1] /\ Event \in Logins /\ loginAt[Event] # NotYet
           /\ Len(todo) \in Nat /\ Len(todo) >= 1
  BY DEF BatchOK, Event

LEMMA InitRisk == RiskInit => RiskInv
  BY DEF RiskInit, RiskInv, RiskTypes, VelocityOK, BatchOK, MarkedWereAnalysed,
         RiskSteps, RuleSteps, NotYet, Never, NoVelocity

\* A step of the worker that stays with the login at hand.
LEMMA SameEvent ==
    ASSUME RiskInv, step # "idle", step' \in RuleSteps \cup {"mark"},
           UNCHANGED <<todo, rowVars>>,
           \/ step \in RuleSteps /\ handled' = handled
           \/ handled' = [handled EXCEPT ![Event] = @ + 1]
    PROVE  BatchOK' /\ MarkedWereAnalysed' /\ handled' \in [Logins -> Nat]
<1>1. Event \in Logins /\ Event = todo[1]
  BY HeadOfBatch DEF RiskInv
<1>2. /\ handled' \in [Logins -> Nat] /\ handled'[Event] > 0
      /\ \A e \in Logins : handled[e] > 0 => handled'[e] > 0
  <2>1. handled \in [Logins -> Nat]
    BY DEF RiskInv, RiskTypes
  <2>2. CASE step \in RuleSteps /\ handled' = handled
    BY <1>1, <2>1, <2>2 DEF RiskInv, BatchOK
  <2>3. CASE handled' = [handled EXCEPT ![Event] = @ + 1]
    BY <1>1, <2>1, <2>3
  <2> QED
    BY <2>2, <2>3
<1>3. UNCHANGED <<loginAt, unprocessed, malformed, relayed>>
  BY DEF rowVars
<1>4. BatchOK'
  BY <1>1, <1>2, <1>3 DEF RiskInv, BatchOK, RiskSteps, RuleSteps
<1> QED
  BY <1>2, <1>3, <1>4 DEF RiskInv, MarkedWereAnalysed

\* On to the next login: the one that is left has been analysed, or skipped.
LEMMA NextInBatch ==
    ASSUME RiskInv, step = "mark", NextEvent,
           UNCHANGED <<loginAt, malformed, relayed, handled>>,
           unprocessed' \in {unprocessed, unprocessed \ {Event}}
    PROVE  BatchOK' /\ MarkedWereAnalysed' /\ score' = {}
<1>1. /\ Event = todo[1] /\ Len(todo) \in Nat /\ Len(todo) >= 1
      /\ handled[Event] > 0 \/ Event \in malformed
  BY HeadOfBatch DEF RiskInv, BatchOK
<1>2. /\ todo' \in Seq(Logins) /\ Len(todo') = Len(todo) - 1
      /\ \A i \in 1 .. Len(todo') : todo'[i] = todo[i + 1]
  BY <1>1 DEF RiskInv, BatchOK, NextEvent
<1>3. step' = (IF Len(todo) = 1 THEN "idle" ELSE "incr") /\ score' = {}
  BY DEF NextEvent
<1>4. \A i \in 1 .. Len(todo') : loginAt[todo'[i]] # NotYet
  BY <1>1, <1>2 DEF RiskInv, BatchOK
<1>5. step' # "idle" => todo' # <<>>
  BY <1>1, <1>2, <1>3
<1>6. BatchOK'
  BY <1>2, <1>3, <1>4, <1>5 DEF BatchOK, RiskSteps, RuleSteps
<1>7. MarkedWereAnalysed'
  BY <1>1 DEF RiskInv, MarkedWereAnalysed
<1> QED
  BY <1>3, <1>6, <1>7

LEMMA FetchStep ==
    ASSUME RiskInv, FetchEvents
    PROVE  RiskInv'
<1>1. PICK s \in OldestLogins : todo' = s
  BY DEF FetchEvents
<1>2. /\ step' = "incr" /\ score' = {}
      /\ UNCHANGED <<time, loginAt, unprocessed, malformed, relayed, velocity, born,
                     countedAt, handled, history>>
  BY DEF FetchEvents, rowVars, counterVars
<1>3. PICK k \in 1 .. Batch : s \in [1 .. k -> unprocessed]
  BY <1>1 DEF OldestLogins
<1>4. k \in Nat /\ k >= 1
  BY RiskAssumption
<1>5. s \in Seq(Logins) /\ Len(s) = k /\ s # <<>>
  BY <1>3, <1>4 DEF RiskInv, RiskTypes
<1>6. \A i \in 1 .. Len(s) : loginAt[s[i]] # NotYet
  BY <1>3, <1>5 DEF RiskInv, RiskTypes
<1>7. BatchOK'
  BY <1>1, <1>2, <1>5, <1>6 DEF BatchOK, RiskSteps, RuleSteps
<1> QED
  BY <1>2, <1>7 DEF RiskInv, RiskTypes, VelocityOK, MarkedWereAnalysed

\* INCR, its reply received or not.
LEMMA CountVelocity ==
    ASSUME RiskInv, CountLogin, time' = time
    PROVE  VelocityOK'
<1>1. /\ velocity' = [velocity EXCEPT !.count = velocity.count + 1]
      /\ born' = (IF velocity.count = 0 THEN time ELSE born)
  BY DEF CountLogin
<1>2. /\ velocity' \in [count : Nat, expires : Int] /\ velocity.count \in Nat
      /\ velocity'.count = velocity.count + 1 /\ velocity'.expires = velocity.expires
  BY <1>1 DEF RiskInv, VelocityOK
<1>3. born' \in 0 .. time
  BY <1>1, <1>2 DEF RiskInv, RiskTypes, VelocityOK
<1> QED
  BY <1>2, <1>3 DEF RiskInv, VelocityOK

LEMMA StepRisk == RiskInv /\ [RiskNext]_riskVars => RiskInv'
<1> SUFFICES ASSUME RiskInv, [RiskNext]_riskVars PROVE RiskInv'
  OBVIOUS
<1>1. CASE UNCHANGED riskVars
  BY <1>1 DEF riskVars, RiskInv, RiskTypes, VelocityOK, BatchOK, MarkedWereAnalysed
<1>2. ASSUME NEW e \in Logins, LoginHappens(e) PROVE RiskInv'
  <2>1. /\ loginAt' \in [Logins -> Int] /\ loginAt'[e] = time
        /\ \A f \in Logins : f # e => loginAt'[f] = loginAt[f]
        /\ unprocessed' = unprocessed \cup {e}
        /\ malformed \subseteq malformed' /\ malformed' \subseteq malformed \cup {e}
        /\ UNCHANGED <<time, relayed, velocity, born, countedAt, handled, history, step, todo,
                       score>>
    BY <1>2 DEF LoginHappens, RiskInv, RiskTypes, counterVars
  <2>2. time # NotYet /\ time \in NotYet .. time
    BY DEF RiskInv, RiskTypes, NotYet
  <2>3. RiskTypes'
    BY <2>1, <2>2 DEF RiskInv, RiskTypes
  <2>4. \A i \in 1 .. Len(todo) : loginAt'[todo[i]] # NotYet
    BY <2>1, <2>2 DEF RiskInv, BatchOK
  <2>5. BatchOK'
    BY <2>1, <2>4 DEF RiskInv, BatchOK
  <2>6. MarkedWereAnalysed'
    BY <2>1 DEF RiskInv, MarkedWereAnalysed
  <2> QED
    BY <2>1, <2>3, <2>5, <2>6 DEF RiskInv, VelocityOK
<1>3. CASE RiskTick
  <2>1. /\ time' = time + 1 /\ time \in Nat
        /\ UNCHANGED <<loginAt, unprocessed, malformed, relayed, handled, history, step, todo,
                       score>>
    BY <1>3 DEF RiskTick, RiskInv, RiskTypes, rowVars
  <2>2. \A x : (x \in NotYet .. time => x \in NotYet .. time + 1)
               /\ (x \in 0 .. time => x \in 0 .. time + 1)
    BY <2>1 DEF NotYet
  <2>3. RiskTypes'
    BY <2>1, <2>2 DEF RiskInv, RiskTypes
  <2>4. VelocityOK'
    <3>1. CASE velocity.count > 0 /\ velocity.expires = time + 1
      <4>1. velocity' = NoVelocity
        BY <1>3, <2>1, <3>1 DEF RiskTick
      <4>2. /\ NoVelocity \in [count : Nat, expires : Int] /\ NoVelocity.count = 0
            /\ NoVelocity.expires = Never
        BY DEF NoVelocity, Never
      <4> QED
        BY <4>1, <4>2 DEF VelocityOK
    <3>2. CASE ~(velocity.count > 0 /\ velocity.expires = time + 1)
      <4>1. UNCHANGED <<velocity, born>>
        BY <1>3, <2>1, <3>2 DEF RiskTick
      <4>2. velocity.count \in Nat /\ velocity.expires \in Int
        BY DEF RiskInv, VelocityOK
      <4>3. velocity.expires # Never => velocity.count > 0 /\ velocity.expires > time + 1
        BY <2>1, <3>2, <4>2 DEF RiskInv, VelocityOK
      <4>4. velocity.count > 0 => born \in 0 .. time + 1
        BY <2>2 DEF RiskInv, VelocityOK
      <4> QED
        BY <2>1, <4>1, <4>3, <4>4 DEF RiskInv, VelocityOK
    <3> QED
      BY <3>1, <3>2
  <2> QED
    BY <2>1, <2>3, <2>4 DEF RiskInv, BatchOK, MarkedWereAnalysed
<1>4. CASE FetchEvents
  BY <1>4, FetchStep
<1>5. CASE EvaluateVelocity \/ VelocityFails
  <2>1. /\ step = "incr" /\ step' \in {"expire", "travel"}
        /\ CountLogin \/ UNCHANGED <<velocity, born>>
        /\ score' = score \/ score' \subseteq {"velocity"}
        /\ handled' = [handled EXCEPT ![Event] = @ + 1]
        /\ UNCHANGED <<time, rowVars, history, todo>>
    BY <1>5 DEF EvaluateVelocity, VelocityFails, counterVars
  <2>2. BatchOK' /\ MarkedWereAnalysed' /\ handled' \in [Logins -> Nat]
    <3>1. step' \in RuleSteps \cup {"mark"} /\ step # "idle"
      BY <2>1 DEF RuleSteps
    <3> QED
      BY <2>1, <3>1, SameEvent
  <2>3. VelocityOK'
    <3>1. CASE CountLogin
      BY <2>1, <3>1, CountVelocity
    <3>2. CASE UNCHANGED <<velocity, born>>
      BY <2>1, <3>2 DEF RiskInv, VelocityOK
    <3> QED
      BY <2>1, <3>1, <3>2
  <2>4. score' \subseteq {"velocity", "travel"}
    BY <2>1 DEF RiskInv, RiskTypes
  <2> QED
    BY <2>1, <2>2, <2>3, <2>4 DEF RiskInv, RiskTypes, rowVars
<1>6. CASE SkipMalformed
  <2>1. /\ step = "incr" /\ step' = "mark" /\ Event \in malformed
        /\ UNCHANGED <<time, loginAt, unprocessed, malformed, relayed, velocity, born, handled,
                       history, todo, score>>
    BY <1>6 DEF SkipMalformed, rowVars, counterVars
  <2>2. Event = todo[1]
    BY <2>1, HeadOfBatch DEF RiskInv
  <2>3. BatchOK'
    BY <2>1, <2>2 DEF RiskInv, BatchOK, RiskSteps, RuleSteps
  <2> QED
    BY <2>1, <2>3 DEF RiskInv, RiskTypes, VelocityOK, MarkedWereAnalysed
<1>7. CASE SetExpiry
  <2>1. /\ step = "expire" /\ step' = "travel"
        /\ velocity' = (IF velocity.count = 0 THEN velocity
                        ELSE [velocity EXCEPT !.expires = time + Window])
        /\ UNCHANGED <<time, rowVars, born, handled, history, todo, score>>
    BY <1>7 DEF SetExpiry
  <2>2. BatchOK' /\ MarkedWereAnalysed'
    BY <2>1, SameEvent DEF RuleSteps
  <2>3. VelocityOK'
    BY <2>1, RiskAssumption DEF RiskInv, RiskTypes, VelocityOK
  <2> QED
    BY <2>1, <2>2, <2>3 DEF RiskInv, RiskTypes, rowVars
<1>8. CASE ExpiryLost \/ LastLoginFails \/ SaveHistoryFails
  <2>1. /\ step \in RuleSteps /\ step' \in RuleSteps \cup {"mark"}
        /\ UNCHANGED <<time, rowVars, velocity, born, handled, history, todo, score>>
    BY <1>8 DEF ExpiryLost, LastLoginFails, SaveHistoryFails, RuleSteps, counterVars
  <2>2. BatchOK' /\ MarkedWereAnalysed'
    BY <2>1, SameEvent DEF RuleSteps
  <2> QED
    BY <2>1, <2>2 DEF RiskInv, RiskTypes, VelocityOK, rowVars
<1>9. CASE EvaluateTravel
  <2>1. /\ step = "travel" /\ step' = "save"
        /\ UNCHANGED <<time, rowVars, velocity, born, handled, history, todo>>
        /\ score' \subseteq score \cup {"travel"}
    BY <1>9 DEF EvaluateTravel, counterVars
  <2>2. BatchOK' /\ MarkedWereAnalysed'
    BY <2>1, SameEvent DEF RuleSteps
  <2> QED
    BY <2>1, <2>2 DEF RiskInv, RiskTypes, VelocityOK, rowVars
<1>10. CASE SaveHistory
  <2>1. /\ step = "save" /\ step' = "mark"
        /\ history' = history \cup {[ip |-> Ip[Event], at |-> loginAt[Event]]}
        /\ UNCHANGED <<time, rowVars, velocity, born, handled, todo, score>>
    BY <1>10 DEF SaveHistory, counterVars
  <2>2. BatchOK' /\ MarkedWereAnalysed'
    BY <2>1, SameEvent DEF RuleSteps
  <2>3. loginAt[Event] \in 0 .. time
    <3>1. Event \in Logins /\ loginAt[Event] # NotYet
      BY <2>1, HeadOfBatch DEF RiskInv
    <3> QED
      BY <3>1 DEF RiskInv, RiskTypes, NotYet
  <2>4. \A h \in history' : h.at \in 0 .. time
    BY <2>1, <2>3 DEF RiskInv, RiskTypes
  <2> QED
    BY <2>1, <2>2, <2>4 DEF RiskInv, RiskTypes, VelocityOK, rowVars
<1>11. CASE MarkEvent \/ MarkEventFails
  <2>1. /\ step = "mark" /\ NextEvent
        /\ unprocessed' \in {unprocessed, unprocessed \ {Event}}
        /\ UNCHANGED <<time, loginAt, malformed, relayed, velocity, born, handled, history>>
    BY <1>11 DEF MarkEvent, MarkEventFails, rowVars, counterVars
  <2>2. BatchOK' /\ MarkedWereAnalysed' /\ score' = {}
    BY <2>1, NextInBatch
  <2>3. unprocessed' \subseteq unprocessed
    BY <2>1
  <2> QED
    BY <2>1, <2>2, <2>3 DEF RiskInv, RiskTypes, VelocityOK
<1>12. CASE SentinelCrash
  <2>1. /\ step' = "idle" /\ todo' = <<>> /\ score' = {}
        /\ UNCHANGED <<time, loginAt, unprocessed, malformed, relayed, velocity, born, handled,
                       history>>
    BY <1>12 DEF SentinelCrash, rowVars, counterVars
  <2>2. BatchOK'
    BY <2>1 DEF BatchOK, RiskSteps, RuleSteps
  <2> QED
    BY <2>1, <2>2 DEF RiskInv, RiskTypes, VelocityOK, MarkedWereAnalysed
<1>13. CASE NothingFetched
  BY <1>1, <1>13 DEF NothingFetched
<1>14. ASSUME NEW e \in Logins, RelayMarks(e) PROVE RiskInv'
  <2>1. /\ unprocessed' = unprocessed \ {e} /\ relayed' = relayed \cup {e}
        /\ UNCHANGED <<time, loginAt, malformed, velocity, born, handled, history, step, todo,
                       score>>
    BY <1>14 DEF RelayMarks, counterVars
  <2>2. RiskTypes'
    BY <2>1 DEF RiskInv, RiskTypes
  <2>3. BatchOK'
    BY <2>1 DEF RiskInv, BatchOK
  <2>4. MarkedWereAnalysed'
    BY <2>1 DEF RiskInv, MarkedWereAnalysed
  <2> QED
    BY <2>1, <2>2, <2>3, <2>4 DEF RiskInv, VelocityOK
<1> QED
  BY <1>1, <1>2, <1>3, <1>4, <1>5, <1>6, <1>7, <1>8, <1>9, <1>10, <1>11, <1>12, <1>13, <1>14
  DEF RiskNext, SentinelWorks

\* processEvents: a login that can be read is marked by the worker only after its
\* analysis, for batches of any size, marks that fail, crashes between any two
\* commands, rows the relay takes and logins that arrive meanwhile; a counter in
\* Redis never outlives its expiry.
THEOREM MarksCorrect == RiskSpec => []MarksSound
<1>1. ASSUME RiskInv PROVE MarksSound
  <2>1. RiskTypeOK
    BY <1>1, HeadOfBatch
    DEF RiskInv, RiskTypes, VelocityOK, BatchOK, RiskTypeOK
  <2> QED
    BY <1>1, <2>1 DEF RiskInv, MarksSound
<1> QED
  BY <1>1, InitRisk, StepRisk, PTL DEF RiskSpec

-----------------------------------------------------------------------------
(* RiskSentinel: every alarm has a cause.                                  *)

InBatch(e) == \E i \in 1 .. Len(todo) : todo[i] = e

\* A login that can still be analysed for the first time: in the table, or taken
\* by the relay while it was in the batch.
Unseen(e) ==
    /\ loginAt[e] # NotYet /\ handled[e] = 0 /\ e \notin malformed
    /\ e \in unprocessed \/ InBatch(e)

\* FetchUnprocessed takes the oldest first: no login outside the batch that
\* still waits is older than one inside it.
BatchInOrder ==
    /\ \A i, j \in 1 .. Len(todo) : i < j => loginAt[todo[i]] <= loginAt[todo[j]]
    /\ \A e \in Logins : Unseen(e) /\ ~InBatch(e) =>
          \A i \in 1 .. Len(todo) : loginAt[todo[i]] <= loginAt[e]

\* So login_history holds nothing later than a login that waits, nor than the
\* one at hand when it is analysed for the first time.
HistoryInOrder ==
    /\ \A h \in history, e \in Logins : Unseen(e) => h.at <= loginAt[e]
    /\ step \in RuleSteps /\ handled[todo[1]] = 1 =>
          \A h \in history : h.at <= loginAt[todo[1]]

Tallied == {e \in Logins : countedAt[e] # NotYet}
TalliedSince(b) == {e \in Tallied : countedAt[e] >= b}

\* As long as no login was analysed twice, the counter stands for as many
\* logins counted since its key was created.
CounterBacked ==
    /\ countedAt \in [Logins -> Int]
    /\ \A e \in Logins : countedAt[e] # NotYet => handled[e] > 0
    /\ IsFiniteSet(Tallied)
    /\ (\A e \in Logins : handled[e] <= 1) /\ velocity.count > 0 =>
          Cardinality(TalliedSince(born)) >= velocity.count

\* No rule has answered for the login at hand before it was asked.
RulesPending ==
    /\ step = "incr" => score = {}
    /\ step \in {"expire", "travel"} => "travel" \notin score

AlarmInv == RiskInv /\ BatchInOrder /\ HistoryInOrder /\ CounterBacked /\ RulesPending

LEMMA InitAlarm == RiskInit => AlarmInv
<1> SUFFICES ASSUME RiskInit PROVE AlarmInv
  OBVIOUS
<1>1. BatchInOrder /\ HistoryInOrder
  BY DEF RiskInit, BatchInOrder, HistoryInOrder, RuleSteps
<1>2. Tallied = {} /\ countedAt \in [Logins -> Int] /\ velocity.count = 0
      /\ \A e \in Logins : countedAt[e] = NotYet
  BY DEF RiskInit, Tallied, NotYet, NoVelocity
<1>3. CounterBacked
  BY <1>2, FS_EmptySet DEF CounterBacked
<1>4. RulesPending
  BY DEF RiskInit, RulesPending
<1> QED
  BY <1>1, <1>3, <1>4, InitRisk DEF AlarmInv

\* The worker moves on with the login at hand, or the clock does.
LEMMA OrderStays ==
    ASSUME AlarmInv, UNCHANGED <<loginAt, malformed, handled, history, todo>>,
           unprocessed' \subseteq unprocessed,
           step' \notin RuleSteps \/ step \in RuleSteps
    PROVE  BatchInOrder' /\ HistoryInOrder'
<1>1. (\A e \in Logins : Unseen(e)' => Unseen(e)) /\ (\A e \in Logins : InBatch(e)' <=> InBatch(e))
  BY DEF Unseen, InBatch
<1>2. BatchInOrder'
  BY <1>1 DEF AlarmInv, BatchInOrder
<1>3. HistoryInOrder'
  BY <1>1 DEF AlarmInv, HistoryInOrder
<1> QED
  BY <1>2, <1>3

LEMMA CounterStays ==
    ASSUME AlarmInv, countedAt' = countedAt,
           \/ velocity'.count = velocity.count /\ born' = born
           \/ velocity'.count = 0,
           handled' \in [Logins -> Nat], \A e \in Logins : handled[e] <= handled'[e]
    PROVE  CounterBacked'
<1>1. Tallied' = Tallied
  BY DEF Tallied
<1>2. handled \in [Logins -> Nat] /\ velocity.count \in Nat
  BY DEF AlarmInv, RiskInv, RiskTypes, VelocityOK
<1>3. \A e \in Logins : /\ handled[e] > 0 => handled'[e] > 0
                        /\ handled'[e] <= 1 => handled[e] <= 1
  BY <1>2
<1>4. ASSUME \A e \in Logins : handled'[e] <= 1, velocity'.count > 0
      PROVE  Cardinality(TalliedSince(born))' >= velocity'.count
  <2>1. velocity'.count = velocity.count /\ born' = born
    BY <1>4
  <2>2. TalliedSince(born)' = TalliedSince(born)
    BY <2>1 DEF Tallied, TalliedSince
  <2> QED
    BY <1>3, <1>4, <2>1, <2>2 DEF AlarmInv, CounterBacked
<1> QED
  BY <1>1, <1>3, <1>4 DEF AlarmInv, CounterBacked

\* The first rule takes the login at hand: from now on it has been analysed.
LEMMA TakeUp ==
    ASSUME AlarmInv, step = "incr", Event \notin malformed,
           UNCHANGED <<rowVars, history, todo>>,
           handled' = [handled EXCEPT ![Event] = @ + 1]
    PROVE  /\ BatchInOrder' /\ HistoryInOrder'
           /\ handled' \in [Logins -> Nat]
           /\ \A e \in Logins : handled'[e] = IF e = Event THEN handled[e] + 1 ELSE handled[e]
<1>1. Event \in Logins /\ Event = todo[1] /\ loginAt[Event] # NotYet
  BY HeadOfBatch DEF AlarmInv, RiskInv
<1>2. handled \in [Logins -> Nat]
  BY DEF AlarmInv, RiskInv, RiskTypes
<1>3. /\ handled' \in [Logins -> Nat]
      /\ \A e \in Logins : handled'[e] = IF e = Event THEN handled[e] + 1 ELSE handled[e]
  BY <1>1, <1>2
<1>4. \A e \in Logins : /\ Unseen(e)' => Unseen(e)
                        /\ InBatch(e)' <=> InBatch(e)
  BY <1>2, <1>3 DEF Unseen, InBatch, rowVars
<1>5. BatchInOrder'
  BY <1>4 DEF AlarmInv, BatchInOrder, rowVars
<1>6. handled'[todo[1]] = 1 => Unseen(todo[1])
  <2>1. InBatch(Event)
    BY <1>1, HeadOfBatch DEF AlarmInv, RiskInv, InBatch
  <2> QED
    BY <1>1, <1>2, <1>3, <2>1 DEF Unseen
<1>7. HistoryInOrder'
  BY <1>1, <1>4, <1>6 DEF AlarmInv, HistoryInOrder, rowVars
<1> QED
  BY <1>3, <1>5, <1>7

\* VelocityRule counts the login at hand.  Tallied for the first time, it is one
\* more login since the key was created.
LEMMA CountStep ==
    ASSUME AlarmInv, step = "incr", Event \notin malformed, CountLogin,
           handled' = [handled EXCEPT ![Event] = @ + 1],
           UNCHANGED <<time, rowVars, history, todo>>
    PROVE  /\ CounterBacked'
           /\ IsFiniteSet(Tallied')
           /\ (\A e \in Logins : handled'[e] <= 1) =>
                 Cardinality(TalliedSince(born)') >= velocity.count + 1
<1>1. /\ Event \in Logins /\ time \in Nat /\ handled \in [Logins -> Nat]
      /\ velocity \in [count : Nat, expires : Int] /\ velocity.count \in Nat
      /\ velocity.count > 0 => born \in 0 .. time
      /\ countedAt \in [Logins -> Int]
  BY HeadOfBatch DEF AlarmInv, RiskInv, RiskTypes, VelocityOK, CounterBacked
<1>2. /\ velocity' = [velocity EXCEPT !.count = velocity.count + 1]
      /\ born' = IF velocity.count = 0 THEN time ELSE born
      /\ countedAt' = [countedAt EXCEPT ![Event] = time]
  BY DEF CountLogin
<1>3. /\ handled' \in [Logins -> Nat]
      /\ \A e \in Logins : handled'[e] = IF e = Event THEN handled[e] + 1 ELSE handled[e]
  BY TakeUp
<1>4. velocity'.count = velocity.count + 1
  BY <1>1, <1>2
<1>5. /\ countedAt' \in [Logins -> Int]
      /\ \A e \in Logins : countedAt'[e] = IF e = Event THEN time ELSE countedAt[e]
  BY <1>1, <1>2
<1>6. Tallied' = Tallied \cup {Event}
  BY <1>1, <1>5 DEF Tallied, NotYet
<1>7. IsFiniteSet(Tallied) /\ IsFiniteSet(Tallied')
  BY <1>6, FS_AddElement DEF AlarmInv, CounterBacked
<1>8. ASSUME \A e \in Logins : handled'[e] <= 1
      PROVE  Cardinality(TalliedSince(born)') >= velocity.count + 1
  <2>1. handled[Event] = 0 /\ Event \notin Tallied
    BY <1>1, <1>3, <1>8 DEF AlarmInv, CounterBacked, Tallied
  <2>2. \A e \in Logins : handled[e] <= 1
    BY <1>1, <1>3, <1>8
  <2>3. CASE velocity.count = 0
    <3>1. Event \in TalliedSince(born)'
      BY <1>1, <1>2, <1>5, <1>6, <2>3 DEF TalliedSince
    <3>2. TalliedSince(born)' \in SUBSET Tallied'
      BY DEF TalliedSince
    <3>3. IsFiniteSet(TalliedSince(born)')
      BY <1>7, <3>2, FS_Subset
    <3>4. Cardinality(TalliedSince(born)') \in Nat /\ Cardinality(TalliedSince(born)') # 0
      BY <3>1, <3>3, FS_EmptySet, FS_CardinalityType
    <3> QED
      BY <2>3, <3>4
  <2>4. CASE velocity.count > 0
    <3>1. born' = born /\ born \in 0 .. time
      BY <1>1, <1>2, <2>4
    <3>2. TalliedSince(born)' = TalliedSince(born) \cup {Event}
      BY <1>1, <1>5, <1>6, <2>1, <3>1 DEF TalliedSince, Tallied
    <3>3. TalliedSince(born) \in SUBSET Tallied /\ Event \notin TalliedSince(born)
      BY <2>1 DEF TalliedSince
    <3>4. IsFiniteSet(TalliedSince(born))
      BY <1>7, <3>3, FS_Subset
    <3>5. Cardinality(TalliedSince(born)') = Cardinality(TalliedSince(born)) + 1
      BY <3>2, <3>3, <3>4, FS_AddElement
    <3>6. Cardinality(TalliedSince(born)) \in Nat
      BY <3>4, FS_CardinalityType
    <3>7. Cardinality(TalliedSince(born)) >= velocity.count
      BY <2>2, <2>4 DEF AlarmInv, CounterBacked
    <3> QED
      BY <1>1, <3>5, <3>6, <3>7
  <2> QED
    BY <1>1, <2>3, <2>4
<1>9. \A e \in Logins : countedAt'[e] # NotYet => handled'[e] > 0
  BY <1>1, <1>3, <1>5 DEF AlarmInv, CounterBacked
<1> QED
  BY <1>4, <1>5, <1>7, <1>8, <1>9 DEF CounterBacked

LEMMA FetchInOrder ==
    ASSUME AlarmInv, FetchEvents
    PROVE  BatchInOrder' /\ HistoryInOrder'
<1>1. PICK s \in OldestLogins : todo' = s
  BY DEF FetchEvents
<1>2. step' = "incr" /\ UNCHANGED <<loginAt, unprocessed, malformed, handled, history>>
  BY DEF FetchEvents, rowVars
<1>3. PICK k \in 1 .. Batch : s \in [1 .. k -> unprocessed]
  BY <1>1 DEF OldestLogins
<1>4. DOMAIN s = 1 .. k /\ Len(s) = k
  BY <1>3, RiskAssumption
<1>5. /\ \A i, j \in 1 .. k : i < j => loginAt[s[i]] <= loginAt[s[j]]
      /\ \A e \in unprocessed : (\A i \in 1 .. k : s[i] # e) =>
            \A i \in 1 .. k : loginAt[s[i]] <= loginAt[e]
  BY <1>1, <1>4 DEF OldestLogins
<1>6. \A e \in Logins : /\ Unseen(e)' => Unseen(e) /\ e \in unprocessed
                        /\ ~InBatch(e)' => \A i \in 1 .. k : s[i] # e
  <2>1. \A e \in Logins : InBatch(e)' => e \in unprocessed
    BY <1>1, <1>3, <1>4 DEF InBatch
  <2>2. \A e \in Logins : Unseen(e)' => Unseen(e) /\ e \in unprocessed
    BY <1>2, <2>1 DEF Unseen
  <2>3. \A e \in Logins : ~InBatch(e)' => \A i \in 1 .. k : s[i] # e
    BY <1>1, <1>4 DEF InBatch
  <2> QED
    BY <2>1, <2>2, <2>3
<1>7. BatchInOrder'
  BY <1>1, <1>2, <1>4, <1>5, <1>6 DEF BatchInOrder
<1>8. HistoryInOrder'
  BY <1>2, <1>6 DEF AlarmInv, HistoryInOrder, RuleSteps
<1> QED
  BY <1>7, <1>8

LEMMA RulesStep ==
    ASSUME AlarmInv, [RiskNext]_riskVars
    PROVE  RulesPending'
<1>1. CASE \/ UNCHANGED riskVars \/ NothingFetched \/ RiskTick
           \/ \E e \in Logins : LoginHappens(e) \/ RelayMarks(e)
  <2>1. UNCHANGED <<step, score>>
    BY <1>1 DEF riskVars, NothingFetched, RiskTick, LoginHappens, RelayMarks
  <2> QED
    BY <2>1 DEF AlarmInv, RulesPending
<1>2. CASE FetchEvents \/ MarkEvent \/ MarkEventFails \/ SentinelCrash \/ SkipMalformed
  BY <1>2 DEF FetchEvents, MarkEvent, MarkEventFails, SentinelCrash, SkipMalformed, NextEvent,
              RulesPending
<1>3. CASE EvaluateVelocity
  <2>1. score' \subseteq {"velocity"} /\ step' \in {"expire", "travel"}
    BY <1>3 DEF EvaluateVelocity
  <2> QED
    BY <2>1 DEF RulesPending
<1>4. CASE VelocityFails \/ SetExpiry \/ ExpiryLost
  BY <1>4 DEF VelocityFails, SetExpiry, ExpiryLost, AlarmInv, RulesPending
<1>5. CASE EvaluateTravel \/ LastLoginFails \/ SaveHistory \/ SaveHistoryFails
  BY <1>5 DEF EvaluateTravel, LastLoginFails, SaveHistory, SaveHistoryFails, RulesPending
<1> QED
  BY <1>1, <1>2, <1>3, <1>4, <1>5 DEF RiskNext, SentinelWorks

LEMMA StepAlarm == AlarmInv /\ [RiskNext]_riskVars => AlarmInv'
<1> SUFFICES ASSUME AlarmInv, [RiskNext]_riskVars PROVE AlarmInv'
  OBVIOUS
<1>0. RiskInv'
  BY StepRisk DEF AlarmInv
<1>a. handled \in [Logins -> Nat] /\ velocity \in [count : Nat, expires : Int]
      /\ \A e \in Logins : handled[e] <= handled[e]
  BY DEF AlarmInv, RiskInv, RiskTypes, VelocityOK
<1>b. RulesPending'
  BY RulesStep
<1>1. CASE UNCHANGED riskVars
  <2>1. UNCHANGED <<velocity, born, countedAt, handled, loginAt, malformed, unprocessed,
                    history, step, todo>>
    BY <1>1 DEF riskVars
  <2> QED
    BY <1>0, <1>a, <1>b, <2>1, OrderStays, CounterStays DEF AlarmInv
<1>2. ASSUME NEW e \in Logins, LoginHappens(e) PROVE AlarmInv'
  <2>1. /\ loginAt[e] = NotYet /\ loginAt'[e] = time
        /\ \A f \in Logins : f # e => loginAt'[f] = loginAt[f]
        /\ unprocessed' = unprocessed \cup {e} /\ malformed \subseteq malformed'
        /\ UNCHANGED <<velocity, born, countedAt, handled, history, step, todo>>
    BY <1>2 DEF LoginHappens, AlarmInv, RiskInv, RiskTypes, counterVars
  <2>2. /\ \A i \in 1 .. Len(todo) : todo[i] \in Logins /\ todo[i] # e
        /\ \A i \in 1 .. Len(todo) : loginAt[todo[i]] <= time
        /\ \A h \in history : h.at <= time
    BY <2>1 DEF AlarmInv, RiskInv, RiskTypes, BatchOK
  <2>3. /\ \A i \in 1 .. Len(todo) : loginAt'[todo[i]] = loginAt[todo[i]]
        /\ \A f \in Logins : f # e => (Unseen(f)' => Unseen(f))
        /\ \A f \in Logins : InBatch(f)' <=> InBatch(f)
    BY <2>1, <2>2 DEF Unseen, InBatch
  <2>4. BatchInOrder'
    BY <2>1, <2>2, <2>3 DEF AlarmInv, BatchInOrder
  <2>5. \A h \in history, f \in Logins : Unseen(f)' => h.at <= loginAt'[f]
    BY <2>1, <2>2, <2>3 DEF AlarmInv, HistoryInOrder
  <2>6. step \in RuleSteps => 1 \in 1 .. Len(todo)
    BY HeadOfBatch DEF AlarmInv, RiskInv, RuleSteps
  <2>7. HistoryInOrder'
    BY <2>1, <2>3, <2>5, <2>6 DEF AlarmInv, HistoryInOrder
  <2> QED
    BY <1>0, <1>a, <1>b, <2>1, <2>4, <2>7, CounterStays DEF AlarmInv
<1>3. CASE RiskTick
  <2>1. /\ UNCHANGED <<loginAt, malformed, unprocessed, handled, history, todo, step,
                       countedAt>>
        /\ \/ velocity' = NoVelocity
           \/ UNCHANGED <<velocity, born>>
    BY <1>3 DEF RiskTick, rowVars
  <2>2. NoVelocity.count = 0
    BY DEF NoVelocity
  <2>3. CounterBacked'
    BY <1>a, <2>1, <2>2, CounterStays
  <2> QED
    BY <1>0, <1>b, <2>1, <2>3, OrderStays DEF AlarmInv
<1>4. CASE FetchEvents
  <2>1. UNCHANGED <<velocity, born, countedAt, handled>>
    BY <1>4 DEF FetchEvents, counterVars
  <2> QED
    BY <1>0, <1>b, <1>4, <1>a, <2>1, FetchInOrder, CounterStays DEF AlarmInv
<1>5. CASE EvaluateVelocity \/ VelocityFails
  <2>1. /\ step = "incr" /\ Event \notin malformed
        /\ CountLogin \/ UNCHANGED <<velocity, born, countedAt>>
        /\ handled' = [handled EXCEPT ![Event] = @ + 1]
        /\ UNCHANGED <<time, rowVars, history, todo>>
    BY <1>5 DEF EvaluateVelocity, VelocityFails, counterVars
  <2>2. /\ BatchInOrder' /\ HistoryInOrder' /\ handled' \in [Logins -> Nat]
        /\ \A e \in Logins : handled'[e] = IF e = Event THEN handled[e] + 1 ELSE handled[e]
    BY <2>1, TakeUp
  <2>3. \A e \in Logins : handled[e] <= handled'[e]
    BY <1>a, <2>2
  <2>4. CounterBacked'
    <3>1. CASE CountLogin
      BY <2>1, <3>1, CountStep
    <3>2. CASE UNCHANGED <<velocity, born, countedAt>>
      BY <2>2, <2>3, <3>2, CounterStays
    <3> QED
      BY <2>1, <3>1, <3>2
  <2> QED
    BY <1>0, <1>b, <2>2, <2>4 DEF AlarmInv
<1>6. CASE SkipMalformed \/ \E e \in Logins : RelayMarks(e)
  <2>1. /\ UNCHANGED <<loginAt, malformed, handled, history, todo, velocity, born, countedAt>>
        /\ unprocessed' \subseteq unprocessed
        /\ step' = step \/ step' = "mark"
    BY <1>6 DEF SkipMalformed, RelayMarks, rowVars, counterVars
  <2>2. step' \notin RuleSteps \/ step \in RuleSteps
    BY <2>1 DEF RuleSteps
  <2>3. CounterBacked'
    BY <1>a, <2>1, CounterStays
  <2> QED
    BY <1>0, <1>b, <2>1, <2>2, <2>3, OrderStays DEF AlarmInv
<1>7. CASE SetExpiry \/ ExpiryLost \/ EvaluateTravel \/ LastLoginFails \/ SaveHistoryFails
  <2>1. /\ UNCHANGED <<loginAt, malformed, unprocessed, handled, history, todo, born, countedAt>>
        /\ step \in RuleSteps
    BY <1>7 DEF SetExpiry, ExpiryLost, EvaluateTravel, LastLoginFails, SaveHistoryFails,
                rowVars, counterVars, RuleSteps
  <2>2. velocity'.count = velocity.count
    BY <1>7, <1>a DEF SetExpiry, ExpiryLost, EvaluateTravel, LastLoginFails, SaveHistoryFails,
                      counterVars
  <2>3. CounterBacked'
    BY <1>a, <2>1, <2>2, CounterStays
  <2> QED
    BY <1>0, <1>b, <2>1, <2>3, OrderStays DEF AlarmInv
<1>8. CASE SaveHistory
  <2>1. /\ step = "save"
        /\ history' = history \cup {[ip |-> Ip[Event], at |-> loginAt[Event]]}
        /\ step' = "mark"
        /\ UNCHANGED <<loginAt, malformed, unprocessed, velocity, born, countedAt, handled, todo>>
    BY <1>8 DEF SaveHistory, rowVars, counterVars
  <2>2. /\ Event = todo[1] /\ Event \in Logins /\ 1 \in 1 .. Len(todo) /\ handled[Event] > 0
        /\ loginAt[Event] \in Int
    BY <2>1, HeadOfBatch DEF AlarmInv, RiskInv, RiskTypes, BatchOK, RuleSteps
  <2>3. \A h \in history' : h \in history \/ h.at = loginAt[Event]
    BY <2>1
  <2>4. ASSUME NEW e \in Logins, Unseen(e) PROVE loginAt[Event] <= loginAt[e]
    <3>1. CASE InBatch(e)
      <4>1. PICK i \in 1 .. Len(todo) : todo[i] = e
        BY <3>1 DEF InBatch
      <4>2. i # 1
        BY <2>2, <2>4, <4>1 DEF Unseen
      <4>3. 1 < i
        BY <4>1, <4>2
      <4> QED
        BY <2>2, <4>1, <4>3 DEF AlarmInv, BatchInOrder
    <3>2. CASE ~InBatch(e)
      BY <2>2, <2>4, <3>2 DEF AlarmInv, BatchInOrder
    <3> QED
      BY <3>1, <3>2
  <2>5. (\A e \in Logins : Unseen(e)' <=> Unseen(e)) /\ (\A e \in Logins : InBatch(e)' <=> InBatch(e))
    BY <2>1 DEF Unseen, InBatch
  <2>6. BatchInOrder'
    BY <2>1, <2>5 DEF AlarmInv, BatchInOrder
  <2>7. \A h \in history', e \in Logins : Unseen(e) => h.at <= loginAt[e]
    BY <2>3, <2>4 DEF AlarmInv, HistoryInOrder
  <2>8. HistoryInOrder'
    BY <2>1, <2>5, <2>7 DEF HistoryInOrder, RuleSteps
  <2> QED
    BY <1>0, <1>a, <1>b, <2>1, <2>6, <2>8, CounterStays DEF AlarmInv
<1>9. CASE MarkEvent \/ MarkEventFails
  <2>1. /\ step = "mark" /\ NextEvent
        /\ unprocessed' \subseteq unprocessed
        /\ UNCHANGED <<loginAt, malformed, velocity, born, countedAt, handled, history>>
    BY <1>9 DEF MarkEvent, MarkEventFails, rowVars, counterVars
  <2>2. /\ Event = todo[1] /\ todo[1] \in Logins
        /\ handled[todo[1]] > 0 \/ todo[1] \in malformed
        /\ todo \in Seq(Logins) /\ Len(todo) \in Nat /\ Len(todo) >= 1
    BY <2>1, HeadOfBatch DEF AlarmInv, RiskInv, BatchOK
  <2>3. /\ step' \in {"idle", "incr"} /\ Len(todo') = Len(todo) - 1
        /\ \A i \in 1 .. Len(todo') : i + 1 \in 1 .. Len(todo) /\ todo'[i] = todo[i + 1]
    BY <2>1, <2>2 DEF NextEvent
  <2>4. \A i \in 2 .. Len(todo) : i - 1 \in 1 .. Len(todo') /\ todo'[i - 1] = todo[i]
    BY <2>2, <2>3
  <2>5. ASSUME NEW e \in Logins, Unseen(e), ~InBatch(e)' PROVE ~InBatch(e)
    <3>1. SUFFICES ASSUME NEW i \in 1 .. Len(todo), todo[i] = e PROVE FALSE
      BY DEF InBatch
    <3>2. i # 1
      BY <2>2, <2>5, <3>1 DEF Unseen
    <3>3. i \in 2 .. Len(todo)
      BY <2>2, <3>2
    <3> QED
      BY <2>4, <2>5, <3>1, <3>3 DEF InBatch
  <2>6. \A e \in Logins : Unseen(e)' => Unseen(e)
    <3>1. \A e \in Logins : InBatch(e)' => InBatch(e)
      BY <2>3 DEF InBatch
    <3> QED
      BY <2>1, <3>1 DEF Unseen
  <2>7. \A i, j \in 1 .. Len(todo') : i < j => loginAt[todo'[i]] <= loginAt[todo'[j]]
    <3>1. \A i, j \in 1 .. Len(todo') : i < j => i + 1 < j + 1
      BY <2>2, <2>3
    <3> QED
      BY <2>3, <3>1 DEF AlarmInv, BatchInOrder
  <2>8. \A e \in Logins : Unseen(e) /\ ~InBatch(e)' =>
           \A i \in 1 .. Len(todo') : loginAt[todo'[i]] <= loginAt[e]
    BY <2>3, <2>5 DEF AlarmInv, BatchInOrder
  <2>9. BatchInOrder'
    BY <2>1, <2>6, <2>7, <2>8 DEF BatchInOrder
  <2>10. HistoryInOrder'
    BY <2>1, <2>3, <2>6 DEF AlarmInv, HistoryInOrder, RuleSteps
  <2> QED
    BY <1>0, <1>a, <1>b, <2>1, <2>9, <2>10, CounterStays DEF AlarmInv
<1>10. CASE SentinelCrash
  <2>1. /\ step' = "idle" /\ todo' = <<>>
        /\ UNCHANGED <<loginAt, malformed, unprocessed, velocity, born, countedAt, handled, history>>
    BY <1>10 DEF SentinelCrash, rowVars, counterVars
  <2>2. \A e \in Logins : Unseen(e)' => Unseen(e)
    BY <2>1 DEF Unseen, InBatch
  <2>3. BatchInOrder' /\ HistoryInOrder'
    BY <2>1, <2>2 DEF AlarmInv, BatchInOrder, HistoryInOrder, RuleSteps
  <2> QED
    BY <1>0, <1>a, <1>b, <2>1, <2>3, CounterStays DEF AlarmInv
<1>11. CASE NothingFetched
  BY <1>1, <1>11 DEF NothingFetched
<1> QED
  BY <1>1, <1>2, <1>3, <1>4, <1>5, <1>6, <1>7, <1>8, <1>9, <1>10, <1>11
  DEF RiskNext, SentinelWorks

\* Only the two rules raise an alarm.
LEMMA AlarmsByRules ==
    ASSUME AlarmInv, [RiskNext]_riskVars
    PROVE  /\ step = "incr" /\ "velocity" \in score' => EvaluateVelocity
           /\ step = "travel" /\ "travel" \in score' => EvaluateTravel
<1>1. /\ step = "incr" => "velocity" \notin score
      /\ step = "travel" => "travel" \notin score
  BY DEF AlarmInv, RulesPending
<1>2. \/ EvaluateVelocity \/ EvaluateTravel \/ score' = score
      \/ step \notin {"incr", "travel"} \/ score' = {}
  BY DEF RiskNext, SentinelWorks, riskVars, LoginHappens, RelayMarks, RiskTick, FetchEvents,
         SkipMalformed, SetExpiry, SaveHistory, MarkEvent, NothingFetched, VelocityFails, ExpiryLost, LastLoginFails,
         SaveHistoryFails, MarkEventFails, SentinelCrash
<1>3. (EvaluateVelocity => step = "incr") /\ (EvaluateTravel => step = "travel")
  BY DEF EvaluateVelocity, EvaluateTravel
<1> QED
  BY <1>1, <1>2, <1>3

LEMMA VelocityCause ==
    ASSUME AlarmInv, EvaluateVelocity, "velocity" \in score',
           \A e \in Logins : ~(handled'[e] > 1),
           ~(velocity.count > 0 /\ velocity.expires # born + Window)
    PROVE  Cardinality(RecentlyCounted) > VLimit
<1>1. /\ time \in Nat /\ velocity.count \in Nat /\ velocity.expires \in Int
      /\ velocity.count > 0 => born \in 0 .. time
      /\ velocity.expires # Never => velocity.expires > time
      /\ countedAt \in [Logins -> Int] /\ Event \in Logins
      /\ Window \in Nat \ {0} /\ VLimit \in Nat
  BY HeadOfBatch, RiskAssumption
  DEF AlarmInv, RiskInv, RiskTypes, VelocityOK, CounterBacked, EvaluateVelocity
<1>2. velocity.count + 1 > VLimit
  BY DEF EvaluateVelocity, OverLimit
<1>3. /\ born' = IF velocity.count = 0 THEN time ELSE born
      /\ countedAt' = [countedAt EXCEPT ![Event] = time] /\ time' = time
  BY DEF EvaluateVelocity, CountLogin
<1>4. countedAt' \in [Logins -> Int]
  BY <1>1, <1>3
<1>5. \A e \in Logins : handled'[e] <= 1
  <2>1. handled' \in [Logins -> Nat]
    BY TakeUp DEF EvaluateVelocity
  <2> QED
    BY <2>1
<1>6. IsFiniteSet(Tallied') /\ Cardinality(TalliedSince(born)') >= velocity.count + 1
  BY <1>5, CountStep DEF EvaluateVelocity
<1>7. born' \in Int /\ time - born' < Window
  <2>1. CASE velocity.count = 0
    BY <1>1, <1>3, <2>1
  <2>2. CASE velocity.count > 0
    <3>1. born' = born /\ velocity.expires = born + Window
      BY <1>1, <1>3, <2>2
    <3>2. velocity.expires # Never
      BY <1>1, <2>2, <3>1 DEF Never
    <3> QED
      BY <1>1, <2>2, <3>1, <3>2
  <2> QED
    BY <1>1, <2>1, <2>2
<1>8. TalliedSince(born)' \subseteq RecentlyCounted
  <2>1. ASSUME NEW e \in TalliedSince(born)' PROVE e \in RecentlyCounted
    <3>1. e \in Logins /\ countedAt'[e] # NotYet /\ countedAt'[e] >= born'
      BY <2>1 DEF TalliedSince, Tallied
    <3>2. countedAt'[e] \in Int
      BY <1>4, <3>1
    <3>3. time - countedAt'[e] < Window
      <4>1. \A t, c, b, w \in Int : c >= b /\ t - b < w => t - c < w
        OBVIOUS
      <4>2. time \in Int /\ born' \in Int /\ Window \in Int
        BY <1>1, <1>7
      <4> QED
        BY <1>7, <3>1, <3>2, <4>1, <4>2
    <3> QED
      BY <3>1, <3>3 DEF RecentlyCounted
  <2> QED
    BY <2>1
<1>9. RecentlyCounted \in SUBSET Tallied'
  BY DEF RecentlyCounted, Tallied
<1>10. IsFiniteSet(RecentlyCounted)
  BY <1>6, <1>9, FS_Subset
<1>11. /\ Cardinality(TalliedSince(born)') <= Cardinality(RecentlyCounted)
       /\ IsFiniteSet(TalliedSince(born)')
  BY <1>8, <1>10, FS_Subset
<1>12. Cardinality(TalliedSince(born)') \in Nat /\ Cardinality(RecentlyCounted) \in Nat
  BY <1>10, <1>11, FS_CardinalityType
<1> QED
  BY <1>1, <1>2, <1>6, <1>11, <1>12

LEMMA TravelCause ==
    ASSUME AlarmInv, EvaluateTravel, "travel" \in score'
    PROVE  \E h \in history :
              /\ h.ip # Ip[Event]
              /\ \/ h.at - loginAt[Event] \in (1 - Span) .. (Span - 1)
                 \/ h.at > loginAt[Event] /\ handled[Event] > 1
<1>1. step = "travel" /\ "travel" \notin score
  BY DEF EvaluateTravel, AlarmInv, RulesPending
<1>2. PICK h \in history : Impossible(h, Event)
  BY <1>1 DEF EvaluateTravel, LastLogin
<1>3. h.ip # Ip[Event] /\ time - h.at < Span
  BY <1>2 DEF Impossible
<1>4. /\ Event \in Logins /\ Event = todo[1] /\ handled[Event] > 0 /\ handled[Event] \in Nat
      /\ loginAt[Event] \in Int /\ loginAt[Event] <= time /\ time \in Nat
      /\ h.at \in Int /\ h.at <= time /\ Span \in Nat \ {0}
  <2>1. Event \in Logins /\ Event = todo[1] /\ handled[Event] > 0
    BY <1>1, HeadOfBatch DEF AlarmInv, RiskInv, BatchOK, RuleSteps
  <2> QED
    BY <1>2, <2>1, RiskAssumption DEF AlarmInv, RiskInv, RiskTypes, NotYet
<1>5. handled[Event] = 1 => h.at <= loginAt[Event]
  BY <1>1, <1>2, <1>4 DEF AlarmInv, HistoryInOrder, RuleSteps
<1>6. h.at <= loginAt[Event] => h.at - loginAt[Event] \in (1 - Span) .. (Span - 1)
  BY <1>3, <1>4
<1>7. handled[Event] > 1 \/ handled[Event] = 1
  BY <1>4
<1>8. h.at <= loginAt[Event] \/ h.at > loginAt[Event]
  BY <1>4
<1> QED
  BY <1>2, <1>3, <1>5, <1>6, <1>7, <1>8

\* VelocityRule and ImpossibleTravelRule: for any limit, window and number of
\* logins, with failing commands, lost marks and crashes, an alarm has the cause
\* the rule stands for.
THEOREM AlarmCorrect == RiskSpec => AlarmExplained
<1>1. AlarmInv /\ [RiskNext]_riskVars => [VelocityExplained /\ TravelExplained]_riskVars
  <2> SUFFICES ASSUME AlarmInv, [RiskNext]_riskVars
               PROVE  VelocityExplained /\ TravelExplained
    OBVIOUS
  <2>1. VelocityExplained
    BY AlarmsByRules, VelocityCause DEF VelocityExplained
  <2>2. TravelExplained
    BY AlarmsByRules, TravelCause DEF TravelExplained
  <2> QED
    BY <2>1, <2>2
<1> QED
  BY <1>1, InitAlarm, StepAlarm, PTL DEF RiskSpec, AlarmExplained

-----------------------------------------------------------------------------
(* Documents: the breaker counts the calls of its generation.              *)

BreakerStates == {"closed", "open", "half-open"}

BreakerRecord ==
    [state : BreakerStates, requests : 0 .. MaxCount, successes : 0 .. MaxCount,
     failures : 0 .. MaxCount, left : 0 .. Interval + Timeout]

CallSteps == {"idle", "execute", "running", "set", "decide", "record"}

CallRecord ==
    [step : CallSteps, counted : BOOLEAN, outcome : Outcomes]

\* Breaker b with n of its calls still running.  A half-open one has neither
\* failed nor succeeded often enough to leave, and an open one has no calls.
BreakerOK(b, n) ==
    /\ b \in BreakerRecord
    /\ b.requests = b.successes + b.failures + n
    /\ b.state = "half-open" => b.failures = 0 /\ b.successes < MaxRequests
    /\ b.state = "open" => b.requests = 0

\* The calls of f that belong to the current generation.
Calls(f) == {q \in Verifiers : f[q].counted = TRUE}

DocumentTypes ==
    /\ serpro \in Verdicts \cup {"error"} /\ answer \in Verdicts \cup {"none"}
    /\ req \in [Verifiers -> CallRecord] /\ told \subseteq Verdicts
    /\ \A q \in Verifiers : /\ req[q].counted = TRUE => req[q].step = "running"
                            /\ req[q].step = "set" => req[q].outcome \in Verdicts

\* Nobody knows of an irregular CPF but from the provider.
VerdictInv ==
    /\ answer = "irregular" => "irregular" \in told
    /\ \A q \in Verifiers : req[q].outcome = "irregular" => "irregular" \in told

DocumentInv ==
    DocumentTypes /\ VerdictInv /\ BreakerOK(breaker, Cardinality(Calls(req)))

LEMMA CallsFinite ==
    ASSUME NEW f
    PROVE  IsFiniteSet(Calls(f)) /\ Cardinality(Calls(f)) \in Nat
<1>1. Calls(f) \in SUBSET Verifiers
  BY DEF Calls
<1>2. IsFiniteSet(Calls(f))
  BY <1>1, FS_Subset, DocumentsAssumption
<1> QED
  BY <1>2, FS_CardinalityType

LEMMA FreshBreaker ==
    ASSUME NEW s \in BreakerStates
    PROVE  BreakerOK(NewGeneration(s), 0) /\ NewGeneration(s).requests = 0
<1>1. PICK n \in 0 .. Interval + Timeout :
          n = CASE s = "closed" -> Interval [] s = "open" -> Timeout
                [] s = "half-open" -> 0
  <2>1. CASE s = "closed"
    BY <2>1, DocumentsAssumption
  <2>2. CASE s = "open"
    BY <2>2, DocumentsAssumption
  <2>3. CASE s = "half-open"
    BY <2>3, DocumentsAssumption
  <2> QED
    BY <2>1, <2>2, <2>3 DEF BreakerStates
<1>2. NewGeneration(s) =
        [state |-> s, requests |-> 0, successes |-> 0, failures |-> 0, left |-> n]
  BY <1>1 DEF NewGeneration
<1>3. 0 \in 0 .. MaxCount /\ 0 < MaxRequests
  BY DocumentsAssumption
<1> QED
  BY <1>2, <1>3 DEF BreakerOK, BreakerRecord

\* beforeRequest lets a call through.
LEMMA BegunCall ==
    ASSUME NEW b, NEW n \in Nat, BreakerOK(b, n), ~Refused(b), b.requests < MaxCount
    PROVE  BreakerOK([b EXCEPT !.requests = @ + 1], n + 1)
<1>1. /\ b \in BreakerRecord /\ b.requests \in Nat /\ b.successes \in Nat
      /\ b.failures \in Nat /\ b.requests + 1 \in 0 .. MaxCount
  BY DocumentsAssumption DEF BreakerOK, BreakerRecord
<1>2. PICK c : c = [b EXCEPT !.requests = @ + 1]
  OBVIOUS
<1>3. /\ c \in BreakerRecord /\ c.requests = b.requests + 1 /\ c.state = b.state
      /\ c.successes = b.successes /\ c.failures = b.failures
  BY <1>1, <1>2 DEF BreakerRecord
<1>4. BreakerOK(c, n + 1)
  BY <1>1, <1>3 DEF BreakerOK, Refused
<1> QED
  BY <1>2, <1>4

\* afterRequest counts a call: a new generation, or one call less is running.
LEMMA EndedCall ==
    ASSUME NEW b, NEW n \in Nat \ {0}, BreakerOK(b, n), NEW ok \in BOOLEAN
    PROVE  \/ Counted(b, ok).requests = 0 /\ BreakerOK(Counted(b, ok), 0)
           \/ Counted(b, ok).requests # 0 /\ BreakerOK(Counted(b, ok), n - 1)
<1>1. /\ b \in BreakerRecord /\ b.requests \in 0 .. MaxCount /\ b.successes \in Nat
      /\ b.failures \in Nat /\ b.requests = b.successes + b.failures + n
      /\ MaxCount \in Nat /\ MaxRequests \in Nat
  BY DocumentsAssumption DEF BreakerOK, BreakerRecord
<1>2. PICK c : c = IF ok THEN [b EXCEPT !.successes = @ + 1] ELSE [b EXCEPT !.failures = @ + 1]
  OBVIOUS
<1>3. /\ c \in BreakerRecord /\ c.requests = b.requests /\ c.state = b.state
      /\ c.successes = IF ok THEN b.successes + 1 ELSE b.successes
      /\ c.failures = IF ok THEN b.failures ELSE b.failures + 1
  <2>1. b.successes + 1 \in 0 .. MaxCount /\ b.failures + 1 \in 0 .. MaxCount
    BY <1>1
  <2>2. CASE ok
    BY <1>1, <1>2, <2>1, <2>2 DEF BreakerRecord
  <2>3. CASE ~ok
    BY <1>1, <1>2, <2>1, <2>3 DEF BreakerRecord
  <2> QED
    BY <2>2, <2>3
<1>4. b.state # "open"
  BY <1>1 DEF BreakerOK
<1>5. \/ Counted(b, ok) \in {NewGeneration("open"), NewGeneration("closed")}
      \/ /\ Counted(b, ok) = c
         /\ b.state = "half-open" => ok /\ c.successes < MaxRequests
  <2>1. b.state \in BreakerStates
    BY <1>1 DEF BreakerRecord
  <2>2. c.successes \in Nat
    BY <1>1, <1>3
  <2>3. Counted(b, ok) =
          CASE b.state = "closed" /\ ~ok /\ ReadyToTrip(c) -> NewGeneration("open")
            [] b.state = "half-open" /\ ~ok -> NewGeneration("open")
            [] b.state = "half-open" /\ ok /\ c.successes >= MaxRequests ->
                  NewGeneration("closed")
            [] OTHER -> c
    BY <1>2 DEF Counted
  <2> QED
    BY <1>1, <2>2, <2>3
<1>6. CASE Counted(b, ok) \in {NewGeneration("open"), NewGeneration("closed")}
  BY <1>6, FreshBreaker DEF BreakerStates
<1>7. CASE /\ Counted(b, ok) = c
           /\ b.state = "half-open" => ok /\ c.successes < MaxRequests
  <2>1. c.requests # 0 /\ c.requests = c.successes + c.failures + (n - 1)
    BY <1>1, <1>3
  <2>2. c.state = "half-open" => c.failures = 0 /\ c.successes < MaxRequests
    BY <1>3, <1>7 DEF BreakerOK
  <2> QED
    BY <1>3, <1>4, <1>7, <2>1, <2>2 DEF BreakerOK
<1> QED
  BY <1>5, <1>6, <1>7

\* currentState keeps the count: a new generation has forgotten its calls.
LEMMA CurrentBreaker ==
    ASSUME DocumentInv
    PROVE  /\ BreakerOK(Current, Cardinality(Calls(CurrentCalls)))
           /\ CurrentCalls \in [Verifiers -> CallRecord]
           /\ \A q \in Verifiers :
                 /\ CurrentCalls[q].step = req[q].step
                 /\ CurrentCalls[q].outcome = req[q].outcome
                 /\ CurrentCalls[q].counted = TRUE => req[q].counted = TRUE
<1>1. req \in [Verifiers -> CallRecord]
  BY DEF DocumentInv, DocumentTypes
<1>2. CASE ~Expired
  BY <1>1, <1>2 DEF Current, CurrentCalls, DocumentInv
<1>3. CASE Expired
  <2>1. CurrentCalls = [q \in Verifiers |-> [req[q] EXCEPT !.counted = FALSE]]
    BY <1>3 DEF CurrentCalls, Forgotten
  <2>2. \A q \in Verifiers : /\ CurrentCalls[q] \in CallRecord
                             /\ CurrentCalls[q].step = req[q].step
                             /\ CurrentCalls[q].outcome = req[q].outcome
                             /\ CurrentCalls[q].counted = FALSE
    BY <1>1, <2>1 DEF CallRecord
  <2>3. Calls(CurrentCalls) = {}
    BY <2>2 DEF Calls
  <2>4. BreakerOK(Current, 0)
    BY <1>3, FreshBreaker DEF Current, BreakerStates
  <2>5. CurrentCalls \in [Verifiers -> CallRecord]
    BY <2>1, <2>2
  <2> QED
    BY <2>2, <2>3, <2>4, <2>5, FS_EmptySet
<1> QED
  BY <1>2, <1>3

\* A request that does not run moves on with a verdict it was told.
LEMMA RequestMoves ==
    ASSUME DocumentInv, NEW p \in Verifiers, NEW r \in CallRecord,
           req' = [req EXCEPT ![p] = r], UNCHANGED <<serpro, breaker, told>>,
           r.counted = FALSE, r.step # "set", req[p].step # "running",
           answer' \in Verdicts \cup {"none"},
           answer' = "irregular" => "irregular" \in told,
           r.outcome = "irregular" => "irregular" \in told
    PROVE  DocumentInv'
<1>1. /\ req' \in [Verifiers -> CallRecord]
      /\ \A q \in Verifiers : req'[q] = IF q = p THEN r ELSE req[q]
  BY DEF DocumentInv, DocumentTypes
<1>2. req[p].counted # TRUE
  BY DEF DocumentInv, DocumentTypes
<1>3. Calls(req') = Calls(req)
  BY <1>1, <1>2 DEF Calls
<1>4. DocumentTypes'
  BY <1>1 DEF DocumentInv, DocumentTypes
<1>5. VerdictInv'
  BY <1>1 DEF DocumentInv, VerdictInv
<1> QED
  BY <1>3, <1>4, <1>5 DEF DocumentInv

LEMMA StepShape ==
    ASSUME DocumentInv, NEW p \in Verifiers, NEW o \in Outcomes,
           NEW s \in CallSteps
    PROVE  /\ Step(p, s, o) \in CallRecord /\ Step(p, s, o).step = s
           /\ Step(p, s, o).outcome = o
           /\ req[p].step # "running" => Step(p, s, o).counted = FALSE
<1>1. /\ req[p] \in CallRecord
      /\ req[p].step # "running" => req[p].counted = FALSE
  BY DEF DocumentInv, DocumentTypes, CallRecord
<1> QED
  BY <1>1 DEF Step, CallRecord

LEMMA ExecuteCallStep ==
    ASSUME DocumentInv, NEW p \in Verifiers, Execute(p)
    PROVE  DocumentInv'
<1>1. /\ req[p].step = "execute" /\ UNCHANGED <<serpro, answer, told>>
      /\ req[p].counted = FALSE
  BY DEF Execute, DocumentInv, DocumentTypes, CallRecord
<1>2. /\ BreakerOK(Current, Cardinality(Calls(CurrentCalls)))
      /\ CurrentCalls \in [Verifiers -> CallRecord]
      /\ \A q \in Verifiers :
            /\ CurrentCalls[q].step = req[q].step
            /\ CurrentCalls[q].outcome = req[q].outcome
            /\ CurrentCalls[q].counted = TRUE => req[q].counted = TRUE
  BY CurrentBreaker
<1>3. p \notin Calls(CurrentCalls)
  BY <1>1, <1>2 DEF Calls
<1>4. \A q \in Verifiers : /\ req[q].counted = TRUE => req[q].step = "running"
                           /\ req[q].step = "set" => req[q].outcome \in Verdicts
                           /\ req[q].outcome = "irregular" => "irregular" \in told
  BY DEF DocumentInv, DocumentTypes, VerdictInv
<1>5. CASE Refused(Current)
  <2> DEFINE r == Step(p, "decide", "error")
  <2>1. breaker' = Current /\ req' = [CurrentCalls EXCEPT ![p] = r]
    BY <1>5 DEF Execute
  <2>2. r \in CallRecord /\ r.step = "decide" /\ r.outcome = "error" /\ r.counted = FALSE
    <3>1. "decide" \in CallSteps /\ "error" \in Outcomes
      BY DEF CallSteps, Outcomes
    <3>2. req[p].step # "running"
      BY <1>1
    <3> QED
      BY <3>1, <3>2, StepShape, ZenonT(30)
  <2> HIDE DEF r
  <2>3. /\ req' \in [Verifiers -> CallRecord]
        /\ \A q \in Verifiers : req'[q] = IF q = p THEN r ELSE CurrentCalls[q]
    BY <1>2, <2>1, <2>2
  <2>4. Calls(req') = Calls(CurrentCalls)
    BY <1>3, <2>2, <2>3 DEF Calls
  <2>5. DocumentTypes'
    BY <1>1, <1>2, <1>4, <2>2, <2>3 DEF DocumentInv, DocumentTypes
  <2>6. VerdictInv'
    BY <1>1, <1>2, <1>4, <2>2, <2>3 DEF DocumentInv, VerdictInv
  <2> QED
    BY <1>2, <2>1, <2>4, <2>5, <2>6 DEF DocumentInv
<1>6. CASE ~Refused(Current)
  <2> DEFINE r == [Step(p, "running", "none") EXCEPT !.counted = TRUE]
  <2>1. /\ Current.requests < MaxCount
        /\ breaker' = [Current EXCEPT !.requests = @ + 1]
        /\ req' = [CurrentCalls EXCEPT ![p] = r]
    BY <1>6 DEF Execute
  <2>2. r \in CallRecord /\ r.step = "running" /\ r.outcome = "none" /\ r.counted = TRUE
    <3>1. /\ Step(p, "running", "none") \in CallRecord
          /\ Step(p, "running", "none").step = "running"
          /\ Step(p, "running", "none").outcome = "none"
      <4>1. "running" \in CallSteps /\ "none" \in Outcomes
        BY DEF CallSteps, Outcomes
      <4> QED
        BY <4>1, StepShape
    <3> QED
      BY <3>1 DEF CallRecord
  <2> HIDE DEF r
  <2>3. /\ req' \in [Verifiers -> CallRecord]
        /\ \A q \in Verifiers : req'[q] = IF q = p THEN r ELSE CurrentCalls[q]
    BY <1>2, <2>1, <2>2
  <2>4. Calls(req') = Calls(CurrentCalls) \cup {p}
    BY <2>2, <2>3 DEF Calls
  <2>5. Cardinality(Calls(req')) = Cardinality(Calls(CurrentCalls)) + 1
    BY <1>3, <2>4, CallsFinite, FS_AddElement
  <2>6. BreakerOK(breaker', Cardinality(Calls(req')))
    BY <1>2, <1>6, <2>1, <2>5, CallsFinite, BegunCall
  <2>7. DocumentTypes'
    BY <1>1, <1>2, <1>4, <2>2, <2>3 DEF DocumentInv, DocumentTypes
  <2>8. VerdictInv'
    BY <1>1, <1>2, <1>4, <2>2, <2>3 DEF DocumentInv, VerdictInv
  <2> QED
    BY <2>6, <2>7, <2>8 DEF DocumentInv
<1> QED
  BY <1>5, <1>6

\* The call of p returns with what the provider said, or fails.
LEMMA ReturnStep ==
    ASSUME DocumentInv, NEW p \in Verifiers, NEW said \in Verdicts \cup {"error"},
           Returned(p, AfterCall(p, said), IF said = "error" THEN "decide" ELSE "set", said),
           told' = told \cup ({said} \cap Verdicts)
    PROVE  DocumentInv'
<1> DEFINE s == IF said = "error" THEN "decide" ELSE "set"
           r == [Step(p, s, said) EXCEPT !.counted = FALSE]
           calls == IF AfterCall(p, said).requests = 0 THEN Forgotten ELSE CurrentCalls
<1>1. /\ req[p].step = "running" /\ breaker' = AfterCall(p, said)
      /\ req' = [calls EXCEPT ![p] = r]
      /\ told' = told \cup ({said} \cap Verdicts)
      /\ UNCHANGED <<serpro, answer>>
  BY DEF Returned
<1>2. /\ r \in CallRecord /\ r.step # "running" /\ r.outcome = said
      /\ r.counted = FALSE /\ (r.step = "set" => r.outcome \in Verdicts)
  <2>1. /\ said \in Outcomes /\ s \in CallSteps /\ s # "running"
        /\ s = "set" => said \in Verdicts
    BY DEF Outcomes, CallSteps
  <2>2. /\ Step(p, s, said) \in CallRecord /\ Step(p, s, said).step = s
        /\ Step(p, s, said).outcome = said
    BY <2>1, StepShape
  <2> QED
    BY <2>1, <2>2 DEF CallRecord
<1> HIDE DEF r
<1>3. /\ BreakerOK(Current, Cardinality(Calls(CurrentCalls)))
      /\ CurrentCalls \in [Verifiers -> CallRecord]
      /\ \A q \in Verifiers :
            /\ CurrentCalls[q].step = req[q].step
            /\ CurrentCalls[q].outcome = req[q].outcome
            /\ CurrentCalls[q].counted = TRUE => req[q].counted = TRUE
  BY CurrentBreaker
<1>4. /\ calls \in [Verifiers -> CallRecord]
      /\ \A q \in Verifiers :
            /\ calls[q].step = req[q].step /\ calls[q].outcome = req[q].outcome
            /\ calls[q].counted = TRUE => req[q].counted = TRUE
  <2>1. CASE AfterCall(p, said).requests # 0
    BY <1>3, <2>1
  <2>2. CASE AfterCall(p, said).requests = 0
    <3>1. calls = [q \in Verifiers |-> [req[q] EXCEPT !.counted = FALSE]]
      BY <2>2 DEF Forgotten
    <3>2. req \in [Verifiers -> CallRecord]
      BY DEF DocumentInv, DocumentTypes
    <3>3. ASSUME NEW q \in Verifiers
          PROVE  /\ calls[q] \in CallRecord
                 /\ calls[q].step = req[q].step
                 /\ calls[q].outcome = req[q].outcome
                 /\ calls[q].counted = FALSE
      <4>1. calls[q] = [req[q] EXCEPT !.counted = FALSE] /\ req[q] \in CallRecord
        BY <3>1, <3>2
      <4> HIDE DEF calls
      <4> QED
        BY <4>1 DEF CallRecord
    <3> QED
      BY <3>1, <3>3
  <2> QED
    BY <2>1, <2>2
<1>5. AfterCall(p, said).requests = 0 => Calls(calls) = {}
  <2>1. SUFFICES ASSUME AfterCall(p, said).requests = 0, NEW q \in Verifiers
                 PROVE  calls[q].counted # TRUE
    BY DEF Calls
  <2>2. calls[q] = [req[q] EXCEPT !.counted = FALSE] /\ req[q] \in CallRecord
    BY <2>1 DEF Forgotten, DocumentInv, DocumentTypes
  <2> QED
    BY <2>2 DEF CallRecord
<1>6. AfterCall(p, said).requests # 0 => calls = CurrentCalls
  OBVIOUS
<1> HIDE DEF calls
<1>7. /\ req' \in [Verifiers -> CallRecord]
      /\ \A q \in Verifiers : req'[q] = IF q = p THEN r ELSE calls[q]
  BY <1>1, <1>2, <1>4
<1>8. Calls(req') = Calls(calls) \ {p}
  BY <1>2, <1>7 DEF Calls
<1>9. BreakerOK(breaker', Cardinality(Calls(req')))
  <2>1. PICK n \in Nat : n = Cardinality(Calls(CurrentCalls))
    BY CallsFinite
  <2>2. IsFiniteSet(Calls(CurrentCalls))
    BY CallsFinite
  <2>3. AfterCall(p, said).requests = 0 => Cardinality(Calls(req')) = 0
    BY <1>5, <1>8, FS_EmptySet
  <2>4. CASE CurrentCalls[p].counted = TRUE
    <3>1. PICK ok \in BOOLEAN : ok = (said # "error")
      BY DEF DocumentInv, DocumentTypes
    <3>2. AfterCall(p, said) = Counted(Current, ok)
      BY <2>4, <3>1 DEF AfterCall
    <3>3. p \in Calls(CurrentCalls)
      BY <2>4 DEF Calls
    <3>4. n # 0
      BY <2>1, <2>2, <3>3, FS_EmptySet
    <3>5. \/ AfterCall(p, said).requests = 0 /\ BreakerOK(AfterCall(p, said), 0)
          \/ AfterCall(p, said).requests # 0 /\ BreakerOK(AfterCall(p, said), n - 1)
      BY <1>3, <2>1, <3>2, <3>4, EndedCall
    <3>6. AfterCall(p, said).requests # 0 => Cardinality(Calls(req')) = n - 1
      BY <1>6, <1>8, <2>1, <2>2, <3>3, FS_RemoveElement
    <3> QED
      BY <1>1, <2>3, <3>5, <3>6
  <2>5. CASE CurrentCalls[p].counted # TRUE
    <3>1. AfterCall(p, said) = Current
      BY <1>3, <2>5 DEF AfterCall, CallRecord
    <3>2. p \notin Calls(CurrentCalls)
      BY <2>5 DEF Calls
    <3>3. AfterCall(p, said).requests # 0 => Cardinality(Calls(req')) = n
      BY <1>6, <1>8, <2>1, <2>2, <3>2, FS_RemoveElement
    <3>4. AfterCall(p, said).requests = 0 => n = 0
      BY <1>3, <2>1, <3>1 DEF BreakerOK, BreakerRecord
    <3> QED
      BY <1>1, <1>3, <2>1, <2>3, <3>1, <3>3, <3>4
  <2> QED
    BY <2>4, <2>5
<1>10. DocumentTypes'
  <2>1. \A q \in Verifiers : /\ req'[q].counted = TRUE => req'[q].step = "running"
                             /\ req'[q].step = "set" => req'[q].outcome \in Verdicts
    BY <1>2, <1>4, <1>7 DEF DocumentInv, DocumentTypes
  <2> QED
    BY <1>1, <1>7, <2>1 DEF DocumentInv, DocumentTypes
<1>11. VerdictInv'
  <2>1. \A q \in Verifiers : req'[q].outcome = "irregular" => "irregular" \in told'
    BY <1>1, <1>2, <1>4, <1>7 DEF DocumentInv, VerdictInv, Verdicts
  <2> QED
    BY <1>1, <2>1 DEF DocumentInv, VerdictInv
<1> QED
  BY <1>9, <1>10, <1>11 DEF DocumentInv

LEMMA NoCallShape ==
    /\ NoCall \in CallRecord /\ NoCall.step = "idle" /\ NoCall.counted = FALSE
    /\ NoCall.outcome = "none"
  BY DEF NoCall, CallRecord, CallSteps, Outcomes

LEMMA InitDocument == DocumentInit => DocumentInv
<1> SUFFICES ASSUME DocumentInit PROVE DocumentInv
  OBVIOUS
<1>1. \A q \in Verifiers : req[q] = NoCall
  BY DEF DocumentInit
<1>2. DocumentTypes /\ VerdictInv
  BY <1>1, NoCallShape DEF DocumentInit, DocumentTypes, VerdictInv, Verdicts
<1>3. Calls(req) = {}
  BY <1>1, NoCallShape DEF Calls
<1>4. BreakerOK(breaker, 0)
  BY FreshBreaker DEF DocumentInit, BreakerStates
<1> QED
  BY <1>2, <1>3, <1>4, FS_EmptySet DEF DocumentInv

LEMMA StepDocument == DocumentInv /\ [DocumentNext]_documentVars => DocumentInv'
<1> SUFFICES ASSUME DocumentInv, [DocumentNext]_documentVars PROVE DocumentInv'
  OBVIOUS
<1>1. CASE UNCHANGED documentVars
  BY <1>1 DEF documentVars, DocumentInv, DocumentTypes, VerdictInv, Calls
<1>2. ASSUME NEW p \in Verifiers, LookCached(p) PROVE DocumentInv'
  <2>1. PICK s \in {"decide", "execute"}, o \in Outcomes :
            /\ req' = [req EXCEPT ![p] = Step(p, s, o)]
            /\ o = "irregular" => answer = "irregular"
            /\ req[p].step # "running" /\ UNCHANGED <<serpro, breaker, answer, told>>
    BY <1>2 DEF LookCached, Outcomes, DocumentInv, DocumentTypes
  <2>2. /\ Step(p, s, o) \in CallRecord /\ Step(p, s, o).outcome = o
        /\ Step(p, s, o).counted = FALSE /\ Step(p, s, o).step # "set"
    <3>1. s \in CallSteps /\ s # "set"
      BY DEF CallSteps
    <3> QED
      BY <2>1, <3>1, StepShape, ZenonT(30)
  <2> QED
    BY <2>1, <2>2, RequestMoves DEF DocumentInv, DocumentTypes, VerdictInv
<1>3. ASSUME NEW p \in Verifiers, Execute(p) PROVE DocumentInv'
  BY <1>3, ExecuteCallStep
<1>4. ASSUME NEW p \in Verifiers, Return(p) \/ CallCancelled(p) PROVE DocumentInv'
  <2>1. CASE Return(p)
    BY <2>1, ReturnStep DEF Return, Hear, DocumentInv, DocumentTypes
  <2>2. CASE CallCancelled(p)
    <3>1. told' = told \cup ({"error"} \cap Verdicts)
      BY <2>2 DEF CallCancelled, Verdicts
    <3>2. Returned(p, AfterCall(p, "error"), IF "error" = "error" THEN "decide" ELSE "set",
                   "error")
      BY <2>2 DEF CallCancelled
    <3> QED
      BY <3>1, <3>2, ReturnStep
  <2> QED
    BY <1>4, <2>1, <2>2
<1>5. ASSUME NEW p \in Verifiers, CacheAnswer(p) PROVE DocumentInv'
  <2>1. PICK o \in Outcomes : o = req[p].outcome
    BY DEF DocumentInv, DocumentTypes, CallRecord
  <2>2. /\ req' = [req EXCEPT ![p] = Step(p, "decide", o)] /\ req[p].step = "set"
        /\ answer' \in {o, answer} /\ UNCHANGED <<serpro, breaker, told>>
    BY <1>5, <2>1 DEF CacheAnswer, DocumentInv, DocumentTypes
  <2>3. /\ Step(p, "decide", o) \in CallRecord /\ Step(p, "decide", o).outcome = o
        /\ Step(p, "decide", o).counted = FALSE /\ Step(p, "decide", o).step = "decide"
    <3>1. "decide" \in CallSteps
      BY DEF CallSteps
    <3> QED
      BY <2>2, <3>1, StepShape
  <2>4. o = "irregular" => "irregular" \in told
    BY <2>1 DEF DocumentInv, VerdictInv
  <2>5. answer' \in Verdicts \cup {"none"}
    BY <2>1, <2>2 DEF DocumentInv, DocumentTypes
  <2> QED
    BY <2>2, <2>3, <2>4, <2>5, RequestMoves DEF DocumentInv, VerdictInv
<1>6. ASSUME NEW p \in Verifiers, Decide(p) \/ SaveVerification(p) PROVE DocumentInv'
  <2>1. PICK o \in Outcomes : o = req[p].outcome
    BY DEF DocumentInv, DocumentTypes, CallRecord
  <2>2. /\ req' \in {[req EXCEPT ![p] = NoCall], [req EXCEPT ![p] = Step(p, "record", o)]}
        /\ req[p].step # "running" /\ UNCHANGED <<serpro, breaker, answer, told>>
    BY <1>6, <2>1 DEF Decide, SaveVerification, DocumentInv, DocumentTypes
  <2>3. /\ Step(p, "record", o) \in CallRecord /\ Step(p, "record", o).outcome = o
        /\ Step(p, "record", o).counted = FALSE /\ Step(p, "record", o).step = "record"
    <3>1. "record" \in CallSteps
      BY DEF CallSteps
    <3> QED
      BY <2>2, <3>1, StepShape, ZenonT(30)
  <2>4. o = "irregular" => "irregular" \in told
    BY <2>1 DEF DocumentInv, VerdictInv
  <2>5. /\ answer' \in Verdicts \cup {"none"}
        /\ answer' = "irregular" => "irregular" \in told
    BY <2>2 DEF DocumentInv, DocumentTypes, VerdictInv
  <2> QED
    BY <2>2, <2>3, <2>4, <2>5, NoCallShape, RequestMoves
<1>7. CASE DocumentTick
  <2>1. PICK b : b = [breaker EXCEPT !.left = @ - 1]
    OBVIOUS
  <2>2. breaker' = b /\ breaker.left > 0 /\ UNCHANGED <<serpro, answer, req, told>>
    BY <1>7, <2>1 DEF DocumentTick
  <2>3. breaker \in BreakerRecord /\ breaker.left - 1 \in 0 .. Interval + Timeout
    BY <2>2, DocumentsAssumption DEF DocumentInv, BreakerOK, BreakerRecord
  <2>4. /\ b \in BreakerRecord /\ b.state = breaker.state
        /\ b.requests = breaker.requests /\ b.successes = breaker.successes
        /\ b.failures = breaker.failures
    BY <2>1, <2>3 DEF BreakerRecord
  <2>5. BreakerOK(b, Cardinality(Calls(req)))
    BY <2>4 DEF DocumentInv, BreakerOK
  <2>6. Calls(req') = Calls(req)
    BY <2>2
  <2> QED
    BY <2>2, <2>5, <2>6 DEF DocumentInv, DocumentTypes, VerdictInv
<1>8. CASE AnswerExpires \/ \E s \in Verdicts \cup {"error"} : SerproChanges(s)
  <2>1. /\ UNCHANGED <<breaker, req, told>> /\ serpro' \in Verdicts \cup {"error"}
        /\ answer' \in {answer, "none"}
    BY <1>8 DEF AnswerExpires, SerproChanges, DocumentInv, DocumentTypes
  <2>2. Calls(req') = Calls(req)
    BY <2>1
  <2> QED
    BY <2>1, <2>2 DEF DocumentInv, DocumentTypes, VerdictInv
<1> QED
  BY <1>1, <1>2, <1>3, <1>4, <1>5, <1>6, <1>7, <1>8 DEF DocumentNext, VerifyStep

\* circuit_breaker_verification.go: whatever calls overlap and however late they
\* return, the breaker has counted exactly the calls of its generation, and a
\* half-open breaker that refuses everybody still waits for one of its calls.
THEOREM BreakerCorrect == DocumentSpec => []BreakerSound
<1>1. ASSUME DocumentInv PROVE BreakerSound
  <2>1. DocumentTypeOK
    BY <1>1
    DEF DocumentInv, DocumentTypes, BreakerOK, BreakerRecord, BreakerStates, CallRecord,
        CallSteps, DocumentTypeOK
  <2>2. {p \in Verifiers : req[p].counted} = Calls(req)
    BY <1>1 DEF Calls, DocumentInv, DocumentTypes, CallRecord
  <2>3. BreakerCountsExact
    BY <1>1, <2>2 DEF BreakerCountsExact, DocumentInv, BreakerOK
  <2>4. HalfOpenDrains
    <3>1. SUFFICES ASSUME breaker.state = "half-open", Refused(breaker)
                   PROVE  \E p \in Verifiers : req[p].counted /\ req[p].step = "running"
      BY DEF HalfOpenDrains
    <3>2. PICK n \in Nat : n = Cardinality(Calls(req))
      BY CallsFinite
    <3>3. /\ breaker.requests = breaker.successes + breaker.failures + n
          /\ breaker.failures = 0 /\ breaker.successes < MaxRequests
          /\ breaker.requests >= MaxRequests
          /\ breaker.successes \in Nat /\ breaker.requests \in Nat /\ MaxRequests \in Nat
      BY <1>1, <3>1, <3>2, DocumentsAssumption
      DEF Refused, DocumentInv, BreakerOK, BreakerRecord
    <3>4. n # 0
      BY <3>3
    <3>5. PICK p \in Calls(req) : TRUE
      BY <3>2, <3>4, FS_EmptySet
    <3> QED
      BY <1>1, <3>5 DEF Calls, DocumentInv, DocumentTypes
  <2> QED
    BY <2>1, <2>3, <2>4 DEF BreakerSound
<1> QED
  BY <1>1, InitDocument, StepDocument, PTL DEF DocumentSpec

\* document_service.go: a CPF is refused only on a verdict of the provider; no
\* error, open breaker, lost cache write or late answer refuses one.
THEOREM RejectionCorrect == DocumentSpec => NoFalseRejection
<1>1. ASSUME DocumentInv, NEW p \in Verifiers, Decide(p), req'[p] = NoCall
      PROVE  "irregular" \in told
  <2>1. CASE req[p].outcome = "irregular"
    BY <1>1, <2>1 DEF DocumentInv, VerdictInv
  <2>2. CASE req[p].outcome # "irregular"
    <3>1. PICK o \in Outcomes : o = req[p].outcome
      BY <1>1 DEF DocumentInv, DocumentTypes, CallRecord
    <3>2. req'[p] = Step(p, "record", o)
      BY <1>1, <2>2, <3>1 DEF Decide, DocumentInv, DocumentTypes
    <3> QED
      <4>1. "record" \in CallSteps
        BY DEF CallSteps
      <4> QED
        BY <1>1, <3>2, <4>1, StepShape, NoCallShape
  <2> QED
    BY <2>1, <2>2
<1>2. DocumentInv => [\A p \in Verifiers :
                         Decide(p) /\ req'[p] = NoCall => "irregular" \in told]_documentVars
  BY <1>1
<1> QED
  BY <1>2, InitDocument, StepDocument, PTL DEF DocumentSpec, NoFalseRejection

-----------------------------------------------------------------------------
(* CompanySync: what paging by OFFSET can miss.                            *)

SyncRecord ==
    [step : {"idle", "list", "item", "done"}, offset : 0 .. N + Limit,
     page : Seq(Copies), full : BOOLEAN]

PastRecord ==
    [seen : SUBSET CompanyIds, steady : SUBSET CompanyIds, suspensions : 0 .. N]

\* With listed companies L: the rows before n, a page, and the companies that
\* a run with history h has not seen although it is past b rows.
AheadIn(n, L) == Cardinality({m \in L : m < n})
PageIn(o, L) == {n \in L : AheadIn(n, L) \in o .. o + Limit - 1}
MissedIn(h, b, L) == {n \in h.steady \ h.seen : AheadIn(n, L) < b}

ListedIn(st) == {n \in CompanyIds : st[n] \in {"active", "pending"}}

\* The rows a run is past, or will be with the page in its hands.
Bound(r) == IF r.step = "list" THEN r.offset
            ELSE IF r.step = "item" /\ r.full = TRUE THEN r.offset + Limit ELSE N

LEMMA AheadType ==
    ASSUME NEW L \in SUBSET CompanyIds, NEW n \in CompanyIds
    PROVE  /\ IsFiniteSet(L) /\ IsFiniteSet({m \in L : m < n})
           /\ AheadIn(n, L) \in Nat
           /\ n \in L => AheadIn(n, L) < N
<1>1. IsFiniteSet(CompanyIds) /\ Cardinality(CompanyIds) = N /\ N \in Nat
  <2>1. 1 \in Int /\ N \in Int /\ N \in Nat
    BY SyncAssumption
  <2>2. IsFiniteSet(1 .. N) /\ Cardinality(1 .. N) = IF 1 > N THEN 0 ELSE N - 1 + 1
    BY <2>1, FS_Interval
  <2> QED
    BY <2>1, <2>2 DEF CompanyIds
<1>2. IsFiniteSet(L)
  BY <1>1, FS_Subset
<1>3. {m \in L : m < n} \in SUBSET L
  OBVIOUS
<1>4. IsFiniteSet({m \in L : m < n})
  BY <1>2, <1>3, FS_Subset
<1>5. AheadIn(n, L) \in Nat
  BY <1>4, FS_CardinalityType DEF AheadIn
<1>6. ASSUME n \in L PROVE AheadIn(n, L) < N
  <2>1. {m \in L : m < n} \in SUBSET (CompanyIds \ {n})
    <3>1. ~(n < n)
      BY SyncAssumption DEF CompanyIds
    <3> QED
      BY <3>1
  <2>2. IsFiniteSet(CompanyIds \ {n}) /\ Cardinality(CompanyIds \ {n}) = N - 1
    BY <1>1, FS_RemoveElement
  <2>3. AheadIn(n, L) <= N - 1
    BY <2>1, <2>2, FS_Subset DEF AheadIn
  <2> QED
    BY <1>1, <1>5, <2>3
<1> QED
  BY <1>2, <1>4, <1>5, <1>6

LEMMA AheadGrows ==
    ASSUME NEW K \in SUBSET CompanyIds, NEW L \in SUBSET K, NEW n \in CompanyIds
    PROVE  AheadIn(n, L) <= AheadIn(n, K)
<1>1. IsFiniteSet({m \in K : m < n})
  BY AheadType
<1>2. {m \in L : m < n} \in SUBSET {m \in K : m < n}
  OBVIOUS
<1> QED
  BY <1>1, <1>2, FS_Subset DEF AheadIn

\* One company less in the list moves the others by at most one row.
LEMMA AheadFalls ==
    ASSUME NEW L \in SUBSET CompanyIds, NEW n \in CompanyIds, NEW x
    PROVE  AheadIn(n, L) <= AheadIn(n, L \ {x}) + 1
<1>1. IsFiniteSet({m \in L : m < n}) /\ AheadIn(n, L) \in Nat
  BY AheadType
<1>2. {m \in L \ {x} : m < n} = {m \in L : m < n} \ {x}
  OBVIOUS
<1>3. AheadIn(n, L \ {x}) = IF x \in {m \in L : m < n} THEN AheadIn(n, L) - 1
                            ELSE AheadIn(n, L)
  BY <1>1, <1>2, FS_RemoveElement DEF AheadIn
<1> QED
  BY <1>1, <1>3

LEMMA AheadOrder ==
    ASSUME NEW L \in SUBSET CompanyIds, NEW m \in L, NEW n \in L, m < n
    PROVE  AheadIn(m, L) < AheadIn(n, L)
<1>1. m \in CompanyIds /\ n \in CompanyIds /\ m \in Int /\ n \in Int
  BY DEF CompanyIds
<1> DEFINE A == {k \in L : k < m}
           B == {k \in L : k < n}
<1>2. IsFiniteSet(A) /\ IsFiniteSet(B) /\ AheadIn(m, L) \in Nat /\ AheadIn(n, L) \in Nat
  BY <1>1, AheadType
<1>3. m \notin A /\ A \cup {m} \in SUBSET B
  <2>1. \A k \in L : k \in Int
    BY SyncAssumption DEF CompanyIds
  <2>2. ~(m < m)
    BY <1>1
  <2>3. \A k \in L : k < m => k < n
    BY <1>1, <2>1
  <2> QED
    BY <2>2, <2>3
<1>4. Cardinality(A \cup {m}) = Cardinality(A) + 1
  BY <1>2, <1>3, FS_AddElement
<1>5. Cardinality(A \cup {m}) <= Cardinality(B)
  BY <1>2, <1>3, FS_Subset
<1>6. Cardinality(A) = AheadIn(m, L) /\ Cardinality(B) = AheadIn(n, L)
  BY DEF AheadIn
<1> HIDE DEF A, B
<1> QED
  BY <1>2, <1>4, <1>5, <1>6

LEMMA AheadUnique ==
    ASSUME NEW L \in SUBSET CompanyIds, NEW m \in L, NEW n \in L,
           AheadIn(m, L) = AheadIn(n, L)
    PROVE  m = n
<1>1. m \in CompanyIds /\ n \in CompanyIds /\ m \in Int /\ n \in Int
  BY DEF CompanyIds
<1>2. AheadIn(m, L) \in Nat /\ AheadIn(n, L) \in Nat
  BY <1>1, AheadType
<1>3. ~(m < n)
  BY <1>2, AheadOrder
<1>4. ~(n < m)
  BY <1>2, AheadOrder
<1> QED
  BY <1>1, <1>3, <1>4

\* Every row before a listed company is some company's.
LEMMA AheadAll ==
    ASSUME NEW L \in SUBSET CompanyIds, NEW n \in L, NEW i \in 0 .. AheadIn(n, L) - 1
    PROVE  \E m \in L : AheadIn(m, L) = i
<1> DEFINE A == {m \in L : m < n}
           P == AheadIn(n, L)
           T == 0 .. P - 1
           f == [m \in A |-> AheadIn(m, L)]
<1>1. n \in CompanyIds /\ L \subseteq CompanyIds
  OBVIOUS
<1>2. IsFiniteSet(A) /\ P \in Nat /\ Cardinality(A) = P
  BY <1>1, AheadType DEF AheadIn
<1>3. IsFiniteSet(T) /\ Cardinality(T) = P
  <2>1. 0 \in Int /\ P - 1 \in Int
    BY <1>2
  <2>2. IsFiniteSet(0 .. P - 1) /\ Cardinality(0 .. P - 1) = IF 0 > P - 1 THEN 0 ELSE P - 1 - 0 + 1
    BY <2>1, FS_Interval
  <2> HIDE DEF P
  <2> QED
    BY <1>2, <2>2
<1>4. ASSUME NEW m \in A PROVE AheadIn(m, L) \in T
  <2>1. m \in L /\ m < n /\ m \in CompanyIds
    BY <1>1
  <2>2. AheadIn(m, L) \in Nat /\ AheadIn(m, L) < AheadIn(n, L)
    BY <2>1, AheadType, AheadOrder
  <2> QED
    BY <1>2, <2>2
<1>5. f \in [A -> T]
  BY <1>4
<1>6. \A x, y \in A : f[x] = f[y] => x = y
  BY AheadUnique
<1>7. f \in Injection(A, T)
  BY <1>5, <1>6 DEF Injection, IsInjective
<1>8. f \in Surjection(A, T)
  BY <1>2, <1>3, <1>7, FS_Injection
<1>9. \E m \in A : f[m] = i
  BY <1>8 DEF Surjection
<1> QED
  BY <1>9

\* A page that is not full is the last one.
LEMMA LastPage ==
    ASSUME NEW L \in SUBSET CompanyIds, NEW o \in Nat, NEW k \in 0 .. Limit - 1,
           NEW page \in [1 .. k -> Copies],
           {page[i].id : i \in DOMAIN page} = PageIn(o, L), NEW n \in L
    PROVE  AheadIn(n, L) < o + Limit
<1>1. SUFFICES ASSUME AheadIn(n, L) >= o + Limit PROVE FALSE
  <2>1. AheadIn(n, L) \in Nat /\ o + Limit \in Nat
    <3>1. n \in CompanyIds
      OBVIOUS
    <3>2. AheadIn(n, L) \in Nat
      BY <3>1, AheadType
    <3> QED
      BY <3>2, SyncAssumption
  <2> QED
    BY <1>1, <2>1
<1> DEFINE T == o .. o + Limit - 1
           g == [m \in PageIn(o, L) |-> AheadIn(m, L)]
           ids == [i \in 1 .. k |-> page[i].id]
<1>2. /\ Limit \in Nat /\ Limit > 0 /\ k \in Nat /\ k < Limit /\ AheadIn(n, L) \in Nat
  <2>1. Limit \in Nat /\ Limit > 0 /\ k \in Nat /\ k < Limit
    BY SyncAssumption
  <2>2. n \in CompanyIds
    OBVIOUS
  <2>3. AheadIn(n, L) \in Nat
    BY <2>2, AheadType
  <2> QED
    BY <2>1, <2>3
<1>3. IsFiniteSet(T) /\ Cardinality(T) = Limit
  <2>1. PICK z \in Int : z = o + Limit - 1
    BY <1>2
  <2>2. IsFiniteSet(o .. z) /\ Cardinality(o .. z) = IF o > z THEN 0 ELSE z - o + 1
    BY FS_Interval
  <2>3. Cardinality(o .. z) = Limit
    BY <1>2, <2>1, <2>2
  <2> QED
    BY <2>1, <2>2, <2>3
<1>4. ids \in Surjection(1 .. k, PageIn(o, L))
  <2>1. DOMAIN page = 1 .. k
    OBVIOUS
  <2>2. ids \in [1 .. k -> PageIn(o, L)]
    BY <2>1
  <2>3. \A m \in PageIn(o, L) : \E i \in 1 .. k : ids[i] = m
    BY <2>1
  <2> QED
    BY <2>2, <2>3 DEF Surjection
<1>5. IsFiniteSet(PageIn(o, L)) /\ Cardinality(PageIn(o, L)) <= k
  <2>1. IsFiniteSet(1 .. k) /\ Cardinality(1 .. k) = IF 1 > k THEN 0 ELSE k - 1 + 1
    <3>1. 1 \in Int /\ k \in Int
      BY <1>2
    <3> QED
      BY <3>1, FS_Interval
  <2>2. Cardinality(1 .. k) = k
    BY <1>2, <2>1
  <2> HIDE DEF ids
  <2> QED
    BY <1>4, <2>1, <2>2, FS_Surjection
<1>6. g \in [PageIn(o, L) -> T]
  BY DEF PageIn
<1>7. ASSUME NEW t \in T PROVE \E m \in PageIn(o, L) : g[m] = t
  <2>1. t \in 0 .. AheadIn(n, L) - 1
    BY <1>1, <1>2
  <2>2. PICK m \in L : AheadIn(m, L) = t
    BY <2>1, AheadAll
  <2> QED
    BY <2>2 DEF PageIn
<1>8. g \in Surjection(PageIn(o, L), T)
  BY <1>6, <1>7 DEF Surjection
<1>9. Cardinality(T) <= Cardinality(PageIn(o, L))
  <2> HIDE DEF g, T
  <2> QED
    BY <1>5, <1>8, FS_Surjection
<1>10. Cardinality(PageIn(o, L)) \in Nat
  BY <1>5, FS_CardinalityType
<1> HIDE DEF T
<1> QED
  BY <1>2, <1>3, <1>5, <1>9, <1>10

LEMMA MissedType ==
    ASSUME NEW h \in PastRecord, NEW b, NEW L
    PROVE  /\ MissedIn(h, b, L) \in SUBSET CompanyIds
           /\ IsFiniteSet(MissedIn(h, b, L)) /\ Cardinality(MissedIn(h, b, L)) \in Nat
           /\ Cardinality(MissedIn(h, b, L)) <= N
<1>1. IsFiniteSet(CompanyIds) /\ Cardinality(CompanyIds) = N
  <2>1. 1 \in Int /\ N \in Int /\ N \in Nat
    BY SyncAssumption
  <2>2. IsFiniteSet(1 .. N) /\ Cardinality(1 .. N) = IF 1 > N THEN 0 ELSE N - 1 + 1
    BY <2>1, FS_Interval
  <2> QED
    BY <2>1, <2>2 DEF CompanyIds
<1>2. MissedIn(h, b, L) \in SUBSET CompanyIds
  BY DEF MissedIn, PastRecord
<1>3. /\ IsFiniteSet(MissedIn(h, b, L))
      /\ Cardinality(MissedIn(h, b, L)) <= Cardinality(CompanyIds)
  BY <1>1, <1>2, FS_Subset
<1> QED
  BY <1>1, <1>2, <1>3, FS_CardinalityType

\* A company that leaves the list lets at most one other slide past b rows.
LEMMA OneSlides ==
    ASSUME NEW L \in SUBSET CompanyIds, NEW h \in PastRecord, h.steady \subseteq L,
           NEW g \in PastRecord, NEW x, NEW b \in Nat,
           g.seen = h.seen, g.steady = h.steady \ {x}
    PROVE  Cardinality(MissedIn(g, b, L \ {x})) <= Cardinality(MissedIn(h, b, L)) + 1
<1> DEFINE M == MissedIn(h, b, L)
           S == MissedIn(g, b, L \ {x})
<1>1. /\ IsFiniteSet(M) /\ Cardinality(M) \in Nat /\ IsFiniteSet(S)
      /\ Cardinality(S) \in Nat
  BY MissedType
<1>2. ASSUME NEW n \in S
      PROVE  n \in L /\ (n \in M \/ AheadIn(n, L) = b)
  <2>1. n \in h.steady \ h.seen /\ n \in L /\ AheadIn(n, L \ {x}) < b
    BY <1>2 DEF MissedIn
  <2>2. n \in CompanyIds /\ L \ {x} \in SUBSET CompanyIds
    BY <2>1
  <2>3. AheadIn(n, L) \in Nat /\ AheadIn(n, L \ {x}) \in Nat
    BY <2>2, AheadType
  <2>4. AheadIn(n, L) <= AheadIn(n, L \ {x}) + 1
    BY <2>2, AheadFalls
  <2>5. AheadIn(n, L) < b \/ AheadIn(n, L) = b
    BY <2>1, <2>3, <2>4
  <2> QED
    BY <2>1, <2>5 DEF MissedIn
<1> HIDE DEF M, S
<1>3. CASE S \subseteq M
  <2>1. Cardinality(S) <= Cardinality(M)
    BY <1>1, <1>3, FS_Subset
  <2> QED
    BY <1>1, <2>1 DEF M, S
<1>4. CASE ~(S \subseteq M)
  <2>1. PICK y \in S : y \notin M
    BY <1>4
  <2>2. y \in L /\ AheadIn(y, L) = b
    BY <1>2, <2>1
  <2>3. ASSUME NEW n \in S PROVE n \in M \cup {y}
    <3>1. CASE n \in M
      BY <3>1
    <3>2. CASE n \notin M
      <4>1. n \in L /\ AheadIn(n, L) = AheadIn(y, L)
        BY <1>2, <2>2, <3>2
      <4> QED
        BY <2>2, <4>1, AheadUnique
    <3> QED
      BY <3>1, <3>2
  <2>4. S \in SUBSET (M \cup {y})
    BY <2>3
  <2>5. IsFiniteSet(M \cup {y}) /\ Cardinality(M \cup {y}) = Cardinality(M) + 1
    BY <1>1, <2>1, FS_AddElement
  <2>6. Cardinality(S) <= Cardinality(M \cup {y})
    BY <2>4, <2>5, FS_Subset
  <2> QED
    BY <1>1, <2>5, <2>6 DEF M, S
<1> QED
  BY <1>3, <1>4

\* A run misses no more when fewer companies qualify.
LEMMA MissedFalls ==
    ASSUME NEW h \in PastRecord, NEW b, NEW L, NEW g \in PastRecord, NEW c, NEW K,
           MissedIn(g, c, K) \subseteq MissedIn(h, b, L)
    PROVE  Cardinality(MissedIn(g, c, K)) <= Cardinality(MissedIn(h, b, L))
  BY MissedType, FS_Subset

SyncTypes ==
    /\ status \in [CompanyIds -> {"absent", "active", "pending", "suspended"}]
    /\ sync \in [Jobs -> SyncRecord] /\ past \in [Jobs -> PastRecord]
    /\ \A j \in Jobs : sync[j].step = "item" => sync[j].page # <<>> /\ sync[j].offset <= N

\* Of the companies listed all along, a run has missed no more than there were
\* suspensions, counting those that it has not reached as seen.
MissedInv ==
    \A j \in Jobs :
        /\ past[j].steady \subseteq ListedIn(status)
        /\ Cardinality(MissedIn(past[j], Bound(sync[j]), ListedIn(status)))
             <= past[j].suspensions

SyncInv == SyncTypes /\ MissedInv

LEMMA BoundType ==
    ASSUME NEW r \in SyncRecord
    PROVE  Bound(r) \in Nat
  BY SyncAssumption DEF Bound, SyncRecord

LEMMA RunShapes ==
    /\ NoRun \in SyncRecord /\ NoRun.step = "idle"
    /\ [NoRun EXCEPT !.step = "list"] \in SyncRecord
    /\ [NoRun EXCEPT !.step = "list"].step = "list"
    /\ Bound([NoRun EXCEPT !.step = "list"]) = 0
    /\ NoPast \in PastRecord /\ NoPast.steady = {} /\ NoPast.suspensions = 0
<1>1. 0 \in 0 .. N /\ 0 \in 0 .. N + Limit
  BY SyncAssumption
<1>2. NoRun \in SyncRecord /\ NoRun.step = "idle" /\ NoRun.offset = 0
  BY <1>1 DEF NoRun, SyncRecord
<1>3. /\ [NoRun EXCEPT !.step = "list"] \in SyncRecord
      /\ [NoRun EXCEPT !.step = "list"].step = "list"
      /\ [NoRun EXCEPT !.step = "list"].offset = 0
  BY <1>2 DEF SyncRecord
<1>4. NoPast \in PastRecord /\ NoPast.steady = {} /\ NoPast.suspensions = 0
  BY <1>1 DEF NoPast, PastRecord
<1> QED
  BY <1>2, <1>3, <1>4 DEF Bound

\* A company is written: the runs keep their bounds, and a suspension is
\* recorded in all of them.
LEMMA WriteCompany ==
    ASSUME SyncInv, NEW n \in CompanyIds, NEW s \in {"active", "pending", "suspended"},
           status' = [status EXCEPT ![n] = s],
           IF s = "suspended" THEN past' = Record(n, s) ELSE past' = past,
           \A j \in Jobs : Bound(sync'[j]) = Bound(sync[j])
    PROVE  /\ MissedInv' /\ past' \in [Jobs -> PastRecord]
           /\ status' \in [CompanyIds -> {"absent", "active", "pending", "suspended"}]
<1>1. /\ status' \in [CompanyIds -> {"absent", "active", "pending", "suspended"}]
      /\ \A m \in CompanyIds : status'[m] = IF m = n THEN s ELSE status[m]
  BY DEF SyncInv, SyncTypes
<1>2. /\ past \in [Jobs -> PastRecord]
      /\ ListedIn(status) \in SUBSET CompanyIds /\ ListedIn(status') \in SUBSET CompanyIds
      /\ \A j \in Jobs :
            /\ past[j] \in PastRecord /\ sync[j] \in SyncRecord
            /\ past[j].steady \subseteq ListedIn(status)
            /\ Cardinality(MissedIn(past[j], Bound(sync[j]), ListedIn(status)))
                 <= past[j].suspensions
  BY DEF SyncInv, SyncTypes, MissedInv, ListedIn
<1>3. CASE s # "suspended"
  <2>1. past' = past /\ ListedIn(status) \in SUBSET ListedIn(status')
    BY <1>1, <1>3 DEF ListedIn
  <2>2. ASSUME NEW j \in Jobs
        PROVE  Cardinality(MissedIn(past[j], Bound(sync[j]), ListedIn(status')))
                 <= past[j].suspensions
    <3> DEFINE b == Bound(sync[j])
    <3>1. ASSUME NEW m \in MissedIn(past[j], b, ListedIn(status'))
          PROVE  m \in MissedIn(past[j], b, ListedIn(status))
      <4>1. /\ m \in past[j].steady \ past[j].seen /\ m \in CompanyIds
            /\ AheadIn(m, ListedIn(status')) < b
        BY <1>2, <3>1 DEF MissedIn
      <4>2. /\ AheadIn(m, ListedIn(status)) <= AheadIn(m, ListedIn(status'))
            /\ AheadIn(m, ListedIn(status)) \in Nat /\ AheadIn(m, ListedIn(status')) \in Nat
        BY <1>2, <2>1, <4>1, AheadGrows, AheadType
      <4>3. b \in Nat
        BY <1>2, BoundType
      <4>4. AheadIn(m, ListedIn(status)) < b
        BY <4>1, <4>2, <4>3
      <4> QED
        BY <4>1, <4>4 DEF MissedIn
    <3>2. /\ Cardinality(MissedIn(past[j], b, ListedIn(status')))
               <= Cardinality(MissedIn(past[j], b, ListedIn(status)))
          /\ Cardinality(MissedIn(past[j], b, ListedIn(status'))) \in Nat
          /\ Cardinality(MissedIn(past[j], b, ListedIn(status))) \in Nat
      BY <1>2, <3>1, MissedFalls, MissedType
    <3>3. past[j].suspensions \in Nat
      BY <1>2, SyncAssumption DEF PastRecord
    <3> QED
      BY <1>2, <3>2, <3>3
  <2>3. MissedInv'
    BY <1>2, <2>1, <2>2 DEF MissedInv
  <2> QED
    BY <1>1, <1>2, <2>1, <2>3
<1>4. CASE s = "suspended"
  <2>1. ListedIn(status') = ListedIn(status) \ {n}
    BY <1>1, <1>4 DEF ListedIn
  <2>2. ASSUME NEW j \in Jobs
        PROVE  /\ past'[j] \in PastRecord
               /\ past'[j].seen = past[j].seen /\ past'[j].steady = past[j].steady \ {n}
               /\ past'[j].suspensions =
                     IF past[j].suspensions < N THEN past[j].suspensions + 1
                     ELSE past[j].suspensions
    <3>1. PICK c \in 0 .. N : c = IF past[j].suspensions < N THEN past[j].suspensions + 1
                                  ELSE past[j].suspensions
      BY <1>2, SyncAssumption DEF PastRecord
    <3>2. past'[j] = [past[j] EXCEPT !.steady = past[j].steady \ {n}, !.suspensions = c]
      BY <1>2, <1>4, <3>1 DEF Record
    <3> QED
      BY <1>2, <3>1, <3>2, ZenonT(30) DEF PastRecord
  <2>3. past' \in [Jobs -> PastRecord]
    BY <1>4, <2>2 DEF Record
  <2>4. ASSUME NEW j \in Jobs
        PROVE  /\ past'[j].steady \subseteq ListedIn(status')
               /\ Cardinality(MissedIn(past'[j], Bound(sync[j]), ListedIn(status')))
                    <= past'[j].suspensions
    <3>1. PICK b \in Nat : b = Bound(sync[j])
      BY <1>2, BoundType
    <3>2. PICK h \in PastRecord : h = past[j]
      BY <1>2
    <3>3. PICK g \in PastRecord : g = past'[j]
      BY <2>2
    <3>4. PICK L \in SUBSET CompanyIds : L = ListedIn(status)
      BY <1>2
    <3>5. Cardinality(MissedIn(g, b, L \ {n})) <= Cardinality(MissedIn(h, b, L)) + 1
      BY <1>2, <2>2, <3>2, <3>3, <3>4, OneSlides
    <3>6. /\ Cardinality(MissedIn(g, b, L \ {n})) \in Nat
          /\ Cardinality(MissedIn(h, b, L)) \in Nat
          /\ Cardinality(MissedIn(g, b, L \ {n})) <= N
          /\ Cardinality(MissedIn(h, b, L)) <= h.suspensions
          /\ h.suspensions \in 0 .. N
      BY <1>2, <3>1, <3>2, <3>4, MissedType DEF PastRecord
    <3>7. g.suspensions = IF h.suspensions < N THEN h.suspensions + 1 ELSE h.suspensions
      BY <2>2, <3>2, <3>3
    <3>8. Cardinality(MissedIn(g, b, L \ {n})) <= g.suspensions
      BY <3>5, <3>6, <3>7, SyncAssumption
    <3> QED
      BY <1>2, <2>1, <2>2, <3>1, <3>3, <3>4, <3>8
  <2>5. MissedInv'
    BY <2>4 DEF MissedInv
  <2> QED
    BY <1>1, <2>3, <2>5
<1> QED
  BY <1>3, <1>4

\* Run j takes up history h and goes on as r; the table stays.
LEMMA RunMoves ==
    ASSUME SyncInv, NEW j \in Jobs, NEW r \in SyncRecord, NEW h \in PastRecord,
           sync' = [sync EXCEPT ![j] = r], past' = [past EXCEPT ![j] = h],
           status' = status,
           r.step = "item" => r.page # <<>> /\ r.offset <= N,
           h.steady \subseteq ListedIn(status),
           Cardinality(MissedIn(h, Bound(r), ListedIn(status))) <= h.suspensions
    PROVE  SyncInv'
<1>1. /\ sync' \in [Jobs -> SyncRecord] /\ past' \in [Jobs -> PastRecord]
      /\ \A i \in Jobs : /\ sync'[i] = IF i = j THEN r ELSE sync[i]
                         /\ past'[i] = IF i = j THEN h ELSE past[i]
  BY DEF SyncInv, SyncTypes
<1>2. SyncTypes'
  BY <1>1 DEF SyncInv, SyncTypes
<1>3. MissedInv'
  <2>1. ASSUME NEW i \in Jobs
        PROVE  /\ past'[i].steady \subseteq ListedIn(status)
               /\ Cardinality(MissedIn(past'[i], Bound(sync'[i]), ListedIn(status)))
                    <= past'[i].suspensions
    <3>1. CASE i = j
      BY <1>1, <3>1
    <3>2. CASE i # j
      BY <1>1, <3>2 DEF SyncInv, MissedInv
    <3> QED
      BY <3>1, <3>2
  <2> QED
    BY <2>1 DEF MissedInv
<1> QED
  BY <1>2, <1>3 DEF SyncInv

\* On to the next company: the bound stays.
LEMMA NextCompanyMoves ==
    ASSUME SyncInv, NEW j \in Jobs, sync[j].step = "item", NextCompany(j)
    PROVE  /\ sync' \in [Jobs -> SyncRecord]
           /\ \A i \in Jobs :
                 /\ sync'[i].step = "item" => sync'[i].page # <<>> /\ sync'[i].offset <= N
                 /\ Bound(sync'[i]) = Bound(sync[i])
           /\ sync'[j] # sync[j]
<1>1. PICK r \in SyncRecord : r = sync[j] /\ r.step = "item" /\ r.page # <<>> /\ r.offset <= N
  BY DEF SyncInv, SyncTypes
<1>2. r.page \in Seq(Copies) /\ Len(r.page) \in Nat /\ Len(r.page) >= 1
  BY <1>1 DEF SyncRecord
<1>3. sync \in [Jobs -> SyncRecord]
      /\ \A i \in Jobs : sync[i].step = "item" => sync[i].page # <<>> /\ sync[i].offset <= N
  BY DEF SyncInv, SyncTypes
<1>4. PICK q \in SyncRecord : /\ sync' = [sync EXCEPT ![j] = q] /\ q # r
                              /\ q.step = "item" => q.page # <<>> /\ q.offset <= N
                              /\ Bound(q) = Bound(r)
  <2>1. CASE Len(r.page) > 1
    <3>1. PICK t : t = Tail(r.page)
      OBVIOUS
    <3>a. t \in Seq(Copies) /\ Len(t) = Len(r.page) - 1
      BY <1>1, <1>2, <3>1
    <3>b. t # <<>>
      BY <1>2, <2>1, <3>a
    <3>c. t # r.page
      BY <1>2, <3>a
    <3>2. PICK q : q = [r EXCEPT !.page = t]
      OBVIOUS
    <3>3. /\ q \in SyncRecord /\ q.page = t /\ q.step = r.step /\ q.offset = r.offset
          /\ q.full = r.full
      BY <3>2, <3>a DEF SyncRecord
    <3>4. sync' = [sync EXCEPT ![j] = q]
      BY <1>1, <1>3, <2>1, <3>1, <3>2 DEF NextCompany
    <3>5. Bound(q) = Bound(r)
      BY <3>3 DEF Bound
    <3> QED
      BY <1>1, <3>3, <3>4, <3>5, <3>b, <3>c
  <2>2. CASE ~(Len(r.page) > 1)
    <3>1. PICK st \in {"list", "done"} : st = IF r.full THEN "list" ELSE "done"
      BY <1>1 DEF SyncRecord
    <3>2. PICK o \in 0 .. N + Limit : o = r.offset + Limit
      BY <1>1, SyncAssumption DEF SyncRecord
    <3>3. PICK q : q = [r EXCEPT !.page = <<>>, !.offset = o, !.step = st]
      OBVIOUS
    <3>4. /\ q \in SyncRecord /\ q.page = <<>> /\ q.step = st /\ q.offset = o
      <4>1. <<>> \in Seq(Copies) /\ st \in {"idle", "list", "item", "done"}
        OBVIOUS
      <4> QED
        BY <3>3, <4>1 DEF SyncRecord
    <3>5. sync' = [sync EXCEPT ![j] = q]
      BY <1>1, <1>3, <2>2, <3>1, <3>2, <3>3 DEF NextCompany
    <3>6. r.full = TRUE \/ r.full = FALSE
      BY DEF SyncRecord
    <3>7. Bound(q) = Bound(r)
      BY <1>1, <3>1, <3>2, <3>4, <3>6 DEF Bound
    <3> QED
      BY <1>1, <3>1, <3>4, <3>5, <3>7
  <2> QED
    BY <2>1, <2>2
<1>5. \A i \in Jobs : sync'[i] = IF i = j THEN q ELSE sync[i]
  BY <1>3, <1>4
<1> QED
  BY <1>1, <1>3, <1>4, <1>5

LEMMA ReadPageStep ==
    ASSUME SyncInv, NEW j \in Jobs, ReadPage(j)
    PROVE  SyncInv'
<1>1. PICK r \in SyncRecord, h \in PastRecord :
          /\ r = sync[j] /\ h = past[j] /\ r.step = "list"
          /\ h.steady \subseteq ListedIn(status)
          /\ Cardinality(MissedIn(h, r.offset, ListedIn(status))) <= h.suspensions
  <2>1. Bound(sync[j]) = sync[j].offset /\ sync[j].step = "list"
    BY DEF ReadPage, Bound
  <2> QED
    BY <2>1 DEF SyncInv, SyncTypes, MissedInv
<1>2. PICK page \in ListAllActive(sync[j].offset) :
          /\ sync' = [sync EXCEPT ![j].step = IF page = <<>> THEN "done" ELSE "item",
                                  ![j].page = page,
                                  ![j].full = Len(page) = Limit]
          /\ past' = [past EXCEPT ![j].seen = @ \cup {page[i].id : i \in DOMAIN page}]
          /\ status' = status
  BY DEF ReadPage
<1>3. PICK L \in SUBSET CompanyIds : L = ListedIn(status) /\ L = Listed
  BY DEF ListedIn, Listed
<1>4. PICK k \in 0 .. Limit :
          /\ page \in [1 .. k -> Copies]
          /\ {page[i].id : i \in DOMAIN page} = PageIn(r.offset, L)
  <2>1. \A n : Ahead(n) = AheadIn(n, L)
    BY <1>3 DEF Ahead, AheadIn
  <2>2. /\ page \in UNION {[1 .. k -> Copies] : k \in 0 .. Limit}
        /\ {page[i].id : i \in DOMAIN page} =
               {n \in Listed : Ahead(n) \in r.offset .. r.offset + Limit - 1}
    BY <1>1 DEF ListAllActive
  <2> QED
    BY <1>3, <2>1, <2>2 DEF PageIn
<1>5. k \in Nat /\ page \in Seq(Copies) /\ Len(page) = k /\ Limit \in Nat /\ Limit > 0
  BY <1>4, SyncAssumption
<1>6. PICK full \in BOOLEAN : full = (Len(page) = Limit)
  <2>1. CASE Len(page) = Limit
    BY <2>1
  <2>2. CASE Len(page) # Limit
    BY <2>2
  <2> QED
    BY <2>1, <2>2
<1>7. PICK st \in {"done", "item"} : st = IF page = <<>> THEN "done" ELSE "item"
  OBVIOUS
<1>8. PICK q : q = [r EXCEPT !.step = st, !.page = page, !.full = full]
  OBVIOUS
<1>9. /\ q \in SyncRecord /\ q.step = st /\ q.page = page /\ q.full = full
      /\ q.offset = r.offset
  BY <1>5, <1>8 DEF SyncRecord
<1>10. sync' = [sync EXCEPT ![j] = q]
  BY <1>1, <1>2, <1>6, <1>7, <1>8 DEF SyncInv, SyncTypes
<1>11. PICK P \in SUBSET CompanyIds : P = PageIn(r.offset, L)
  BY DEF PageIn
<1>12. PICK g : g = [h EXCEPT !.seen = h.seen \cup P]
  OBVIOUS
<1>13. /\ g \in PastRecord /\ g.seen = h.seen \cup P /\ g.steady = h.steady
       /\ g.suspensions = h.suspensions
  BY <1>12 DEF PastRecord
<1>14. past' = [past EXCEPT ![j] = g]
  BY <1>1, <1>2, <1>4, <1>11, <1>12 DEF SyncInv, SyncTypes
<1>15. r.offset \in Nat
  BY SyncAssumption DEF SyncRecord
<1>16. q.step = "item" => q.page # <<>> /\ q.offset <= N
  <2>1. SUFFICES ASSUME page # <<>> PROVE r.offset <= N
    BY <1>7, <1>9
  <2>2. 1 \in DOMAIN page
    BY <1>4, <1>5, <2>1
  <2>3. PICK n \in PageIn(r.offset, L) : TRUE
    BY <1>4, <2>2
  <2>4. /\ n \in L /\ AheadIn(n, L) \in r.offset .. r.offset + Limit - 1
    BY DEF PageIn
  <2>5. AheadIn(n, L) \in Nat /\ AheadIn(n, L) < N
    BY <2>4, AheadType
  <2> QED
    BY <1>5, <1>15, <2>4, <2>5, SyncAssumption
<1>17. MissedIn(g, Bound(q), L) \subseteq MissedIn(h, r.offset, L)
  <2>1. SUFFICES ASSUME NEW n \in MissedIn(g, Bound(q), L)
                 PROVE  n \in MissedIn(h, r.offset, L)
    OBVIOUS
  <2>2. /\ n \in h.steady \ h.seen /\ n \notin P /\ n \in L
        /\ AheadIn(n, L) < Bound(q)
    BY <1>1, <1>3, <1>13, <2>1 DEF MissedIn
  <2>3. AheadIn(n, L) \in Nat
    BY <2>2, AheadType
  <2>4. AheadIn(n, L) < r.offset + Limit
    <3>1. CASE k = Limit
      <4>1. full = TRUE /\ page # <<>>
        <5>1. Len(page) = Limit /\ Len(page) > 0
          BY <1>5, <3>1
        <5>2. full = TRUE
          BY <1>6, <5>1
        <5>3. page # <<>>
          BY <1>5, <5>1
        <5> QED
          BY <5>2, <5>3
      <4>2. Bound(q) = r.offset + Limit
        BY <1>7, <1>9, <4>1 DEF Bound
      <4> QED
        BY <2>2, <4>2
    <3>2. CASE k # Limit
      <4>1. k \in 0 .. Limit - 1
        BY <1>5, <3>2
      <4> QED
        BY <1>4, <1>15, <2>2, <4>1, LastPage
    <3> QED
      BY <3>1, <3>2
  <2>5. AheadIn(n, L) \notin r.offset .. r.offset + Limit - 1
    BY <1>11, <2>2 DEF PageIn
  <2>6. AheadIn(n, L) < r.offset
    BY <1>5, <1>15, <2>3, <2>4, <2>5
  <2> QED
    BY <2>2, <2>6 DEF MissedIn
<1>18. Cardinality(MissedIn(g, Bound(q), L)) <= g.suspensions
  <2>1. /\ Cardinality(MissedIn(g, Bound(q), L)) <= Cardinality(MissedIn(h, r.offset, L))
        /\ Cardinality(MissedIn(g, Bound(q), L)) \in Nat
        /\ Cardinality(MissedIn(h, r.offset, L)) \in Nat
    BY <1>13, <1>17, MissedFalls, MissedType
  <2>2. h.suspensions \in Nat
    BY SyncAssumption DEF PastRecord
  <2> QED
    BY <1>1, <1>3, <1>13, <2>1, <2>2
<1>19. Cardinality(MissedIn(g, Bound(q), ListedIn(status))) <= g.suspensions
  BY <1>3, <1>18
<1>20. g.steady \subseteq ListedIn(status)
  BY <1>1, <1>13
<1>21. q \in SyncRecord /\ g \in PastRecord /\ status' = status
  BY <1>2, <1>9, <1>13
<1> QED
  BY <1>10, <1>14, <1>16, <1>19, <1>20, <1>21, RunMoves

LEMMA NothingMissed ==
    ASSUME NEW h \in PastRecord, NEW b, NEW L \in SUBSET CompanyIds,
           h.steady \subseteq L, h.steady = {} \/ b = 0, h.suspensions = 0
    PROVE  Cardinality(MissedIn(h, b, L)) <= h.suspensions
<1>1. MissedIn(h, b, L) = {}
  <2>1. SUFFICES ASSUME NEW n \in MissedIn(h, b, L) PROVE FALSE
    OBVIOUS
  <2>2. n \in h.steady /\ n \in L /\ AheadIn(n, L) < b
    BY <2>1 DEF MissedIn
  <2>3. AheadIn(n, L) \in Nat
    BY <2>2, AheadType
  <2> QED
    BY <2>2, <2>3
<1> QED
  BY <1>1, FS_EmptySet

LEMMA InitSync == SyncInit => SyncInv
<1> SUFFICES ASSUME SyncInit PROVE SyncInv
  OBVIOUS
<1>1. \A j \in Jobs : sync[j] = NoRun /\ past[j] = NoPast
  BY DEF SyncInit
<1>2. SyncTypes
  BY <1>1, RunShapes DEF SyncInit, SyncTypes
<1>3. MissedInv
  <2>1. ListedIn(status) \in SUBSET CompanyIds
    BY DEF ListedIn
  <2>2. Cardinality(MissedIn(NoPast, Bound(NoRun), ListedIn(status))) <= NoPast.suspensions
    BY <2>1, RunShapes, NothingMissed
  <2> QED
    BY <1>1, <2>2, RunShapes DEF MissedInv
<1> QED
  BY <1>2, <1>3 DEF SyncInv

LEMMA StepSync == SyncInv /\ [SyncNext]_syncVars => SyncInv'
<1> SUFFICES ASSUME SyncInv, [SyncNext]_syncVars PROVE SyncInv'
  OBVIOUS
<1>0. ListedIn(status) \in SUBSET CompanyIds
  BY DEF ListedIn
<1>1. CASE UNCHANGED syncVars
  BY <1>1 DEF syncVars, SyncInv, SyncTypes, MissedInv
<1>2. ASSUME NEW n \in CompanyIds, NEW s \in {"active", "pending", "suspended"},
             UpdateCompany(n, s), past' = past \/ past' = Record(n, s),
             s = "suspended" => past' = Record(n, s), sync' = sync
      PROVE  SyncInv'
  <2>1. s # "suspended" => past' = past
    <3>1. s # "suspended" => Record(n, s) = [j \in Jobs |-> past[j]]
      BY DEF Record
    <3>2. past = [j \in Jobs |-> past[j]]
      BY DEF SyncInv, SyncTypes
    <3> QED
      BY <1>2, <3>1, <3>2
  <2>2. /\ MissedInv' /\ past' \in [Jobs -> PastRecord]
        /\ status' \in [CompanyIds -> {"absent", "active", "pending", "suspended"}]
    BY <1>2, <2>1, WriteCompany DEF UpdateCompany
  <2> QED
    BY <1>2, <2>2 DEF SyncInv, SyncTypes
<1>3. ASSUME NEW n \in CompanyIds, NEW answr \in Answers, CreateCompany(n, answr)
      PROVE  SyncInv'
  BY <1>2, <1>3 DEF CreateCompany
<1>4. ASSUME NEW n \in CompanyIds, SuspendCompany(n) \/ ActivateCompany(n)
      PROVE  SyncInv'
  BY <1>2, <1>4 DEF SuspendCompany, ActivateCompany
<1>5. ASSUME NEW n \in CompanyIds, NEW s \in {"active", "suspended", "pending"},
             UpdateCompanyStatus(n, s)
      PROVE  SyncInv'
  BY <1>2, <1>5 DEF UpdateCompanyStatus
<1>6. ASSUME NEW j \in Jobs, SyncAll(j) PROVE SyncInv'
  <2>1. PICK h : h = [NoPast EXCEPT !.steady = Listed]
    OBVIOUS
  <2>2. Listed = ListedIn(status)
    BY DEF Listed, ListedIn
  <2>3. h \in PastRecord /\ h.steady = ListedIn(status) /\ h.suspensions = 0
    BY <1>0, <2>1, <2>2, RunShapes DEF PastRecord
  <2>4. PICK r \in SyncRecord :
            r = [NoRun EXCEPT !.step = "list"] /\ r.step = "list" /\ Bound(r) = 0
    BY RunShapes
  <2>5. /\ sync' = [sync EXCEPT ![j] = r] /\ past' = [past EXCEPT ![j] = h]
        /\ status' = status
    BY <1>6, <2>1, <2>4 DEF SyncAll
  <2>6. Cardinality(MissedIn(h, Bound(r), ListedIn(status))) <= h.suspensions
    BY <1>0, <2>3, <2>4, NothingMissed
  <2> QED
    BY <1>6, <2>3, <2>4, <2>5, <2>6, RunMoves
<1>7. ASSUME NEW j \in Jobs, JobFails(j) PROVE SyncInv'
  <2>1. /\ sync' = [sync EXCEPT ![j] = NoRun] /\ past' = [past EXCEPT ![j] = NoPast]
        /\ status' = status
    BY <1>7 DEF JobFails
  <2>2. Cardinality(MissedIn(NoPast, Bound(NoRun), ListedIn(status))) <= NoPast.suspensions
    BY <1>0, RunShapes, NothingMissed
  <2> QED
    BY <1>7, <2>1, <2>2, RunShapes, RunMoves
<1>8. ASSUME NEW j \in Jobs, ReadPage(j) PROVE SyncInv'
  BY <1>8, ReadPageStep
<1>9. ASSUME NEW j \in Jobs, sync[j].step = "item", NextCompany(j),
             UNCHANGED <<status, past>>
      PROVE  SyncInv'
  <2>1. /\ sync' \in [Jobs -> SyncRecord]
        /\ \A i \in Jobs :
              /\ sync'[i].step = "item" => sync'[i].page # <<>> /\ sync'[i].offset <= N
              /\ Bound(sync'[i]) = Bound(sync[i])
    BY <1>9, NextCompanyMoves
  <2> QED
    BY <1>9, <2>1 DEF SyncInv, SyncTypes, MissedInv
<1>10. ASSUME NEW j \in Jobs, NEW answr \in Answers, SyncCompany(j, answr)
       PROVE  SyncInv'
  <2>1. sync[j].step = "item" /\ NextCompany(j)
    BY <1>10 DEF SyncCompany
  <2>2. /\ sync' \in [Jobs -> SyncRecord]
        /\ \A i \in Jobs :
              /\ sync'[i].step = "item" => sync'[i].page # <<>> /\ sync'[i].offset <= N
              /\ Bound(sync'[i]) = Bound(sync[i])
    BY <2>1, NextCompanyMoves
  <2>3. PICK c \in Copies : c = Head(sync[j].page)
    BY <2>1 DEF SyncInv, SyncTypes, SyncRecord
  <2>4. c.id \in CompanyIds
    BY DEF Copies
  <2>5. PICK s \in {"active", "suspended"} : s = MapStatus(answr)
    BY DEF MapStatus
  <2>6. CASE c.status = s
    BY <1>9, <1>10, <2>1, <2>3, <2>5, <2>6 DEF SyncCompany
  <2>7. CASE c.status # s
    <3>1. status' = [status EXCEPT ![c.id] = s] /\ past' = Record(c.id, s)
      BY <1>10, <2>3, <2>5, <2>7 DEF SyncCompany, UpdateCompany
    <3>2. s # "suspended" => past' = past
      <4>1. s # "suspended" => Record(c.id, s) = [i \in Jobs |-> past[i]]
        BY DEF Record
      <4>2. past = [i \in Jobs |-> past[i]]
        BY DEF SyncInv, SyncTypes
      <4> QED
        BY <3>1, <4>1, <4>2
    <3>3. /\ MissedInv' /\ past' \in [Jobs -> PastRecord]
          /\ status' \in [CompanyIds -> {"absent", "active", "pending", "suspended"}]
      BY <2>2, <2>4, <3>1, <3>2, WriteCompany
    <3> QED
      BY <2>2, <3>3 DEF SyncInv, SyncTypes
  <2> QED
    BY <2>6, <2>7
<1> QED
  BY <1>1, <1>3, <1>4, <1>5, <1>6, <1>7, <1>8, <1>9, <1>10
  DEF SyncNext, SyncStep, SyncCompanyFails

\* SyncAll pages by OFFSET over a table that changes under it: for any number
\* of companies, page size and overlapping jobs, a finished run has missed no
\* more of the companies listed all along than were suspended meanwhile.
THEOREM SyncCorrect == SyncSpec => []SyncSound
<1>1. ASSUME SyncInv PROVE SyncSound
  <2>1. SyncTypeOK
    BY <1>1 DEF SyncInv, SyncTypes, SyncTypeOK, SyncRecord, PastRecord
  <2>2. ASSUME NEW j \in Jobs, sync[j].step = "done"
        PROVE  Cardinality(past[j].steady \ past[j].seen) <= past[j].suspensions
    <3>1. Bound(sync[j]) = N
      BY <2>2 DEF Bound
    <3>2. ListedIn(status) \in SUBSET CompanyIds /\ past[j].steady \subseteq ListedIn(status)
      BY <1>1 DEF SyncInv, MissedInv, ListedIn
    <3>3. \A n \in past[j].steady : AheadIn(n, ListedIn(status)) < N
      BY <3>2, AheadType
    <3>4. MissedIn(past[j], N, ListedIn(status)) = past[j].steady \ past[j].seen
      BY <3>3 DEF MissedIn
    <3> QED
      BY <1>1, <3>1, <3>4 DEF SyncInv, MissedInv
  <2> QED
    BY <2>1, <2>2 DEF SyncSound, SkipsExplained
<1> QED
  BY <1>1, InitSync, StepSync, PTL DEF SyncSpec

\* syncCompany writes back only what the registry changed: a suspension ends by
\* an activation, or by a copy that was pending when the page was read.
THEOREM SuspensionCorrect == SyncSpec => SuspensionSticks
<1> DEFINE Ended(n) ==
             \/ ActivateCompany(n)
             \/ \E s \in {"active", "pending"} : UpdateCompanyStatus(n, s)
             \/ \E j \in Jobs : /\ sync[j].step = "item"
                                /\ Head(sync[j].page) = [id |-> n, status |-> "pending"]
                                /\ sync'[j] # sync[j]
<1>1. ASSUME SyncInv, [SyncNext]_syncVars, NEW n \in CompanyIds,
             status[n] = "suspended", status'[n] # "suspended"
      PROVE  Ended(n)
  <2>1. status \in [CompanyIds -> {"absent", "active", "pending", "suspended"}]
    BY <1>1 DEF SyncInv, SyncTypes
  <2>2. status' # status
    BY <1>1
  <2>3. ASSUME NEW m \in CompanyIds, NEW s, UpdateCompany(m, s)
        PROVE  m = n /\ s # "suspended"
    BY <1>1, <2>1, <2>3 DEF UpdateCompany
  <2>4. ASSUME NEW m \in CompanyIds, NEW answr \in Answers, CreateCompany(m, answr)
        PROVE  FALSE
    BY <1>1, <2>3, <2>4 DEF CreateCompany
  <2>5. ASSUME NEW m \in CompanyIds, SuspendCompany(m) PROVE FALSE
    BY <2>3, <2>5 DEF SuspendCompany
  <2>6. ASSUME NEW m \in CompanyIds, ActivateCompany(m) PROVE Ended(n)
    <3>1. m = n
      BY <2>3, <2>6 DEF ActivateCompany
    <3> QED
      BY <2>6, <3>1
  <2>7. ASSUME NEW m \in CompanyIds, NEW s \in {"active", "suspended", "pending"},
               UpdateCompanyStatus(m, s)
        PROVE  Ended(n)
    <3>1. m = n /\ s # "suspended"
      BY <2>3, <2>7 DEF UpdateCompanyStatus
    <3> QED
      BY <2>7, <3>1
  <2>8. ASSUME NEW j \in Jobs, NEW answr \in Answers, SyncCompany(j, answr)
        PROVE  Ended(n)
    <3>1. sync[j].step = "item" /\ NextCompany(j)
      BY <2>8 DEF SyncCompany
    <3>2. sync'[j] # sync[j]
      BY <1>1, <3>1, NextCompanyMoves
    <3>3. PICK c \in Copies : c = Head(sync[j].page)
      BY <1>1, <3>1 DEF SyncInv, SyncTypes, SyncRecord
    <3>4. PICK s \in {"active", "suspended"} : s = MapStatus(answr)
      BY DEF MapStatus
    <3>5. c.status # s /\ UpdateCompany(c.id, s)
      BY <2>2, <2>8, <3>3, <3>4 DEF SyncCompany
    <3>6. c.id = n /\ s = "active" /\ c.status \in {"active", "pending"}
      BY <2>3, <3>5 DEF Copies
    <3>7. c = [id |-> n, status |-> "pending"]
      BY <3>5, <3>6 DEF Copies
    <3> QED
      BY <3>1, <3>2, <3>3, <3>7
  <2>9. ~(UNCHANGED syncVars) /\ \A j \in Jobs :
            ~SyncAll(j) /\ ~JobFails(j) /\ ~ReadPage(j) /\ ~SyncCompanyFails(j)
    BY <2>2 DEF syncVars, SyncAll, JobFails, ReadPage, SyncCompanyFails
  <2> HIDE DEF Ended
  <2> QED
    BY <1>1, <2>4, <2>5, <2>6, <2>7, <2>8, <2>9 DEF SyncNext, SyncStep
<1>2. SyncInv /\ [SyncNext]_syncVars =>
        [\A n \in CompanyIds :
            status[n] = "suspended" /\ status'[n] # "suspended" => Ended(n)]_syncVars
  BY <1>1
<1> QED
  BY <1>2, InitSync, StepSync, PTL DEF SyncSpec, SuspensionSticks

=============================================================================
