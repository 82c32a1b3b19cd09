---------------------------- MODULE EventFanout -----------------------------
(***************************************************************************)
(* In-process events: InMemoryBus and its subscribers for one type of      *)
(* event that has them all, CompanyUserAdded: the audit log, the webhooks  *)
(* of the tenant and the companyUserAdded subscriptions of GraphQL.        *)
(*                                                                         *)
(* Publish copies the handlers under the lock and starts one goroutine for *)
(* each; there is no retry anywhere.  The context a handler gets is the    *)
(* one of the request that published, which ends with the request.         *)
(***************************************************************************)
EXTENDS Naturals

CONSTANTS
    Events,     \* events published, each by a request of its own
    Hooks,      \* webhooks that can be created
    Viewers     \* GraphQL subscriptions

\* A viewer's handler is none of the bus's own.
ASSUME ViewersAssumption == Viewers \cap {"publish", "audit", "webhook"} = {}

VARIABLES
    started,    \* events whose publishing goroutine was started
    published,  \* events published so far
    open,       \* events whose request is still running
    tasks,      \* goroutines: <<"publish" or a handler, event>>
    hooks,      \* webhooks: "none", "active" or "deleted", by id
    due,        \* hooks that were active when an event was published
    sending,    \* dispatch goroutines: <<hook, event>>
    called,     \* called[h][e]: requests sent to the hook's URL
    unsent,     \* dispatches that failed: <<hook, event>>
    unlisted,   \* active hooks that ListByEvent did not give: <<hook, event>>
    log,        \* log[e]: rows of audit_logs
    unlogged,   \* events whose INSERT into audit_logs failed
    viewer,     \* viewer[v]: "none", "on", or "gone" (its context ended)
    handlers,   \* viewers in the bus's table of handlers
    channel     \* channel[v]: events sent to the client so far

fanoutVars ==
    <<started, published, open, tasks, hooks, due, sending, called, unsent, unlisted,
      log, unlogged, viewer, handlers, channel>>

hookVars == <<hooks, due, sending, called, unsent, unlisted>>
logVars == <<log, unlogged>>
viewVars == <<viewer, handlers, channel>>

FanoutInit ==
    /\ started = {} /\ published = {} /\ open = {} /\ tasks = {}
    /\ hooks = [h \in Hooks |-> "none"]
    /\ due = {} /\ sending = {} /\ unsent = {} /\ unlisted = {}
    /\ called = [h \in Hooks |-> [e \in Events |-> 0]]
    /\ log = [e \in Events |-> 0] /\ unlogged = {}
    /\ viewer = [v \in Viewers |-> "none"] /\ handlers = {}
    /\ channel = [v \in Viewers |-> {}]

ActiveHooks == {h \in Hooks : hooks[h] = "active"}

-----------------------------------------------------------------------------
(* The bus.  The services subscribe when they are created.                 *)

Snapshot == {"audit", "webhook"} \cup handlers

\* publishAsync: the request goes on and answers.
PublishAsync(e) ==
    /\ e \notin started
    /\ started' = started \cup {e} /\ open' = open \cup {e}
    /\ tasks' = tasks \cup {<<"publish", e>>}
    /\ UNCHANGED <<published, hookVars, logVars, viewVars>>

Publish(e) ==
    /\ <<"publish", e>> \in tasks
    /\ published' = published \cup {e}
    /\ tasks' = (tasks \ {<<"publish", e>>}) \cup {<<s, e>> : s \in Snapshot}
    /\ due' = due \cup {<<h, e>> : h \in ActiveHooks}
    /\ UNCHANGED <<started, open, hooks, sending, called, unsent, unlisted, logVars, viewVars>>

RequestEnds(e) ==
    /\ e \in open
    /\ open' = open \ {e}
    /\ UNCHANGED <<started, published, tasks, hookVars, logVars, viewVars>>

-----------------------------------------------------------------------------
(* AuditService.handleEvent writes with a context of its own.              *)

\* Mutant of CreateLog: the request's context is used.
CreateLog_RequestContext(e) ==
    /\ <<"audit", e>> \in tasks
    /\ tasks' = tasks \ {<<"audit", e>>}
    /\ log' = IF e \in open THEN [log EXCEPT ![e] = @ + 1] ELSE log
    /\ UNCHANGED <<started, published, open, hookVars, unlogged, viewVars>>

CreateLog(e) ==
    /\ <<"audit", e>> \in tasks
    /\ tasks' = tasks \ {<<"audit", e>>}
    /\ log' = [log EXCEPT ![e] = @ + 1]
    /\ UNCHANGED <<started, published, open, hookVars, unlogged, viewVars>>

CreateLogFails(e) ==
    /\ <<"audit", e>> \in tasks
    /\ tasks' = tasks \ {<<"audit", e>>}
    /\ unlogged' = unlogged \cup {e}
    /\ UNCHANGED <<started, published, open, hookVars, log, viewVars>>

-----------------------------------------------------------------------------
(* WebhookService.                                                         *)

NewWebhook == "active"

CreateWebhook(h) ==
    /\ hooks[h] = "none"
    /\ hooks' = [hooks EXCEPT ![h] = NewWebhook]
    /\ UNCHANGED <<started, published, open, tasks, due, sending, called, unsent, unlisted, logVars, viewVars>>

DeleteWebhook(h) ==
    /\ hooks[h] = "active"
    /\ hooks' = [hooks EXCEPT ![h] = "deleted"]
    /\ UNCHANGED <<started, published, open, tasks, due, sending, called, unsent, unlisted, logVars, viewVars>>

\* handleEvent lists with the request's context, and starts one goroutine for
\* each hook.  When the context or the connection ends in the middle of the rows,
\* what was read until then is the list: rows.Err is not asked.
ListByEvent(e) ==
    /\ <<"webhook", e>> \in tasks
    /\ e \in open
    /\ tasks' = tasks \ {<<"webhook", e>>}
    /\ \E listed \in SUBSET ActiveHooks :
          /\ sending' = sending \cup {<<h, e>> : h \in listed}
          /\ unlisted' = unlisted \cup {<<h, e>> : h \in ActiveHooks \ listed}
    /\ UNCHANGED <<started, published, open, hooks, due, called, unsent, logVars, viewVars>>

\* The query fails, as it does once the request has ended.
ListByEventFails(e) ==
    /\ <<"webhook", e>> \in tasks
    /\ tasks' = tasks \ {<<"webhook", e>>}
    /\ unlisted' = unlisted \cup {<<h, e>> : h \in ActiveHooks}
    /\ UNCHANGED <<started, published, open, hooks, due, sending, called, unsent, logVars, viewVars>>

\* One POST, whatever the answer's status.
Dispatch(h, e) ==
    /\ <<h, e>> \in sending
    /\ called' = [called EXCEPT ![h][e] = @ + 1]
    /\ sending' = sending \ {<<h, e>>}
    /\ UNCHANGED <<started, published, open, tasks, hooks, due, unsent, unlisted, logVars, viewVars>>

DispatchFails(h, e) ==
    /\ <<h, e>> \in sending
    /\ sending' = sending \ {<<h, e>>}
    /\ unsent' = unsent \cup {<<h, e>>}
    /\ UNCHANGED <<started, published, open, tasks, hooks, due, called, unlisted, logVars, viewVars>>

\* ListWebhooks, ListLogs, and a DELETE that finds no row.
ReadOnly == UNCHANGED fanoutVars

-----------------------------------------------------------------------------
(* The companyUserAdded subscription.                                      *)

Subscribe(v) ==
    /\ viewer[v] = "none"
    /\ viewer' = [viewer EXCEPT ![v] = "on"]
    /\ handlers' = handlers \cup {v}
    /\ UNCHANGED <<started, published, open, tasks, hookVars, logVars, channel>>

Leave(v) ==
    /\ viewer[v] = "on"
    /\ viewer' = [viewer EXCEPT ![v] = "gone"]
    /\ UNCHANGED <<started, published, open, tasks, hookVars, logVars, handlers, channel>>

\* The goroutine that waits for ctx.Done.
Unsubscribe(v) ==
    /\ viewer[v] = "gone" /\ v \in handlers
    /\ handlers' = handlers \ {v}
    /\ UNCHANGED <<started, published, open, tasks, hookVars, logVars, viewer, channel>>

\* The type the services publish with and the one the handler asserts: two
\* structs of the same name.
PayloadType == "company.CompanyUserAddedPayload"
AssertedType == "event.CompanyUserAddedPayload"

\* A payload of another type ends the handler without an error.
Forward(v, e) ==
    /\ <<v, e>> \in tasks
    /\ tasks' = tasks \ {<<v, e>>}
    /\ channel' = IF PayloadType = AssertedType
                  THEN [channel EXCEPT ![v] = @ \cup {e}] ELSE channel
    /\ UNCHANGED <<started, published, open, hookVars, logVars, viewer, handlers>>

AuditStep(e) == CreateLog(e) \/ CreateLogFails(e)
HookStep(h, e) == Dispatch(h, e) \/ DispatchFails(h, e)
ListStep(e) == ListByEvent(e) \/ ListByEventFails(e)

FanoutNext ==
    \/ \E e \in Events :
         \/ PublishAsync(e) \/ Publish(e) \/ RequestEnds(e)
         \/ AuditStep(e) \/ ListStep(e)
         \/ \E h \in Hooks : HookStep(h, e)
         \/ \E v \in Viewers : Forward(v, e)
    \/ \E h \in Hooks : CreateWebhook(h) \/ DeleteWebhook(h)
    \/ ReadOnly
    \/ \E v \in Viewers : Subscribe(v) \/ Leave(v) \/ Unsubscribe(v)

FanoutSpec == FanoutInit /\ [][FanoutNext]_fanoutVars

-----------------------------------------------------------------------------
(* Types: a goroutine that is not the publisher's serves a published event. *)
FanoutTypeOK ==
    /\ published \subseteq started /\ open \subseteq started
    /\ \A t \in tasks : IF t[2] \in published
                        THEN t[1] \in {"audit", "webhook"} \cup Viewers
                        ELSE t = <<"publish", t[2]>>
    /\ hooks \in [Hooks -> {"none", "active", "deleted"}]
    /\ sending \subseteq Hooks \X published /\ due \subseteq Hooks \X published
    /\ handlers \subseteq Viewers

(* No subscriber hears of an event twice: one audit row and one request    *)
(* per webhook at most, although every handler runs unsupervised.          *)
AtMostOnce ==
    /\ \A e \in Events : log[e] <= 1
    /\ \A h \in Hooks, e \in Events : called[h][e] <= 1

(* An event without an audit row once its handler is done is one whose     *)
(* INSERT failed: a request that ends early takes no audit row with it.    *)
AuditComplete ==
    \A e \in published :
        log[e] = 0 /\ <<"audit", e>> \notin tasks => e \in unlogged

(* A webhook that was active when the event was published and was not      *)
(* deleted since has been called once the goroutines are done, unless the  *)
(* list was read too late (the request had ended), failed or ended before  *)
(* this hook's row, or the POST failed.                                    *)
MissedHookExplained ==
    \A h \in Hooks, e \in Events :
        /\ <<h, e>> \in due /\ hooks[h] = "active"
        /\ <<"webhook", e>> \notin tasks /\ <<h, e>> \notin sending
        => called[h][e] > 0 \/ <<h, e>> \in unsent \cup unlisted

\* Every subscriber gets an event at most once, the audit log gets every one,
\* and a webhook that is missed has a reason, although nobody waits for the
\* goroutines.
FanoutSound == FanoutTypeOK /\ AtMostOnce /\ AuditComplete /\ MissedHookExplained

=============================================================================
