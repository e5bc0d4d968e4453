-------------------------- MODULE MerchantDelivery --------------------------
(***************************************************************************)
(* Outbound merchant webhooks, from the announcement to the merchant's     *)
(* endpoint: emit creates an event row and one delivery row per endpoint,  *)
(* workers claim due deliveries in batches and post them, operators create *)
(* and disable endpoints, rotate their secrets, requeue a delivery or      *)
(* replay an event.  Each statement is a step of its own.                  *)
(*                                                                         *)
(* Names.  An event row is named by its dedupe key (Notices), which a      *)
(* unique index guards; a delivery row by its event and its endpoint, for  *)
(* the same reason.                                                        *)
(***************************************************************************)
EXTENDS Integers, FiniteSets

CONSTANTS Notices,      \* dedupe keys of the events
          Endpoints,    \* endpoint ids
          Secrets,      \* signing secrets generated for the endpoints
          Emitters,     \* concurrent emit calls
          Workers,      \* concurrent runs of deliver-merchant-webhooks
          Replays,      \* concurrent replays of an event
          MaxAttempts,  \* outboundWebhookMaxAttempts
          ClaimLimit,   \* --limit of a worker run
          MaxRequeues,  \* bound of the model: requeues of one delivery
          MaxUnheard,   \* bound of the model: successes that are not recorded
          None

ASSUME DeliveryAssumption ==
    /\ MaxAttempts \in Nat \ {0} /\ ClaimLimit \in Nat
    /\ MaxRequeues \in Nat /\ MaxUnheard \in Nat
    /\ IsFiniteSet(Workers)
    /\ None \notin Notices \cup Endpoints \cup Secrets \cup (Notices \X Endpoints)

VARIABLES
    endpoints,   \* po_merchant_webhook_endpoints
    events,      \* po_merchant_webhook_events
    deliveries,  \* po_merchant_webhook_deliveries
    emitting,    \* the emit calls: what each has read
    working,     \* the worker runs: what each has claimed
    replaying,   \* the replays: the endpoints each has still to insert
    listed,      \* history: the endpoints an event was created for
    cut,         \* history: events whose emitter ended before its last insert
    handled,     \* history: posts the merchant accepted, per delivery
    unheard,     \* history: of those, the ones not recorded as success
    requeues,    \* history: operator's requeues, per delivery
    died         \* history: deliveries whose last holder died

tables == <<endpoints, events, deliveries>>
calls == <<emitting, working, replaying>>
history == <<listed, cut, handled, unheard, requeues, died>>
vars == <<tables, calls, history>>

Deliveries == Notices \X Endpoints

DeliveryStatuses == {"absent", "queued", "delivering", "succeeded", "failed", "dead"}

(* subscribes: the events of the types in subscribedEvents.                *)
EndpointRow == [status: {"absent", "active", "disabled"}, subscribes: SUBSET Notices,
                secret: Secrets \cup {None}]

(* due: nextAttemptAt <= now.                                              *)
DeliveryRow == [status: DeliveryStatuses, attempts: Nat, due: BOOLEAN]

EmitCall == [pc: {"idle", "select", "insert", "check", "create"},
             notice: Notices \cup {None}, todo: SUBSET Endpoints,
             at: Endpoints \cup {None}]

(* held[d]: attemptCount as the claim returned it, 0 for what is not held. *)
WorkerRun == [pc: {"idle", "load", "post", "fail", "succeed"},
              held: [Deliveries -> Nat], at: Deliveries \cup {None},
              secret: Secrets \cup {None}]

ReplayCall == [notice: Notices \cup {None}, todo: SUBSET Endpoints]

DeliveryTypeOK ==
    /\ endpoints \in [Endpoints -> EndpointRow]
    /\ events \subseteq Notices
    /\ deliveries \in [Deliveries -> DeliveryRow]
    /\ emitting \in [Emitters -> EmitCall]
    /\ working \in [Workers -> WorkerRun]
    /\ replaying \in [Replays -> ReplayCall]
    /\ listed \in [Notices -> SUBSET Endpoints]
    /\ cut \subseteq Notices
    /\ handled \in [Deliveries -> Nat]
    /\ unheard \in [Deliveries -> Nat]
    /\ requeues \in [Deliveries -> Nat]
    /\ died \subseteq Deliveries

EmitIdle == [pc |-> "idle", notice |-> None, todo |-> {}, at |-> None]
WorkerIdle == [pc |-> "idle", held |-> [d \in Deliveries |-> 0], at |-> None, secret |-> None]
ReplayIdle == [notice |-> None, todo |-> {}]

Init ==
    /\ endpoints = [e \in Endpoints |->
                      [status |-> "absent", subscribes |-> {}, secret |-> None]]
    /\ events = {}
    /\ deliveries = [d \in Deliveries |->
                       [status |-> "absent", attempts |-> 0, due |-> FALSE]]
    /\ emitting = [m \in Emitters |-> EmitIdle]
    /\ working = [w \in Workers |-> WorkerIdle]
    /\ replaying = [r \in Replays |-> ReplayIdle]
    /\ listed = [n \in Notices |-> {}]
    /\ cut = {}
    /\ handled = [d \in Deliveries |-> 0]
    /\ unheard = [d \in Deliveries |-> 0]
    /\ requeues = [d \in Deliveries |-> 0]
    /\ died = {}

(***************************************************************************)
(* Endpoints.                                                              *)
(***************************************************************************)

(* No list of events, or an empty one, subscribes to all.                  *)
Subscription(wanted) == IF wanted = {} THEN Notices ELSE wanted

CreateEndpoint(e, wanted, secret) ==
    /\ endpoints[e].status = "absent"
    /\ endpoints' = [endpoints EXCEPT ![e] =
                       [status |-> "active", subscribes |-> Subscription(wanted),
                        secret |-> secret]]
    /\ UNCHANGED <<events, deliveries, calls, history>>

DisableEndpoint(e) ==
    /\ endpoints[e].status # "absent"
    /\ endpoints' = [endpoints EXCEPT ![e].status = "disabled"]
    /\ UNCHANGED <<events, deliveries, calls, history>>

RotateSecret(e, secret) ==
    /\ endpoints[e].status # "absent"
    /\ endpoints' = [endpoints EXCEPT ![e].secret = secret]
    /\ UNCHANGED <<events, deliveries, calls, history>>

ActiveEndpoints(n) ==
    {e \in Endpoints : endpoints[e].status = "active" /\ n \in endpoints[e].subscribes}

(***************************************************************************)
(* emit.                                                                   *)
(***************************************************************************)
EmitTo(m, step) == emitting' = [emitting EXCEPT ![m].pc = step]
EmitReturns(m) == emitting' = [emitting EXCEPT ![m] = EmitIdle]

(* An event nobody subscribes to is not stored.                            *)
StartEmit(m, n) ==
    /\ emitting[m].pc = "idle"
    /\ ActiveEndpoints(n) # {}
    /\ emitting' = [emitting EXCEPT ![m] =
                      [pc |-> "select", notice |-> n, todo |-> ActiveEndpoints(n), at |-> None]]
    /\ UNCHANGED <<tables, working, replaying, history>>

(* createOrGet selects first: an event already there ends the call.        *)
SelectEvent(m) ==
    /\ emitting[m].pc = "select"
    /\ IF emitting[m].notice \in events THEN EmitReturns(m) ELSE EmitTo(m, "insert")
    /\ UNCHANGED <<tables, working, replaying, history>>

(* ... and then inserts; a concurrent insert of the key makes it throw.    *)
(* (A mutant takes the event it has inserted for one that was there.)      *)
MutantInsertsAndReturns(m) ==
    LET n == emitting[m].notice
    IN  /\ emitting[m].pc = "insert"
        /\ n \notin events
        /\ events' = events \cup {n}
        /\ listed' = [listed EXCEPT ![n] = emitting[m].todo]
        /\ EmitReturns(m)
        /\ UNCHANGED <<endpoints, deliveries, working, replaying, cut, handled, unheard,
                       requeues, died>>

InsertEvent(m) ==
    LET n == emitting[m].notice
    IN  /\ emitting[m].pc = "insert"
        /\ IF n \in events
           THEN EmitReturns(m) /\ UNCHANGED <<events, listed>>
           ELSE /\ events' = events \cup {n}
                /\ listed' = [listed EXCEPT ![n] = emitting[m].todo]
                /\ EmitTo(m, "check")
        /\ UNCHANGED <<endpoints, deliveries, working, replaying, cut, handled, unheard,
                       requeues, died>>

NewDelivery == [status |-> "queued", attempts |-> 0, due |-> TRUE]

(* The next endpoint: is there a delivery already?                         *)
CheckDelivery(m) ==
    \E e \in emitting[m].todo :
        /\ emitting[m].pc = "check"
        /\ IF deliveries[<<emitting[m].notice, e>>].status = "absent"
           THEN emitting' = [emitting EXCEPT ![m] = [@ EXCEPT !.pc = "create", !.at = e]]
           ELSE emitting' = [emitting EXCEPT ![m].todo = @ \ {e}]
        /\ UNCHANGED <<tables, working, replaying, history>>

(* A replay may have inserted it since: the insert throws.                 *)
CreateDelivery(m) ==
    LET n == emitting[m].notice
        e == emitting[m].at
    IN  /\ emitting[m].pc = "create"
        /\ IF deliveries[<<n, e>>].status = "absent"
           THEN /\ deliveries' = [deliveries EXCEPT ![<<n, e>>] = NewDelivery]
                /\ emitting' = [emitting EXCEPT ![m] =
                     [emitting[m] EXCEPT !.pc = "check", !.at = None, !.todo = @ \ {e}]]
                /\ UNCHANGED cut
           ELSE cut' = cut \cup {n} /\ EmitReturns(m) /\ UNCHANGED deliveries
        /\ UNCHANGED <<endpoints, events, working, replaying, listed, handled, unheard,
                       requeues, died>>

FinishEmit(m) ==
    /\ emitting[m].pc = "check"
    /\ emitting[m].todo = {}
    /\ EmitReturns(m)
    /\ UNCHANGED <<tables, working, replaying, history>>

(* A statement throws or the process dies: the deliveries left are never   *)
(* made, because emitting the event again finds it there.                  *)
AbortEmit(m) ==
    /\ emitting[m].pc # "idle"
    /\ cut' = IF emitting[m].pc \in {"check", "create"} THEN cut \cup {emitting[m].notice}
              ELSE cut
    /\ EmitReturns(m)
    /\ UNCHANGED <<tables, working, replaying, listed, handled, unheard, requeues, died>>

(***************************************************************************)
(* The worker.                                                             *)
(***************************************************************************)

(* The condition of the claim.  (Mutants: what is being delivered is       *)
(* claimed too; what has failed is forgotten.)                             *)
MutantClaimsDelivering(d) ==
    deliveries[d].status \in {"queued", "failed", "delivering"} /\ deliveries[d].due
MutantClaimsQueuedOnly(d) == deliveries[d].status = "queued" /\ deliveries[d].due

Claimable(d) == deliveries[d].status \in {"queued", "failed"} /\ deliveries[d].due

Due == {d \in Deliveries : Claimable(d)}

(* claimDue: one statement selects up to limit due rows and claims them.   *)
ClaimDue(w) ==
    /\ working[w].pc = "idle"
    /\ \E batch \in SUBSET Due :
         /\ batch # {}
         /\ Cardinality(batch) <= ClaimLimit
         /\ batch = Due \/ Cardinality(batch) = ClaimLimit
         /\ deliveries' = [d \in Deliveries |->
                             IF d \in batch
                             THEN [deliveries[d] EXCEPT !.status = "delivering",
                                                        !.attempts = @ + 1]
                             ELSE deliveries[d]]
         /\ working' = [working EXCEPT ![w] =
                          [@ EXCEPT !.pc = "load",
                                    !.held = [d \in Deliveries |->
                                                IF d \in batch THEN deliveries[d].attempts + 1
                                                ELSE 0]]]
         /\ died' = died \ batch
    /\ UNCHANGED <<endpoints, events, emitting, replaying, listed, cut, handled, unheard,
                   requeues>>

(* The next delivery: its event and endpoint are read, the secret with it. *)
(* (A mutant skips the delivery of a disabled endpoint.)                   *)
MutantSkipsDisabled(w) ==
    \E d \in Deliveries :
        /\ working[w].pc = "load"
        /\ working[w].held[d] > 0
        /\ working' = IF endpoints[d[2]].status = "active"
                      THEN [working EXCEPT ![w] = [@ EXCEPT !.pc = "post", !.at = d,
                                                            !.secret = endpoints[d[2]].secret]]
                      ELSE [working EXCEPT ![w] = WorkerIdle]
        /\ UNCHANGED <<tables, emitting, replaying, history>>

LoadDelivery(w) ==
    \E d \in Deliveries :
        LET row == endpoints[d[2]]
        IN  /\ working[w].pc = "load"
            /\ working[w].held[d] > 0
            /\ working' = [working EXCEPT ![w] =
                             [@ EXCEPT !.at = d, !.secret = row.secret,
                                       !.pc = IF row.status = "active" THEN "post" ELSE "fail"]]
            /\ UNCHANGED <<tables, emitting, replaying, history>>

(* The merchant answers 2xx; it verifies with the endpoint's last secret.  *)
PostAccepted(w) ==
    LET d == working[w].at
    IN  /\ working[w].pc = "post"
        /\ working[w].secret = endpoints[d[2]].secret
        /\ handled' = [handled EXCEPT ![d] = @ + 1]
        /\ working' = [working EXCEPT ![w].pc = "succeed"]
        /\ UNCHANGED <<tables, emitting, replaying, listed, cut, unheard, requeues, died>>

(* Another answer, an unreachable endpoint.  (A mutant takes any answer    *)
(* for a success.)                                                         *)
MutantAnyAnswer(w) ==
    /\ working[w].pc = "post"
    /\ working' = [working EXCEPT ![w].pc = "succeed"]
    /\ UNCHANGED <<tables, emitting, replaying, history>>

PostRefused(w) ==
    /\ working[w].pc = "post"
    /\ working' = [working EXCEPT ![w].pc = "fail"]
    /\ UNCHANGED <<tables, emitting, replaying, history>>

(* The merchant accepts and the service does not learn it in time.         *)
PostTimesOut(w) ==
    LET d == working[w].at
    IN  /\ working[w].pc = "post"
        /\ working[w].secret = endpoints[d[2]].secret
        /\ unheard[d] < MaxUnheard
        /\ handled' = [handled EXCEPT ![d] = @ + 1]
        /\ unheard' = [unheard EXCEPT ![d] = @ + 1]
        /\ working' = [working EXCEPT ![w].pc = "fail"]
        /\ UNCHANGED <<tables, emitting, replaying, listed, cut, requeues, died>>

(* The run w is done with the delivery it stands at.                       *)
NextInBatch(w) ==
    LET left == [working[w].held EXCEPT ![working[w].at] = 0]
    IN  working' = [working EXCEPT ![w] =
                      [pc |-> IF \E d \in Deliveries : left[d] > 0 THEN "load" ELSE "idle",
                       held |-> left, at |-> None, secret |-> None]]

(* markSucceeded, by id: whatever the row has become.                      *)
MarkSucceeded(w) ==
    /\ working[w].pc = "succeed"
    /\ deliveries' = [deliveries EXCEPT ![working[w].at].status = "succeeded"]
    /\ NextInBatch(w)
    /\ UNCHANGED <<endpoints, events, emitting, replaying, history>>

(* markSucceeded is inside the try: if it throws, the attempt has failed.  *)
MarkSucceededThrows(w) ==
    LET d == working[w].at
    IN  /\ working[w].pc = "succeed"
        /\ unheard[d] < MaxUnheard
        /\ unheard' = [unheard EXCEPT ![d] = @ + 1]
        /\ working' = [working EXCEPT ![w].pc = "fail"]
        /\ UNCHANGED <<tables, emitting, replaying, listed, cut, handled, requeues, died>>

(* fail decides on the attemptCount of the claim.  (A mutant: > for >=.)   *)
MutantOneAttemptMore(w) == working[w].held[working[w].at] > MaxAttempts

Exhausted(w) == working[w].held[working[w].at] >= MaxAttempts

(* markDead, or markFailed with a backoff that is never 0 after a claim.   *)
FailDelivery(w) ==
    /\ working[w].pc = "fail"
    /\ deliveries' = [deliveries EXCEPT ![working[w].at] =
                        IF Exhausted(w) THEN [@ EXCEPT !.status = "dead"]
                        ELSE [@ EXCEPT !.status = "failed", !.due = FALSE]]
    /\ NextInBatch(w)
    /\ UNCHANGED <<endpoints, events, emitting, replaying, history>>

(* The run dies, or a statement outside the try throws: what it holds      *)
(* stays "delivering", and no claim looks for that.                        *)
WorkerDies(w) ==
    /\ working[w].pc # "idle"
    /\ working' = [working EXCEPT ![w] = WorkerIdle]
    /\ died' = died \cup {d \in Deliveries : working[w].held[d] > 0
                                            /\ \A v \in Workers \ {w} : working[v].held[d] = 0}
    /\ UNCHANGED <<tables, emitting, replaying, listed, cut, handled, unheard, requeues>>

(* The backoff of a failed delivery passes.                                *)
BackoffPasses(d) ==
    /\ deliveries[d].status = "failed"
    /\ ~deliveries[d].due
    /\ deliveries' = [deliveries EXCEPT ![d].due = TRUE]
    /\ UNCHANGED <<endpoints, events, calls, history>>

(***************************************************************************)
(* Replay, of a delivery and of an event.                                  *)
(***************************************************************************)

(* requeue, by id: whatever the row's status; the attempts are kept.       *)
Requeue(d) ==
    /\ deliveries[d].status # "absent"
    /\ requeues[d] < MaxRequeues
    /\ deliveries' = [deliveries EXCEPT ![d] = [@ EXCEPT !.status = "queued", !.due = TRUE]]
    /\ requeues' = [requeues EXCEPT ![d] = @ + 1]
    /\ UNCHANGED <<endpoints, events, calls, listed, cut, handled, unheard, died>>

StartReplay(r, n) ==
    /\ replaying[r].todo = {}
    /\ n \in events
    /\ ActiveEndpoints(n) # {}
    /\ replaying' = [replaying EXCEPT ![r] = [notice |-> n, todo |-> ActiveEndpoints(n)]]
    /\ UNCHANGED <<tables, emitting, working, history>>

(* Each is inserted without a look; one that is there makes the call throw *)
(* with the ones before it kept.  The mutant resets what is there.         *)
MutantReplayUpserts(r) ==
    \E e \in replaying[r].todo :
        LET d == <<replaying[r].notice, e>>
        IN  /\ deliveries' = [deliveries EXCEPT ![d] = NewDelivery]
            /\ replaying' = [replaying EXCEPT ![r].todo = @ \ {e}]
            /\ UNCHANGED <<endpoints, events, emitting, working, history>>

CreateReplayed(r) ==
    \E e \in replaying[r].todo :
        LET d == <<replaying[r].notice, e>>
        IN  /\ IF deliveries[d].status = "absent"
               THEN /\ deliveries' = [deliveries EXCEPT ![d] = NewDelivery]
                    /\ replaying' = [replaying EXCEPT ![r].todo = @ \ {e}]
               ELSE /\ replaying' = [replaying EXCEPT ![r] = ReplayIdle]
                    /\ UNCHANGED deliveries
            /\ UNCHANGED <<endpoints, events, emitting, working, history>>

AbortReplay(r) ==
    /\ replaying[r].todo # {}
    /\ replaying' = [replaying EXCEPT ![r] = ReplayIdle]
    /\ UNCHANGED <<tables, emitting, working, history>>
-----------------------------------------------------------------------------
ManageEndpoints ==
    \E e \in Endpoints :
        \/ \E wanted \in SUBSET Notices, s \in Secrets : CreateEndpoint(e, wanted, s)
        \/ DisableEndpoint(e)
        \/ \E s \in Secrets : RotateSecret(e, s)

EmitStep(m) ==
    SelectEvent(m) \/ InsertEvent(m) \/ CheckDelivery(m) \/ CreateDelivery(m) \/ FinishEmit(m)

WorkerStep(w) ==
    \/ ClaimDue(w) \/ LoadDelivery(w) \/ PostAccepted(w) \/ PostRefused(w)
    \/ MarkSucceeded(w) \/ FailDelivery(w)

Next ==
    \/ ManageEndpoints
    \/ \E m \in Emitters :
         (\E n \in Notices : StartEmit(m, n)) \/ EmitStep(m) \/ AbortEmit(m)
    \/ \E w \in Workers :
         WorkerStep(w) \/ PostTimesOut(w) \/ MarkSucceededThrows(w) \/ WorkerDies(w)
    \/ \E d \in Deliveries : BackoffPasses(d) \/ Requeue(d)
    \/ \E r \in Replays :
         (\E n \in Notices : StartReplay(r, n)) \/ CreateReplayed(r) \/ AbortReplay(r)

Spec == Init /\ [][Next]_vars

(* A call that was started goes on unless it is cut off; the scheduler     *)
(* keeps starting worker runs; time passes.  Nothing is assumed of the     *)
(* operators, of the merchant's answers, or that workers do not die.       *)
Fairness ==
    /\ \A m \in Emitters : WF_vars(EmitStep(m))
    /\ \A w \in Workers : WF_vars(WorkerStep(w))
    /\ \A d \in Deliveries : WF_vars(BackoffPasses(d))

FairSpec == Spec /\ Fairness
-----------------------------------------------------------------------------
(***************************************************************************)
(* A row that may still be posted is one token: it waits to be claimed, or *)
(* a worker holds it and has no answer.  A requeue of a held row makes a   *)
(* second one.                                                             *)
(***************************************************************************)
Waiting(d) == IF deliveries[d].status \in {"queued", "failed"} THEN 1 ELSE 0

Awaits(w, d) == working[w].held[d] > 0 /\ ~(working[w].pc = "succeed" /\ working[w].at = d)

Unanswered(d) == {w \in Workers : Awaits(w, d)}

(* Holders whose failure will put the row back rather than end it.         *)
MayRetry(d) == {w \in Workers : working[w].held[d] \in 1 .. MaxAttempts - 1}

(* The bookkeeping of tokens behind the two bounds below.                  *)
TokensOf(d) ==
    /\ handled[d] + Cardinality(Unanswered(d)) + Waiting(d) <= 1 + requeues[d] + unheard[d]
    /\ deliveries[d].attempts < MaxAttempts =>
         Cardinality(MayRetry(d)) + Waiting(d) <= 1 + requeues[d]
    /\ deliveries[d].attempts >= MaxAttempts =>
         deliveries[d].attempts + Cardinality(MayRetry(d)) + Waiting(d)
           <= MaxAttempts + requeues[d]

TokensBounded == \A d \in Deliveries : TokensOf(d)

(* A worker stands at a delivery it holds, and what is held or was         *)
(* accepted is stored.                                                     *)
WorkersWellFormed ==
    \A w \in Workers :
        /\ working[w].pc \in {"post", "fail", "succeed"} =>
             working[w].at \in Deliveries /\ working[w].held[working[w].at] > 0
        /\ working[w].pc = "idle" => \A d \in Deliveries : working[w].held[d] = 0

RowsWellFormed ==
    \A d \in Deliveries :
        /\ deliveries[d].status = "absent" => deliveries[d].attempts = 0 /\ handled[d] = 0
        /\ \A w \in Workers : /\ working[w].held[d] <= deliveries[d].attempts
                              /\ working[w].held[d] > 0 => deliveries[d].status # "absent"

(* An emitter and a replay stand at deliveries of their event.             *)
CallsWellFormed ==
    /\ \A m \in Emitters :
         /\ emitting[m].pc # "idle" => emitting[m].notice \in Notices
         /\ emitting[m].pc = "create" => emitting[m].at \in Endpoints
    /\ \A r \in Replays : replaying[r].todo # {} => replaying[r].notice \in Notices

(* The inductive invariant.                                                *)
DeliveryInv ==
    DeliveryTypeOK /\ CallsWellFormed /\ WorkersWellFormed /\ RowsWellFormed /\ TokensBounded

(* The merchant is posted a notice successfully once, plus once for each   *)
(* requeue and each success that was not recorded: concurrent worker runs, *)
(* emitters and replays never send one twice of their own accord.          *)
HandledOnce == \A d \in Deliveries : handled[d] <= 1 + requeues[d] + unheard[d]

(* A delivery is attempted at most maxAttempts times, and once more for    *)
(* each requeue, also when an old run's late failure puts back a row that  *)
(* a younger run had given up.                                             *)
AttemptsBounded == \A d \in Deliveries : deliveries[d].attempts <= MaxAttempts + requeues[d]

(* What was recorded as succeeded, and not requeued since, was accepted.   *)
SucceededWasHandled ==
    \A d \in Deliveries : deliveries[d].status = "succeeded" => handled[d] > 0

(* Claimed by a run that died: nobody holds it, and no claim will find it. *)
Abandoned(d) ==
    deliveries[d].status = "delivering" /\ \A w \in Workers : working[w].held[d] = 0

(* ... and only that way: a run that goes on, whatever the endpoint has    *)
(* become and whatever it answers, lets go of no row before it has written *)
(* how the attempt ended.                                                  *)
AbandonedByDeath == \A d \in Deliveries : Abandoned(d) => d \in died

(* The row of a listed endpoint is missing only as long as the emitter     *)
(* that stored the event is still to make it, or for good because that     *)
(* emitter was cut off: neither another emitter nor a replay, which both   *)
(* may insert rows of the event first, makes it pass one over.             *)
Owes(m, d) ==
    emitting[m].pc \in {"check", "create"} /\ emitting[m].notice = d[1] /\ d[2] \in emitting[m].todo

NoneIsPassedOver ==
    \A d \in Deliveries :
        d[2] \in listed[d[1]] /\ deliveries[d].status = "absent" =>
           d[1] \in cut \/ \E m \in Emitters : Owes(m, d)

(* Every delivery of a stored event, to each endpoint that was active when *)
(* it was announced, ends as succeeded or dead, unless a run died holding  *)
(* it or the emitter was cut off before its last insert; there is no other *)
(* way for a notice to be lost.                                            *)
EveryNoticeEnds ==
    \A d \in Deliveries :
        d[1] \in events /\ d[2] \in listed[d[1]]
          ~> deliveries[d].status \in {"succeeded", "dead"} \/ Abandoned(d) \/ d[1] \in cut
=============================================================================
