# Northflow payment orchestration: TLA+ models and proofs

The service (`apps/service`) takes payments for merchants through payment
providers. A merchant creates an **intent** (an amount due), then **transactions**
against it; providers settle them at once or later, by webhook; refunds, voids,
repairs and an expiry worker change them afterwards; merchants are told by
outbound webhooks. All lasting state is in PostgreSQL and every use case is a
sequence of awaited statements: there is no lock across two of them, so any two
use cases interleave at every `await`, and the process may die at each. This
directory models those use cases statement by statement, checks them with TLC,
and proves their main properties with TLAPS for any number of intents, payments,
keys, notices, requests and concurrent calls.

## 1. Inventory

`PROJECT.json` lists every component with its sources and status, and under
`hazards` the line where each hazard bites.

| component | state | operations | what makes it correct |
|---|---|---|
| payment tables (`DrizzlePayment{Intent,Transaction}Repository`) | `po_intents`, `po_transactions` | insert, unconditional `updateStatus` and `updateTotals`, `applySucceededPayment` and `applySucceededRefund` (one DB transaction each), list queries | totals equal what was credited; a transaction is credited once; the status follows the totals |
| `CreatePaymentIntent` | `po_idempotency_keys`, one scope | reserve, insert, complete | one intent per key; answers are what was asked |
| `CreateGatewayPayment` | `po_idempotency_keys`, another | look up key, check intent, reserve, charge, insert, apply, complete | one charge per key; a replay returns what is stored |
| `ConfirmFakeGatewayPayment` | none of its own | confirm by id, announce | credits once; never in production |
| `HandleProviderWebhook` | `po_provider_events` | reserve, claim, resolve, apply, mark, announce, catch | one worker per event; processed only after applied; late news revives nothing |
| `RefundPaymentTransaction` | refund rows | sum refunds, insert pending, provider refunds, apply | never more than was paid |
| `VoidPaymentTransaction` | none of its own | check, provider cancels, write | the totals survive it |
| `ExpireStalePaymentTransactions` | none of its own | list, expire rows, list intents, recheck, expire | the totals survive it |
| `RefreshProviderStatus`, `ReprocessProviderEvents` | none of their own | poll or replay, mark a transaction, overwrite totals, overwrite the status | never count twice; credit only what was captured |
| `ReconcilePaymentIntentTotals` | none of its own | read the intent, read its rows, overwrite totals, overwrite the status | alone and repeated, it makes the totals agree with the rows |
| outbox and delivery | `po_merchant_webhook_{endpoints,events,deliveries}` | emit with a dedupe key, claim, post, mark, requeue, replay | announces only what happened; each delivery ends; bounded attempts; no second send of its own accord |
| credentials, signing keys, grants | client tables | create, rotate, revoke, grant; authenticate, authorise | what acts was allowed; secrets end by their owners |
| signed requests | `po_request_nonces` | consume | a signature acts once |
| rate limiter | in-memory windows | hit | who is refused earned it |
| merchants, provider accounts, methods | configuration | create, upsert, synchronise | an edit takes effect |
| audit log, dashboard, SDK, CLI parsing | append-only rows, none | | no decision depends on them |

The components meet in three ways: they share the payment tables, they call the
provider (create, cancel, refund, poll) or are called by it (webhook), and they
announce to the merchant through the outbox after their commit. Requests come in
through authentication, limiter and authorisation, in that order (`app.ts`).

What is hard here: decisions on rows read several awaits earlier; guards that are
inside a statement for some writers and before it for others; charges that exist
at the provider and not, or not yet, in the tables; webhooks that arrive early,
late, twice and at once; keys, events, deliveries and refund rows left half way
by a crash; credentials that are revoked while a request is under way.

## 2. Modules

```
PaymentState           the pure rules       (payment-state/intentStatus.ts, core/domain)
  PaymentTables        the two tables       (Drizzle repositories, schema.ts)
    |  PaymentAccount    what the tables promise (abstract)
    PaymentProvider    the provider         (external), over
      ProviderAdapters   what the adapters answer (infrastructure/providers)
      GatewayPayment     CreateGatewayPayment.ts, idempotency repository
      ExpireStale        ExpireStalePaymentTransactions.ts
      RefreshStatus      RefreshProviderStatus.ts
      ReconcileTotals    ReconcilePaymentIntentTotals.ts
      MerchantOutbox     merchant-webhooks/events.ts
        ConfirmFakeGateway  ConfirmFakeGatewayPayment.ts
        RefundPayment       RefundPaymentTransaction.ts
        VoidPayment         VoidPaymentTransaction.ts
        ProviderWebhook     HandleProviderWebhook.ts, provider event repository
          ReprocessEvents     ReprocessProviderEvents.ts
PaymentSystem          payments, webhooks, refunds, voids, expiry together
LedgerMaintenance      webhooks, refresh, replay, reconciliation together
IntentCreation         CreatePaymentIntent.ts under keys
  |  OncePerKey          what a key promises (abstract)
MerchantDelivery       merchant-webhooks/{events,worker,useCases}.ts and repositories
HttpRoutes             what each route under /v1 demands (routes/*.ts)
  ClientAccess         clients, secrets, grants, merchants; nf-admin commands
    ApiRequests        auth.ts, signedAuth.ts, rateLimit.ts, merchantAccess.ts, the
                       credential, signing key and merchant handlers
MethodCatalog          provider accounts and their methods
MC*                    the instances TLC checks
*Proofs                the TLAPS proofs
```

How code becomes actions:

* A **statement is one atomic step**; so is a `db.transaction` (PostgreSQL runs it
  with row locks and guards inside the UPDATE, so its effect is that of one
  step). Reads that nothing later depends on are folded into the next step.
  Everything between two awaits that a later decision uses is kept in the record
  of the call (`pay`, `hook`, `refund`, `working`, `api`, …), whose `pc` is the
  await it stands at.
* **Failure**: each call has an `Abort…` (or `…Dies`) action, enabled at every
  await: a statement throws or the process dies. What the code catches
  (`ProviderThrows`, `StatementThrows`, `PostTimesOut`, …) is a step of its own.
  Aborted calls keep what they wrote. A restarted process resumes nothing, which
  is what the code does; in `ApiRequests` it also forgets the limiter's windows.
* **Ids.** A create or refund request inserts at most one row under a fresh UUID,
  so the row is named by the request; a client's retry is another request with
  the same key. A call that is not tied to a row (`Confirms`, `Hooks`, `Voids`,
  `Sweeps`, `Refreshes`, `Workers`, …) becomes idle and is used again. An event
  row of the outbox is named by its dedupe key, a delivery by its event and
  endpoint, because unique indexes guard both.
* **Time** is what the code compares with it. For deadlines, the set `overdue`: a
  deadline passes at any moment and stays past; a run of the expiry worker takes
  its `now` once. For a delivery, whether its backoff has passed (`due`). For
  credentials and windows, ticks: a tick is one window of the limiter.
* **The provider** is external: a charge opens when `createPayment` is called
  (also when the call then throws), settles once, and webhooks and polls report
  how. The adapters' answers are nondeterministic choices from
  `ProviderAdapters`.
* **History variables**: `credited` (rows whose amount was added to the totals),
  `returned` (what the provider gave back), and in `MerchantDelivery`
  `listed`, `cut`, `handled`, `unheard`, `requeues`. The code has no such state;
  the only guards that read one are the bounds `MaxUnheard` and `MaxRequeues`.
* Amounts are small naturals, so the `integer` columns' width does not matter:
  totals never exceed what is due (proved: `AmountsConserved`).

What is abstracted: validation, provider account and method checks (one
`RejectPayment`), request hashes (a request's identity is its intent and amount,
or its body), payloads, metadata, formatting, logs. One merchant in the payment
modules: every statement is filtered by `merchantId`, except the webhook's, which
finds the merchant through the row. `ApiRequests` has several merchants and
clients. A service token (`SERVICE_AUTH_TOKEN`) acts as a client with
sourceApp `internal` does, so `SystemClients` stands for both; the limiter is
taken to be enabled.

## 3. Properties

Each is in the module named, with the comment that states it.

| property | in words |
|---|---|
| `PaymentSystem` | |
| `TypeOK` | types; balances are never negative |
| `AmountsConserved` | paid + remaining = due, refunded ≤ paid ≤ due |
| `StatusMatchesTotals` | an intent not expired has the status its totals imply |
| `CreditedExactly` | succeeded ⇒ in the totals; in the totals ⇒ never confirmable again |
| `TotalsAreSums` | the totals are the sums of the credited rows |
| `ImplementsAccount` | the tables refine `PaymentAccount` |
| `SettledForGood` | a closed payment is never reopened or credited |
| `OneChargePerKey` | at most one call under a key reaches the provider |
| `CompletedKeyIsStored` | a completed key, and a replay, name a stored payment with the same parameters |
| `ProcessedEventIsApplied` | a call told how a charge settled marks its event processed only when the payment is stored and no longer open |
| `OneWorkerPerEvent` | at most one call works on an event |
| `AnnouncedIsTrue` | success, payment and refund are announced only when in the totals |
| `CreditedOnlyIfCaptured` | in production, credits only for charges the provider captured |
| `BookedIsReturned` | the refunds of a payment in the totals are money the provider gave back on it |
| `LedgerMaintenance` | |
| `NothingCountedTwice` | totals never exceed what the credited rows brought or took, whatever overwrites what |
| `ReplayedEventIsApplied` | with unclaimed replays running, a processed event is still an applied one |
| `RepairsCreditOnlyCaptured` | a repair credits only captured charges, and only from an open row |
| `RepairsSettle` | reconciliations that run alone, having read nothing out of date, stay so and keep what one of them repaired |
| `DriftIsRepaired` (liveness) | once only reconciliations run, those that end make totals and status agree with the rows for good |
| `IntentCreation` | |
| `OneIntentPerKey`, `AnswersAreAsked` | one intent per key; an answer is stored and is what its own call asked for |
| `KeepsPromise` | the refinement of `OncePerKey` |
| `CreationInv` | the inductive invariant of the proofs |
| `MerchantDelivery` | |
| `HandledOnce` | a notice is accepted once, plus once per requeue and per unrecorded success |
| `AttemptsBounded` | at most `maxAttempts` attempts, plus one per requeue |
| `SucceededWasHandled` | marked succeeded ⇒ accepted |
| `AbandonedByDeath` | a row left in delivering without a run that holds it was held by one that died |
| `NoneIsPassedOver` | a row that is missing is still owed by an emitter, or its emitter was cut off |
| `EveryNoticeEnds` (liveness) | each delivery of a stored event ends, unless a run died holding it or its emitter was cut off |
| `DeliveryInv` | the inductive invariant of the proofs |
| `ApiRequests` | |
| `EffectsWereAllowed` | what acts had, when it came, a good secret and client, and scope and grant |
| `SignedOnce` | one signature passes once, across restarts |
| `RefusalsAreEarned` | refused for rate ⇒ in that window that client made more requests than the global limit, or more of that method than the route limit |
| `MerchantsAreHeld` | references are unique, and who creates a merchant holds a grant on it |
| `OnlyOwnersEnd` | a request ends only its client's secrets, and rotates only when the new one is stored |

## 4. Runs

| run | instance | shows |
|---|---|---|
| `MCIdempotency` | 3 create calls, 1 key, amounts 1–2 of 2 | keys of payments, with equal and different parameters |
| `MCRefund` | 1 payment, 2 refunds, 1 key | refunds and rollback, what was given back, status, refinement of `PaymentAccount` |
| `MCExpire` | 2 payments, 1 confirm, 1 sweep of limit 2 | the expiry worker against payments |
| `MCVoid` | 1 payment, 1 event whose id is the invoice's, 2 hooks, 1 void, 1 confirm | void against webhook, redeliveries with a later status |
| `MCDrift` | 2 payments, 1 event, 1 hook, 1 refresh, 1 replay, 1 reconciliation, 2 busy at a time | what repairs lose, and what they do not |
| `MCReconcile` | 2 payments, 1 refund, 1 refresh, 2 reconciliations | reconciliations keep each other's repairs, and converge once they are alone |
| `MCDelivery` | 1 notice, 1 endpoint, 2 emitters, 2 worker runs, 1 replay, 2 attempts, 1 requeue, 1 unrecorded success | the delivery worker, safety and liveness |
| `MCIntentKey` | 3 create calls, 2 keys or none, 1 payable, 4 bodies | keys of intents, refinement of `OncePerKey` |
| `MCAccess` | 2 requests, 2 clients, 3 credentials, 1 signing key, 3 merchants, 1 reference, 1 operator command, 2 ticks; or 3 requests of 2 clients; routes of 2 methods, global limit 2, route limit 1 | access, rotation, nonces, merchants, the limiter |

`CHECK_DEADLOCK FALSE` everywhere, because requests are one-shot in the models:
when all are used and every row is settled, the instance has nothing left to do.
Symmetry is used only in runs without liveness properties; their
properties are invariants and `[][A]_v` formulas, for which it is sound.

Bounds, and why they suffice. Every race in this code is between two actors over
one intent, row, key, delivery or secret; a third adds a spectator, except where
what the second leaves behind is read by a third (`MCIdempotency`, `MCIntentKey`).
With an amount due of 2 and amounts 1–2 an intent can be unpaid, partly paid,
paid, and asked for more than remains. `MaxBusy` (two calls in progress) bounds
only `MCDrift` and `MCReconcile`, and a call that is not in progress may start at
any moment. `MaxRequeues` and `MaxUnheard` bound events outside the service that
could go on for ever. In `MCAccess` the tables start as the first commands of
nf-admin leave them (`Bundled`: a client with a credential, a signing key and a
grant), so that the one command the bound `MaxCommands` allows is one that
interferes; `MaxNow` gives every expiry and window one boundary to cross, and
the limits, 2 of a client and 1 of a method, refuse a second request of one method
by the route half. A second family of initial states (`Hurried`) has three
requests of two clients whose scopes fit no offered route: there the third after
one of each method is refused by the global half. The
theorems of section 6 start from empty tables, and hold for every value of the bounds that are constants
(`MaxNow`, `MaxCommands`, `MaxRequeues`, `MaxUnheard`).

**Fairness.** `MerchantDelivery.FairSpec` assumes that an emit call that was
started takes its next statement unless it is cut off, that time passes
(`BackoffPasses`), and that worker runs take their steps and are started again
when there is something to claim (`WF` on `WorkerStep`): `deliver-merchant-webhooks`
is a command that a scheduler runs again and again, and each statement it awaits
returns or throws. Nothing is assumed of operators, of how often the merchant
accepts, or of a worker's survival: a run may die at every step, which is why
`EveryNoticeEnds` names the row it held (`Abandoned`) and the emitter that was
cut off (`cut`) as the ways a notice is lost. That these are what they are named for
is safety: the history variable `died` remembers which rows a dying run held, and
`AbandonedByDeath` and `NoneIsPassedOver` say that nothing else leaves a row behind. `DriftIsRepaired` needs no fairness
in the specification: its antecedent says which runs it is about (from some
point on only reconciliations take steps, and some end again and again).

### What the documents say and the code does not do

Three runs are expected to be violated; each checks a sentence of a document or
comment, quoted in `PROJECT.json` under `findings`.

| run | statement | what happens |
|---|---|---|
| `MCVoidOverwrites` | "voidable transactions have not succeeded" | a void overwrites a success that arrived during the provider call |
| `MCRefundRace` | "Double refund race cannot exceed refundable amount" | the provider gives back twice the payment |
| `MCMethodDisable` | "Disable a payment method on a provider account" | a disabled method still takes payments |

`MCVoidOverwrites` stands for three routes to one loss: the webhook's closure
(`HandleProviderWebhook.ts:263`) and the worker (`ExpireStalePaymentTransactions.ts:101`)
write on an earlier read in the same way. The totals stay right all the same
(`TotalsAreSums` holds in `MCVoid` and `MCExpire`, where the void and the worker do
it): it is the row's status that lies. So `TotalsAreSums` speaks of the credited
rows, not of the rows whose status is `succeeded`. A reconciliation afterwards
would take the amount out of the totals, because it does sum those.

Other behaviour met while modelling, which the models contain and no run
expects to be violated:

* An intent paid between the worker's re-read and its write ends `expired`
  although it is paid (`ExpireStalePaymentTransactions.ts:139`); `StatusMatchesTotals`
  leaves expired intents out for that reason.
* The key of a call that ended after reserving it answers "in progress" for
  good (`CreateGatewayPayment.ts:298`, and 384 for the unique violation;
  `CreatePaymentIntent` likewise), and an event whose call ended after its claim stays
  `processing` (`HandleProviderWebhook.ts:151`). Nothing in the code recovers
  either.
* A pending **refund** row can be confirmed by its id as though it were a payment
  (`ConfirmFakeGatewayPayment.ts:85`), see section 5.
* The constant dedupe suffix of a developer's confirm
  (`ConfirmFakeGatewayPayment.ts:113`) makes the second `partially_paid` of one
  intent a duplicate of the first.
* The replay of stored events reads the raw status of the payload, which for
  xendit_sandbox is a word it does not know: the event is marked processed and
  nothing is applied (`ReprocessProviderEvents.ts:161`). `ReplayedEventIsApplied`
  is checked with fake_gateway's words and **does not hold with xendit_sandbox's**,
  though `docs/payment-orchestration-worker-operations.md:102` names both.
* The replay works on the events it has listed without claiming them
  (`ReprocessProviderEvents.ts:99`), so a webhook call can claim one meanwhile and
  both work on it; `docs/replit_codex_P0_payment_orchestration_full_fix_prompt.md:456`
  asks that they do not. That alone counts nothing twice:
  `NothingCountedTwice` and `ReplayedEventIsApplied` hold in `MCDrift` all the same.
* With xendit_sandbox, whose event id is the invoice's, a success that comes
  after an earlier status of the invoice was processed is answered as a replay
  and lost to the webhook (`XenditSandboxProvider.ts:241`), and a redelivery with an
  ignored status closes an event whose success could not be applied.
  `ProcessedEventIsApplied` speaks of the payload a call was given, and does not
  notice either; a refresh finds the payment.
* Refresh, replay and reconciliation overwrite totals computed from an earlier
  read, so they lose what was credited meanwhile: `TotalsAreSums` does not hold
  with them; `NothingCountedTwice` and `DriftIsRepaired` are what remains.
  Reconciliation also turns the status of a refunded intent back into `paid`, as
  it computes the status from what was paid alone.
* A poll of xendit_sandbox answers `failed` for every HTTP error
  (`XenditSandboxProvider.ts:282`), so a refresh during an outage closes an open
  payment. `refresh-provider-status` writes, but needs only `intent:read`.
* Refresh, replay and expiry announce nothing to the merchant, though
  `docs/integration/merchant-outbound-webhooks.md:3` counts status workers among the sources.
* Two concurrent edits of a method lose one's terms, and a synchronisation
  overwrites an operator's limits. The header of `SyncProviderAccountMethods`
  (lines 8–11) says excluded methods become `unsupported`; no statement does that. `PUT` spreads the
  body after the path's parameters (`paymentMethods.ts:221`), so a body may name
  another method than the path.
* The limiter's groups are always `default`, because Express has removed `/v1`
  from the path they are matched against (`rateLimit.ts:33`), unlike
  `docs/security/rate-limits.md:15` describes; the model, and `RefusalsAreEarned`,
  therefore has one bucket per method (`RouteBucket`). A restart forgets the
  windows.
* Rotation of a credential, unlike its creation, accepts an `expiresAt` that has
  passed (`apiClientCredentials.ts:251`); when the answer of a rotation with
  `revokeOld` is lost, the client is left with a secret nobody knows. Concurrent
  revocations overwrite each other's date.
* Granting a merchant after a revocation violates the unique index
  (`cli/commands/grantMerchant.ts:8`), and nonces are never deleted, as their cleanup has no
  caller.

## 5. What the passing runs rest on

* `ConfirmTargets`: the rows whose ids developers post to the confirm endpoint.
  In the passing runs, and in the theorems (`OnlyPaymentsConfirmed`), these are
  payments. Without it, a refund row in flight is confirmed and its amount added
  to what was paid, and `TotalsAreSums` fails.
* The **repairs are not composed with refunds, voids and expiry step by step**:
  what `PaymentSystem` shows is shown without them, as `TotalsAreSums` and
  `AmountsConserved` do not survive them. `LedgerMaintenance` shows what does,
  with webhooks step by step and the calls of payments and refunds as one step
  each.
* Provider references are unique and a webhook's reference is the one of its
  charge.
* Rows of clients, secrets, grants and merchants are never deleted, and clients
  never updated, as no statement does either.

## 6. Proofs

All theorems hold for every value of the constants that satisfies the named
assumptions of the modules, which TLC evaluates in the runs.

| module | proves | from |
|---|---|---|
| `PaymentSystemProofs` | `TypeCorrect`, `AmountsAreConserved`, `StatusFollowsTotals`, `CreditsAreExact`, `TotalsAddUp`, `PaymentsSettleForGood`, `AccountsAreImplemented` (refinement), `EventsHaveOneWorker`, `KeysChargeOnce`, `CompletedKeysAreStored`, `CreditsAreCaptured`, `EventsStayApplied`, `ProcessedEventsAreApplied`, `AnnouncementsAreTrue`, `BookedRefundsAreReturned` | `OnlyPaymentsConfirmed /\ Spec`; `TablesAssumption`, `OutboxAssumption`, `ConfirmAssumption`, `WebhookAssumption`, `SweepAssumption` |
| `IntentCreationProofs` | `KeysCreateOnce`, `AnswersAreRight`, `PromiseIsKept` (refinement) | `CreationSpec`; `CreationAssumption` |
| `DeliveryProofs` | `HandledOnceAlways`, `AttemptsBoundedAlways`, `SuccessIsTrue`, `OnlyDeathsAbandon`, `NoticesAreMade` | `Spec`; `DeliveryAssumption` |
| `ApiRequestsProofs` | `EffectsAreAllowed`, `NoncesAreUsedOnce`, `CreatedMerchantsAreHeld`, `SecretsEndByOwners`, `OnlyTheEarnedRefused` | `RequestsSpec`; `AccessAssumption`, `RequestsAssumption` |
| `LedgerMaintenanceProofs` | `MaintenanceTypes`, `CountedOnce`, `CreditsAreCaptured`, `RepairsStay`, `ReconcilersConverge`; `ProcessedIsApplied`, from `~InvoiceScopedIds` too | `MaintenanceSpec`; `TablesAssumption` |

**Payments.** None of the properties is inductive alone: that a payment may be
credited depends on the row's amount being one that was accepted, on its intent
being there, and on what each call believes about the row it stands at. `Inv` is

* the tables' own facts (`TablesInv`: types, rows are well formed, an absent
  intent is empty, `AmountsConserved`, `StatusMatchesTotals`, `CreditedExactly`,
  `TotalsAreSums`, and that what is credited exists),
* the types of provider and outbox, and
* one *shape* per component (`GatewayInv`, `ConfirmInv`, `WebhookInv`,
  `RefundInv`, `VoidInv`, `SweepInv`): what a call has read that no other call
  can undo, for example that the row it stands at exists, has the amount the call
  holds and, for a refund, is not yet credited.

Instead of proving every action against every conjunct, each component has two
lemmas. *Keeps*: a step of the component preserves `TablesInv`, its own shape,
and makes the tables change only lawfully: `Grows` (rows are never removed, their
intent, amount and parent never change, `credited` only grows) and `Lawful` (the
abstract step). *Stable*: a step of anybody else, being a `Grows` step, leaves the
shape alone. The composition is then one case per component
(`PaymentTablesProofs` for the statements, `UseCaseProofs` for create, confirm, void,
refund and expiry, `ProviderWebhookProofs`, and `PaymentSystemProofs` for the
whole). `OneWorkerPerEvent` and `OneChargePerKey` have invariants of their own
(`ClaimInv`: a call past its claim is the only one on its event and the event is
processing; `KeyInv`: a call past its reservation holds the key).

Five more properties relate what is stored to what somebody was told; each has an
invariant beside `Inv` that says what the calls in between hold:

* `StoredInv` for `CompletedKeyIsStored`: what a create call under way has stored,
  and what its key says meanwhile; a completed key names a call that has ended.
* `CapturedInv` for `CreditedOnlyIfCaptured`: whatever reports a success, or is
  about to credit one, does so because the charge was captured. The property
  speaks of production only, as a developer's confirm credits without the provider.
* `AppliedInv` (`EventsStayApplied`) for `ProcessedEventIsApplied`: a webhook call
  past its application has left, or read, a closed transaction, if the payload it
  was given says how the charge settled. Only such a call marks an event processed
  (`OnlyMarkProcesses`), so the action property follows for both forms of event id.
* `AnnouncedInv` for `AnnouncedIsTrue`: calls that will announce hold only
  statuses whose meaning (`HoldsOf`) no later step takes back.

* `BookedInv` for `BookedIsReturned`: what the provider gave back on a payment
  covers the refunds in the totals *and* those whose answer is in but not yet
  booked (`Owing`), and a refund call's row has the amount and the payment it asked
  the provider for (`RowIsCalls`). A refund starts owing when the provider pays, so
  booking it, whenever that comes, adds nothing.

The first four rest on `CreditsStay`: credits and totals only grow, which follows from
`Grows` and `Lawful`.

*Sums.* The totals are compared with sums over sets of rows (`Total`), which the
community modules define by recursion over the set, in an order that a `CHOOSE`
picks. What the proofs need of them is that the sum of nothing is 0, that a new
row adds its amount, and that the sum depends on the amounts alone
(`SumEmpty`, `SumAdd`, `SumSame`, `SumGrows` in `PaymentTablesProofs`). No rule of
induction can be instantiated here, so these are proved by *least
counterexamples*: a set of finite sets that is not empty has a smallest member,
as strict inclusion is well founded on them; of the rows a smallest
counterexample is summed up by, one can be put aside, and what is left is
smaller.

**Repairs.** `RefreshProviderStatus`, `ReprocessProviderEvents` and
`ReconcilePaymentIntentTotals` write back balances that they have read in a
statement of its own, so `AmountsConserved` and `TotalsAreSums` do not survive
them. `MaintenanceInv` (`LedgerMaintenanceProofs`) says what does, from one side:

* a total is at most the sum of the credited rows, and so is each balance a call
  has read and will write back (`Within`). The sums only grow (`Rising`), so no
  other call can make a held balance too large.
* A call that has marked a row has *room*: its balance with the row's amount
  added is still within the sum (`Room`), because the row was not credited when
  the balance was read and is now. This is why nothing is counted twice, and why
  it matters that the mark is conditional on an open row and the totals are
  written only by the call whose mark took effect.
* What a poll, a stored event or a webhook reports as a success, the provider has
  captured (`ReportsInv`, in `ProviderWebhookProofs`, and the shapes of the
  calls); that gives `CreditsAreCaptured`.
* An event that says how a charge settled, and is processed or about to be, has a
  closed transaction (`AppliedInv`, and `ReplayShape` for a replay, which holds an
  event that nobody has claimed). A closed transaction stays closed
  (`StaysClosed`). The theorem's hypothesis stands for `fake_gateway`'s events. With
  `xendit_sandbox`'s (`InvoiceScopedIds`) the property is false: a replay knows none
  of the stored words and marks the event processed without applying it
  (`ReplayedStatus`), and a later status of an invoice comes under the first one's id.

*Reconciliation.* Totals that drifted are to be repaired by the same call that can
lose what others credit, so the question is what reconciliations do to each other.
`UpToDate` says that what one holds (the row it read, the sums it computed) is the
intent as it is. While only they run, the sums are fixed (`SumsStay`), each write
is the sums or nothing, and a write that is right stays right for whoever reads or
compares next (`OneReconciles`): this gives `RepairsStay`, an action property, and
from it by temporal logic alone `ReconcilersConverge`. The latter's hypothesis is
stronger than the antecedent of `DriftIsRepaired`, which lets reconciliations that
have read what is out of date go on too. These end or stop within three steps, so the two meet, but
that is an argument about every element of a finite set, an induction, and stays
with TLC.

`AppliedInv` is the same formula for both compositions; its lemmas assume of the
other writers only that tables grow, closed rows stay closed and events keep what
they say (`Grows`, `StaysClosed`, `EventsStay`).

**Intent creation.** The right to insert under a key is a token: a call *holds*
it from its reservation on, and its intent after it. `CreationInv` says that a
key has at most one holder (`OneHolderPerKey`), that it stores the holder's body,
and that a completed key points at the holder's intent; a replaying call has
compared bodies, so its answer has its own. For the refinement an effect is the
chosen member of the intents of a key (`Only`), which `CreationInv` makes the only
one; each insert is a `Perform`, each answer an `Answer`, the rest stutters.

**Delivery.** A row that may still be posted is a token too: it waits to be
claimed, or a worker holds it and has no answer yet. Requeues make tokens,
nothing else does; a token is spent by an accepted post. `TokensOf` counts them,
three sums over the workers that no step increases but a requeue or an
unrecorded success: one for acceptances, two for attempts below and at the limit,
because an old run's failure puts back a row that a younger one has marked dead.
`SuccessIsTrue` needs one more fact, that a worker about to record a success had
its post accepted.

The safety that `EveryNoticeEnds` rests on is proved too: a row in `delivering`
is held by a run or was held by one that died (`OnlyDeathsAbandon`), and a row that
is missing is on the list of the one emitter that stored the event
(`NoticesAreMade`), because the unique index lets one insert the event and every
other returns.

**Access.** `RequestsInv` keeps, for each request past authentication, what it
established *at the time it came* (`since`): `WasGood` and `WasAllowed` speak of
dates of revocation, which only grow later (`TablesLast`), so no command, rotation
or restart undoes them. `OldIsOwned` is what a rotation or revocation knows of the
secret it is about to end.

For the limiter (`LimiterInv`): the hits counted of a client in this tick, and by
method, are at most the requests of the client that the limiter has *seen* in this
tick (`Came`, `CameBy`). A hit adds one to both, as its request was not seen
before; a new tick and a restart forget hits, while what has been seen keeps its
client, route and window. So a refusal means that more requests came than the
limit, and stays earned. `Requests` is finite, as a count of requests has to be.

*Only model-checked*: that something happens at all in `EveryNoticeEnds` and
`DriftIsRepaired`. The first needs `WF` to be unfolded into `ENABLED`, and an
induction on the attempts left; the second the induction named above; TLAPS has
neither. Their safety is proved, as said. Every invariant and action property of
the passing runs is also a theorem. The runs that find a violation show what does
not hold of the code.

## 7. Order of the work, and what may follow

The core came first (tables, status rules, the five use cases, webhooks and
expiry, composed and proved), then the writers that repair, then the keys of
intents and their abstraction, the outbound delivery with its liveness, access
and the limiter, and the catalogue of methods. The proofs followed the runs, down to the safety that both liveness properties
rest on. What would come next: the repairs composed with refunds and expiry step by step; the windows of
webhooks and failed authentications.

## 8. Not modelled

* The **audit log**: append-only rows that no decision reads; a failing insert is
  swallowed.
* The **dashboard** and the **client SDK**: clients of the interface with no state
  of the service. The **read models** (`GetPaymentIntentStatus`, `GetRefundability`)
  change nothing; `GetRefundability` recomputes what `RefundPayment` sums, so
  after two racing refunds it can show more than paid less refunded.
* **Validation** of bodies and mapping of results to HTTP answers, configuration,
  argument parsing of workers and CLI: pure functions and wiring.
* The adapters' **requests, signatures and parsing**: cryptography and payload
  layout; what they return is in `ProviderAdapters`.
* The limiter's windows for **webhooks** and **failed authentications**: the same
  store under other keys.
* The paths of the use cases for repositories without `applySucceededPayment`
  (tests use them; the service's repositories have it), and generated, vendored
  and build files.
