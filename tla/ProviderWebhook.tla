-------------------------- MODULE ProviderWebhook --------------------------
(***************************************************************************)
(* HandleProviderWebhook: the provider reports how a charge settled, as    *)
(* often as it likes and on several connections at once.  An event row is  *)
(* reserved, claimed, resolved to a transaction, applied, marked processed *)
(* and announced to the merchant.  Hooks are the calls in progress; a call *)
(* that has returned is idle and serves the next delivery.                 *)
(***************************************************************************)
EXTENDS MerchantOutbox

CONSTANTS Hooks,          \* concurrent webhook calls
          InvoiceScopedIds \* the event id is the charge's id (xendit_sandbox)

ASSUME WebhookAssumption == InvoiceScopedIds \in BOOLEAN

VARIABLES inbox,          \* po_provider_events
          hook            \* the calls: where each stands, what it has read

webhookVars == <<inbox, hook>>

(* TERMINAL_STATUSES of the handler: voided, refunded, ignored are not in. *)
WebhookTerminal == {"succeeded", "failed", "cancelled", "expired", "reversed"}

(* A row keeps the first payload received under its event id; a call works *)
(* from the payload it was given (outcome) and from the transaction status *)
(* it has read (seen).                                                     *)
EventRow == [status: {"absent", "pending", "processing", "processed", "failed"},
             tx: Payments \cup {None}, outcome: Outcomes \cup {"none"}]

HookCall == [pc: {"idle", "claim", "resolve", "unknown", "apply", "mark",
                  "mark_only", "emit_tx", "emit_intent", "fail"},
             ev: Events \cup {None}, outcome: Outcomes \cup {"none"},
             seen: TransactionStatuses \cup {"none"}]

WebhookTypeOK == inbox \in [Events -> EventRow] /\ hook \in [Hooks -> HookCall]

HookIdle == [pc |-> "idle", ev |-> None, outcome |-> "none", seen |-> "none"]

WebhookInit ==
    /\ inbox = [e \in Events |-> [status |-> "absent", tx |-> None, outcome |-> "none"]]
    /\ hook = [h \in Hooks |-> HookIdle]

HookTo(h, step) == hook' = [hook EXCEPT ![h].pc = step]
HookReturns(h) == hook' = [hook EXCEPT ![h] = HookIdle]
SetEventStatus(e, status) == inbox' = [inbox EXCEPT ![e].status = status]

HookTx(h) == inbox[hook[h].ev].tx

(* What the provider may report of a charge: how it settled, that it is    *)
(* open, or something the parser maps to "ignored".                        *)
Reportable(p, outcome) ==
    CASE outcome = "ignored"         -> charge[p] # "none"
      [] outcome = "requires_action" -> charge[p] = "open"
      [] OTHER                       -> charge[p] = outcome

StartHook(h, e, outcome) ==
    /\ hook[h].pc = "idle"
    /\ hook' = [hook EXCEPT ![h] = [pc |-> "claim", ev |-> e, outcome |-> outcome,
                                    seen |-> "none"]]

(* reserveEventOrGet: the first delivery of an event inserts its row.      *)
ReceiveEvent(h, e, p, outcome) ==
    /\ inbox[e].status = "absent"
    /\ Reportable(p, outcome)
    /\ InvoiceScopedIds => \A d \in Events : inbox[d].tx # p
    /\ inbox' = [inbox EXCEPT ![e] = [status |-> "pending", tx |-> p,
                                      outcome |-> outcome]]
    /\ StartHook(h, e, outcome)
    /\ UNCHANGED <<tables, provider, outbox>>

(* A redelivery finds the row; if it is processed the call is a replay and *)
(* changes nothing.                                                        *)
ReceiveAgain(h, e, outcome) ==
    /\ inbox[e].status \in {"pending", "processing", "failed"}
    /\ \/ outcome = inbox[e].outcome
       \/ InvoiceScopedIds /\ Reportable(inbox[e].tx, outcome)
    /\ StartHook(h, e, outcome)
    /\ UNCHANGED <<tables, provider, inbox, outbox>>

(* The condition of the claim.  (A mutant claims what is being worked on.) *)
MutantClaimsProcessing(e) == inbox[e].status \in {"pending", "failed", "processing"}

Claimable(e) == inbox[e].status \in {"pending", "failed"}

(* claimForProcessing: one call wins; the others answer "ignored".         *)
ClaimEvent(h) ==
    /\ hook[h].pc = "claim"
    /\ IF Claimable(hook[h].ev)
       THEN SetEventStatus(hook[h].ev, "processing") /\ HookTo(h, "resolve")
       ELSE HookReturns(h) /\ UNCHANGED inbox
    /\ UNCHANGED <<tables, provider, outbox>>

(* findByProviderReference; the status read here decides what follows.     *)
ResolveEvent(h) ==
    LET p == HookTx(h)
    IN  /\ hook[h].pc = "resolve"
        /\ IF TxExists(p) /\ txs[p].routable
           THEN hook' = [hook EXCEPT ![h] = [@ EXCEPT !.pc = "apply",
                                                      !.seen = txs[p].status]]
           ELSE HookTo(h, "unknown")
        /\ UNCHANGED <<tables, provider, inbox, outbox>>

FailUnknown(h) ==
    /\ hook[h].pc = "unknown"
    /\ SetEventStatus(hook[h].ev, "failed")
    /\ HookReturns(h)
    /\ UNCHANGED <<tables, provider, outbox>>

(* A mutant: a refusal of applySucceededPayment is swallowed.              *)
MutantSwallowsRefusal(h) ==
    /\ hook[h].pc = "apply"
    /\ hook[h].outcome = "succeeded"
    /\ hook[h].seen \notin WebhookTerminal
    /\ CreditPayment(HookTx(h)) \/ (PaymentOutcome(HookTx(h)) # "changed" /\ UNCHANGED tables)
    /\ hook' = [hook EXCEPT ![h] = [@ EXCEPT !.pc = "mark", !.seen = "succeeded"]]
    /\ UNCHANGED <<provider, inbox, outbox>>

(* A success for a transaction read as open: credit it.                    *)
ApplySuccess(h) ==
    LET p == HookTx(h)
    IN  /\ hook[h].pc = "apply"
        /\ hook[h].outcome = "succeeded"
        /\ hook[h].seen \notin WebhookTerminal
        /\ \/ CreditPayment(p)
           \/ PaymentOutcome(p) = "already" /\ UNCHANGED tables
        /\ hook' = [hook EXCEPT ![h] = [@ EXCEPT !.pc = "mark", !.seen = "succeeded"]]
        /\ UNCHANGED <<provider, inbox, outbox>>

(* applySucceededPayment throws; the handler's catch marks the event.      *)
ApplySuccessThrows(h) ==
    /\ hook[h].pc = "apply"
    /\ hook[h].outcome = "succeeded"
    /\ hook[h].seen \notin WebhookTerminal
    /\ PaymentOutcome(HookTx(h)) \in {"overpayment", "not_confirmable"}
    /\ HookTo(h, "fail")
    /\ UNCHANGED <<tables, provider, inbox, outbox>>

(* Nothing to apply: a notice, or a transaction read as terminal.  An      *)
(* ignored one, and a success read as succeeded, are not announced.        *)
SkipEvent(h) ==
    LET outcome == hook[h].outcome
        seen    == hook[h].seen
    IN  /\ hook[h].pc = "apply"
        /\ outcome \in {"ignored", "requires_action"} \/ seen \in WebhookTerminal
        /\ HookTo(h, IF outcome = "ignored" \/ (outcome = "succeeded" /\ seen = "succeeded")
                     THEN "mark_only" ELSE "mark")
        /\ UNCHANGED <<tables, provider, inbox, outbox>>

(* Failed, cancelled, expired: an unconditional write, on the status read. *)
ApplyClosure(h) ==
    LET outcome == hook[h].outcome
    IN  /\ hook[h].pc = "apply"
        /\ outcome \in {"failed", "cancelled", "expired"}
        /\ hook[h].seen \notin WebhookTerminal
        /\ SetTxStatus(HookTx(h), outcome)
        /\ hook' = [hook EXCEPT ![h] = [@ EXCEPT !.pc = "mark", !.seen = outcome]]
        /\ UNCHANGED <<provider, inbox, outbox>>

MarkProcessed(h) ==
    /\ hook[h].pc \in {"mark", "mark_only"}
    /\ SetEventStatus(hook[h].ev, "processed")
    /\ IF hook[h].pc = "mark" THEN HookTo(h, "emit_tx") ELSE HookReturns(h)
    /\ UNCHANGED <<tables, provider, outbox>>

EmitHookTx(h) ==
    /\ hook[h].pc = "emit_tx"
    /\ EmitTransactionStatus(HookTx(h), hook[h].seen, <<"provider", hook[h].ev>>)
    /\ HookTo(h, "emit_intent")
    /\ UNCHANGED <<tables, provider, inbox>>

(* The intent is read again to be announced.                               *)
EmitHookIntent(h) ==
    LET i == txs[HookTx(h)].intent
    IN  /\ hook[h].pc = "emit_intent"
        /\ EmitIntentStatus(i, intents[i].status, <<"provider", hook[h].ev>>)
        /\ HookReturns(h)
        /\ UNCHANGED <<tables, provider, inbox>>

(* A statement inside the try fails: the event is marked failed, even when *)
(* it was marked processed before.                                         *)
StatementThrows(h) ==
    /\ hook[h].pc \in {"apply", "mark", "mark_only", "emit_tx", "emit_intent"}
    /\ HookTo(h, "fail")
    /\ UNCHANGED <<tables, provider, inbox, outbox>>

(* A mutant: what could not be handled is put away as processed.           *)
MutantFailIsProcessed(h) ==
    /\ hook[h].pc = "fail"
    /\ SetEventStatus(hook[h].ev, "processed")
    /\ HookReturns(h)
    /\ UNCHANGED <<tables, provider, outbox>>

FailEvent(h) ==
    /\ hook[h].pc = "fail"
    /\ SetEventStatus(hook[h].ev, "failed")
    /\ HookReturns(h)
    /\ UNCHANGED <<tables, provider, outbox>>

(* The process dies, or a statement outside the try (or the markFailed of  *)
(* the catch) fails: the row keeps the status it has.                      *)
AbortHook(h) ==
    /\ hook[h].pc # "idle"
    /\ HookReturns(h)
    /\ UNCHANGED <<tables, provider, inbox, outbox>>

WebhookNext ==
    \E h \in Hooks :
        \/ \E e \in Events, outcome \in Outcomes :
             \/ \E p \in Payments : ReceiveEvent(h, e, p, outcome)
             \/ ReceiveAgain(h, e, outcome)
        \/ ClaimEvent(h) \/ ResolveEvent(h) \/ FailUnknown(h)
        \/ ApplySuccess(h) \/ ApplySuccessThrows(h) \/ SkipEvent(h) \/ ApplyClosure(h)
        \/ MarkProcessed(h) \/ EmitHookTx(h) \/ EmitHookIntent(h)
        \/ StatementThrows(h) \/ FailEvent(h) \/ AbortHook(h)
=============================================================================
