--------------------------- MODULE PaymentSystem ---------------------------
(***************************************************************************)
(* The use cases that change a payment, running concurrently over the two  *)
(* tables they share, and what must hold of the tables at every step.      *)
(***************************************************************************)
EXTENDS GatewayPayment, ConfirmFakeGateway, ProviderWebhook, RefundPayment,
        VoidPayment, ExpireStale

vars == <<tables, provider, outbox, gatewayVars, confirm, webhookVars, refund, void, sweep>>

(* Every variable has its type.  That the balances are naturals is not a   *)
(* matter of form: no subtraction of applySucceededPayment goes below 0.   *)
TypeOK ==
    /\ TablesTypeOK
    /\ ProviderTypeOK
    /\ OutboxTypeOK
    /\ GatewayTypeOK
    /\ ConfirmTypeOK
    /\ WebhookTypeOK
    /\ RefundTypeOK
    /\ VoidTypeOK
    /\ SweepTypeOK

Init ==
    /\ TablesInit
    /\ ProviderInit
    /\ OutboxInit
    /\ GatewayInit
    /\ ConfirmInit
    /\ WebhookInit
    /\ RefundInit
    /\ VoidInit
    /\ SweepInit

(* The merchant creates intents, time passes, customers settle charges.    *)
Environment ==
    \/ /\ \E i \in Intents, due \in Dues, partial \in BOOLEAN : CreateIntent(i, due, partial)
       /\ UNCHANGED provider
    \/ PassDeadline /\ UNCHANGED provider
    \/ SettleCharge /\ UNCHANGED tables

Next ==
    \/ /\ Environment
       /\ UNCHANGED <<outbox, gatewayVars, confirm, webhookVars, refund, void, sweep>>
    \/ /\ GatewayNext
       /\ UNCHANGED <<outbox, confirm, webhookVars, refund, void, sweep>>
    \/ ConfirmNext /\ UNCHANGED <<gatewayVars, webhookVars, refund, void, sweep>>
    \/ WebhookNext /\ UNCHANGED <<gatewayVars, confirm, refund, void, sweep>>
    \/ RefundNext /\ UNCHANGED <<gatewayVars, confirm, webhookVars, void, sweep>>
    \/ VoidNext /\ UNCHANGED <<gatewayVars, confirm, webhookVars, refund, sweep>>
    \/ SweepNext
       /\ UNCHANGED <<outbox, gatewayVars, confirm, webhookVars, refund, void>>

Spec == Init /\ [][Next]_vars
-----------------------------------------------------------------------------
(***************************************************************************)
(* The intent's totals.  (AmountsConserved, StatusMatchesTotals,           *)
(* CreditedExactly, TotalsAreSums and ImplementsAccount, which speak of    *)
(* the tables alone, are in PaymentTables.)                                *)
(***************************************************************************)
(* A payment that was closed, or had succeeded, never becomes confirmable  *)
(* again, and one closed without success is never credited: a late         *)
(* success of the provider cannot revive it.                               *)
SettledForGood ==
    [][\A p \in Payments :
          TxExists(p) /\ txs[p].status \notin ConfirmableStatuses =>
             /\ txs'[p].status \notin ConfirmableStatuses
             /\ p \in credited' => p \in credited]_vars

(***************************************************************************)
(* Idempotency of CreateGatewayPayment.                                    *)
(***************************************************************************)

(* Calls that reached the provider under key k, or hold the right to.      *)
ChargeHolders(k) ==
    {p \in Payments : /\ pay[p].key = k
                      /\ \/ charge[p] # "none"
                         \/ pay[p].pc \in {"charge", "mark_failed", "insert", "apply",
                                           "complete"}}

(* However many calls arrive under one key, at once or after one another,  *)
(* at most one ever reaches the provider.                                  *)
OneChargePerKey == \A k \in Keys : \A p, q \in ChargeHolders(k) : p = q

(* A key is completed only when its transaction is stored, is the one the  *)
(* same parameters asked for and, if the provider had answered success, is *)
(* credited; a replay returns that transaction.                            *)
CompletedKeyIsStored ==
    /\ \A k \in Keys : keys[k].status = "completed" =>
         LET p == keys[k].tx
         IN  /\ p \in Payments
             /\ TxExists(p)
             /\ txs[p].intent = keys[k].intent /\ txs[p].amount = keys[k].amount
             /\ pay[p].result = "succeeded" => p \in credited
    /\ \A p \in Payments : pay[p].pc = "replayed" =>
         LET q == pay[p].reply
         IN  /\ q # p
             /\ TxExists(q)
             /\ txs[q].intent = pay[p].intent /\ txs[q].amount = pay[p].amount

(***************************************************************************)
(* Provider events and what is announced.                                  *)
(***************************************************************************)

(* A webhook call that was told how a charge settled marks its event       *)
(* processed only when the transaction is stored and no longer open,       *)
(* whatever became of the deliveries before and of the statements of this  *)
(* one.  It speaks of the payload the call was given: where the id is a    *)
(* whole invoice's, a later delivery with a status the parser ignores      *)
(* closes the event over a success that could not be applied before.       *)
ProcessedEventIsApplied ==
    [][\A e \in Events :
          inbox[e].status # "processed" /\ inbox'[e].status = "processed" =>
             \E h \in Hooks :
                /\ hook[h].ev = e /\ hook'[h] # hook[h]
                /\ hook[h].outcome \notin {"ignored", "requires_action"} =>
                     txs[inbox[e].tx].status \notin ConfirmableStatuses \cup {"absent"}]_vars

(* At most one webhook call works on an event at any time: the claim is    *)
(* what keeps two deliveries of one success from both being applied.       *)
OneWorkerPerEvent ==
    \A g, h \in Hooks :
        /\ g # h /\ hook[g].ev = hook[h].ev
        /\ hook[g].pc \notin {"idle", "claim"}
        => hook[h].pc \in {"idle", "claim"}

(* The merchant is told of a success, of a (partially) paid intent or of a *)
(* refund only when the totals already contain it.                         *)
AnnouncedIsTrue ==
    \A event \in outbox :
        LET x == event.about
        IN  /\ event.status = "succeeded" => x \in credited
            /\ event.status = "paid" => intents[x].paid >= intents[x].due
            /\ event.status = "partially_paid" => intents[x].paid > 0
            /\ x \in Intents /\ event.status = "refunded" => intents[x].refunded > 0

(* In production an intent is credited only with money the provider holds. *)
CreditedOnlyIfCaptured ==
    Production => \A p \in Payments \cap credited : charge[p] = "succeeded"

(* The refunds of a payment that the totals contain are money the provider *)
(* gave back on it: no refund is booked that was only accepted, refused or *)
(* answered to another call, wherever a call is cut off.                   *)
BookedIsReturned ==
    \A p \in Payments :
        Total({r \in Refunds \cap credited : txs[r].parent = p}) <= returned[p]
-----------------------------------------------------------------------------
(***************************************************************************)
(* What documents and comments of the repository say, and the code does    *)
(* not do.                                                                 *)
(***************************************************************************)

(* A transaction that has succeeded stays so.  Worker operations say       *)
(* expire-stale "Skips terminal transactions", HandleProviderWebhook says  *)
(* "updateStatus if not terminal", VoidPaymentTransaction says "voidable   *)
(* transactions have not succeeded"; each writes what it decided from an   *)
(* earlier read.                                                           *)
SucceededStays ==
    [][\A p \in Payments : txs[p].status = "succeeded" => txs'[p].status = "succeeded"]_vars

(* Header of RefundPaymentTransaction: a refund is at most the refundable  *)
(* amount of its source.  So the provider never gives back more than the   *)
(* payment it refunds.                                                     *)
ReturnedWithinSource ==
    \A p \in Payments : TxExists(p) => returned[p] <= txs[p].amount
=============================================================================
