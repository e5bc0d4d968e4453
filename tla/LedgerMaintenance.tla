------------------------- MODULE LedgerMaintenance -------------------------
(***************************************************************************)
(* The use cases that repair payments after the fact (a refresh from the   *)
(* provider, the replay of stored events, the reconciliation of totals)    *)
(* running against each other and against the provider's webhooks.         *)
(*                                                                         *)
(* Of CreateGatewayPayment and RefundPaymentTransaction, whose interleaved *)
(* steps are PaymentSystem's subject, only the statements on the tables    *)
(* take part, one step for each call that gets through.                    *)
(***************************************************************************)
EXTENDS RefreshStatus, ReconcileTotals, ReprocessEvents

CONSTANTS MaxBusy,        \* bound of the model: calls in progress at a time
          Production      \* nodeEnv = 'production'

ASSUME MaintenanceAssumption == MaxBusy \in Nat /\ Production \in BOOLEAN

mvars == <<tables, provider, outbox, webhookVars, refresh, reconcile, reprocess>>

MaintenanceTypeOK ==
    /\ TablesTypeOK /\ ProviderTypeOK /\ OutboxTypeOK /\ WebhookTypeOK
    /\ RefreshTypeOK /\ ReconcileTypeOK /\ ReprocessTypeOK

MaintenanceInit ==
    /\ TablesInit /\ ProviderInit /\ OutboxInit /\ WebhookInit
    /\ RefreshInit /\ ReconcileInit /\ ReprocessInit

(* The row of a charge the provider has opened is inserted.                *)
OpenPayment(i, p, a) ==
    /\ charge[p] = "none"
    /\ IntentPayable(intents[i], i \in overdue)
    /\ PaymentAmountAllowed(intents[i], a)
    /\ InsertTx(p, [status |-> "requires_action", amount |-> a, intent |-> i,
                    parent |-> None, key |-> None, routable |-> TRUE])
    /\ charge' = [charge EXCEPT ![p] = "open"]
    /\ UNCHANGED returned

(* A refund that ends in applySucceededRefund.                             *)
GiveBack(r, p, a) ==
    LET i == txs[p].intent
        refunded == Total({t \in Refunds : txs[t].parent = p})
    IN  /\ ~TxExists(r)
        /\ txs[p].status = "succeeded"
        /\ a <= txs[p].amount - refunded
        /\ intents[i].refunded + a <= intents[i].paid
        /\ txs' = [txs EXCEPT ![r] = [status |-> "succeeded", amount |-> a, intent |-> i,
                                      parent |-> p, key |-> None, routable |-> FALSE]]
        /\ intents' = [intents EXCEPT ![i] = RefundedRow(intents[i], a)]
        /\ credited' = credited \cup {r}
        /\ returned' = [returned EXCEPT ![p] = @ + a]
        /\ UNCHANGED <<charge, overdue>>

Business ==
    \/ /\ \E i \in Intents, due \in Dues, partial \in BOOLEAN : CreateIntent(i, due, partial)
       /\ UNCHANGED provider
    \/ \E i \in Intents, p \in Payments, a \in Amounts : OpenPayment(i, p, a)
    \/ \E r \in Refunds, p \in Payments, a \in Amounts : GiveBack(r, p, a)
    \/ SettleCharge /\ UNCHANGED tables

Busy == Cardinality({h \in Hooks : hook[h].pc # "idle"})
        + Cardinality({f \in Refreshes : refresh[f].pc # "idle"})
        + Cardinality({c \in Reconciles : reconcile[c].pc # "idle"})
        + Cardinality({b \in Reprocesses : reprocess[b].pc # "idle"})

ReconcileStepOf(i) ==
    /\ \E c \in Reconciles :
         \/ LoadIntent(c, i)
         \/ reconcile[c].intent = i /\ (ReconcileStep(c) \/ AbortReconcile(c))
    /\ UNCHANGED <<outbox, webhookVars, refresh, reprocess>>

Calls ==
    \/ WebhookNext /\ UNCHANGED <<refresh, reconcile, reprocess>> /\ Busy' <= MaxBusy
    \/ RefreshNext /\ UNCHANGED <<outbox, webhookVars, reconcile, reprocess>> /\ Busy' <= MaxBusy
    \/ ReprocessNext /\ UNCHANGED <<refresh, reconcile>> /\ Busy' <= MaxBusy
    \/ \E i \in Intents : ReconcileStepOf(i) /\ Busy' <= MaxBusy

MaintenanceNext ==
    \/ Business /\ UNCHANGED <<outbox, webhookVars, refresh, reconcile, reprocess>>
    \/ Calls

MaintenanceSpec == MaintenanceInit /\ [][MaintenanceNext]_mvars
-----------------------------------------------------------------------------
(* However the repairs overwrite each other's totals, none of them counts  *)
(* a payment or a refund twice: an intent never shows more than what its   *)
(* transactions brought or took.                                           *)
NothingCountedTwice ==
    \A i \in Intents :
        /\ intents[i].paid <= Total({p \in Payments \cap credited : txs[p].intent = i})
        /\ intents[i].refunded <= Total({r \in Refunds \cap credited : txs[r].intent = i})

(* With a replay that works on events nobody has claimed, an event that    *)
(* says how a charge settled is still marked processed only once its       *)
(* transaction is no longer open.                                          *)
ReplayedEventIsApplied ==
    \A e \in Events :
        inbox[e].status = "processed" /\ inbox[e].outcome \notin {"ignored", "requires_action"} =>
           txs[inbox[e].tx].status \notin ConfirmableStatuses \cup {"absent"}

(* A transaction the repairs make succeeded is one the provider was paid   *)
(* for, and one that was closed without success stays uncredited.          *)
RepairsCreditOnlyCaptured ==
    [][\A p \in Payments : p \in credited' \ credited =>
          charge[p] = "succeeded" /\ txs[p].status \in ConfirmableStatuses]_mvars

(* The totals and the status of an intent are what its rows say: those     *)
(* that are succeeded, and nothing else.                                   *)
Agrees(i) ==
    LET succeeded(rows) ==
            Total({t \in rows : txs[t].intent = i /\ txs[t].status = "succeeded"})
        row == intents[i]
    IN  row.status # "absent" =>
          /\ row.paid = succeeded(Payments) /\ row.refunded = succeeded(Refunds)
          /\ row.paid <= row.due => row.paid + row.remaining = row.due
          /\ row.status = ComputeIntentStatus(row.due, row.paid)

(* A reconciliation of i ends by itself.                                   *)
Reconciled(i) ==
    \E c \in Reconciles :
        reconcile[c].intent = i /\ ReconcileStep(c) /\ reconcile'[c].intent = None

(* What a reconciliation of i in progress has read is not out of date: the *)
(* sums it will write are what the rows say, and the part of the intent it *)
(* found right, and will therefore leave alone, is right still.            *)
UpToDate(call, i) ==
    LET sums == SumsOfRows(i)
        right(row) == /\ row.paid = sums.paid /\ row.refunded = sums.refunded
                      /\ row.remaining = sums.remaining
    IN  /\ call.before.status = sums.status => intents[i].status = sums.status
        /\ call.pc = "rows" /\ right(call.before) => right(intents[i])
        /\ call.pc \in {"totals", "status"} => call.after = sums
        /\ call.pc = "status" => right(intents[i])

AllUpToDate(i) ==
    \A c \in Reconciles : reconcile[c].intent = i => UpToDate(reconcile[c], i)

(* While reconciliations of an intent alone run, none of which read what   *)
(* has changed since, they stay of one mind however they interleave and    *)
(* wherever they are cut off: the one that ends leaves totals and status   *)
(* as the rows say, and no other takes them away again.                    *)
RepairsSettle ==
    [][\A i \in Intents :
          AllUpToDate(i) /\ ReconcileStepOf(i) =>
             /\ AllUpToDate(i)'
             /\ Agrees(i) \/ Reconciled(i) => Agrees(i)']_mvars

(* reconcile-intent is the tool "after a crash or suspected drift": once   *)
(* only reconciliations run, however they and the writers before them were *)
(* cut off, reconciling an intent again and again makes its totals agree   *)
(* with its transactions for good.                                         *)
DriftIsRepaired ==
    \A i \in Intents :
        /\ <>[][ReconcileStepOf(i)]_mvars
        /\ []<><<Reconciled(i)>>_mvars
        => <>[]Agrees(i)
=============================================================================
