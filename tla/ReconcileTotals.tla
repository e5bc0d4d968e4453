-------------------------- MODULE ReconcileTotals --------------------------
(***************************************************************************)
(* ReconcilePaymentIntentTotals, the route and the worker of that name:    *)
(* the intent is read, then its transactions; the totals are recomputed    *)
(* from the succeeded ones and written, and after them the status, if it   *)
(* differs from the one that was read.                                     *)
(***************************************************************************)
EXTENDS PaymentProvider

CONSTANT Reconciles       \* concurrent reconciliations

VARIABLE reconcile

Sums == [paid: Nat, refunded: Nat, remaining: Nat, status: IntentStatuses \cup {"none"}]
NoSums == [paid |-> 0, refunded |-> 0, remaining |-> 0, status |-> "none"]

(* before: the intent as read; after: what its transactions say.           *)
ReconcileCall == [pc: {"idle", "rows", "totals", "status"}, intent: Intents \cup {None},
                  before: Sums, after: Sums]

ReconcileTypeOK == reconcile \in [Reconciles -> ReconcileCall]

ReconcileIdle == [pc |-> "idle", intent |-> None, before |-> NoSums, after |-> NoSums]

ReconcileInit == reconcile = [c \in Reconciles |-> ReconcileIdle]

ReconcileReturns(c) == reconcile' = [reconcile EXCEPT ![c] = ReconcileIdle]

LoadIntent(c, i) ==
    LET row == intents[i]
    IN  /\ reconcile[c].pc = "idle"
        /\ row.status # "absent"
        /\ reconcile' = [reconcile EXCEPT ![c] =
                           [pc |-> "rows", intent |-> i, after |-> NoSums,
                            before |-> [paid |-> row.paid, refunded |-> row.refunded,
                                        remaining |-> row.remaining, status |-> row.status]]]
        /\ UNCHANGED <<tables, provider>>

(* Succeeded rows of the intent: incoming ones are Payments, outgoing ones *)
(* Refunds.                                                                *)
SucceededSum(rows, i) ==
    Total({t \in rows : txs[t].intent = i /\ txs[t].status = "succeeded"})

(* What reconciliation takes an intent's rows to say.  (A mutant adds up   *)
(* every row, whatever its status.)                                        *)
MutantCountsEveryRow(i) ==
    LET due  == intents[i].due
        paid == Total({t \in Payments : txs[t].intent = i})
    IN  [paid |-> paid, refunded |-> SucceededSum(Refunds, i),
         remaining |-> IF paid >= due THEN 0 ELSE due - paid,
         status |-> ComputeIntentStatus(due, paid)]

SumsOfRows(i) ==
    LET due  == intents[i].due
        paid == SucceededSum(Payments, i)
    IN  [paid |-> paid, refunded |-> SucceededSum(Refunds, i),
         remaining |-> IF paid >= due THEN 0 ELSE due - paid,
         status |-> ComputeIntentStatus(due, paid)]

(* findByIntentId and the sums; no drift ends the call.                    *)
SumRows(c) ==
    LET after == SumsOfRows(reconcile[c].intent)
    IN  /\ reconcile[c].pc = "rows"
        /\ IF after = reconcile[c].before
           THEN ReconcileReturns(c)
           ELSE reconcile' = [reconcile EXCEPT ![c] = [@ EXCEPT !.pc = "totals",
                                                                !.after = after]]
        /\ UNCHANGED <<tables, provider>>

(* A mutant takes the call for finished once the totals are written.       *)
MutantTotalsOnly(c) ==
    LET call == reconcile[c]
    IN  /\ call.pc = "totals"
        /\ SetIntentTotals(call.intent, call.after.paid, call.after.refunded,
                           call.after.remaining)
        /\ ReconcileReturns(c)
        /\ UNCHANGED provider

WriteSums(c) ==
    LET call == reconcile[c]
    IN  /\ call.pc = "totals"
        /\ SetIntentTotals(call.intent, call.after.paid, call.after.refunded,
                           call.after.remaining)
        /\ IF call.after.status # call.before.status
           THEN reconcile' = [reconcile EXCEPT ![c].pc = "status"]
           ELSE ReconcileReturns(c)
        /\ UNCHANGED provider

WriteSumsStatus(c) ==
    /\ reconcile[c].pc = "status"
    /\ SetIntentStatus(reconcile[c].intent, reconcile[c].after.status)
    /\ ReconcileReturns(c)
    /\ UNCHANGED provider

(* A statement fails or the process dies, before the writes or between.    *)
AbortReconcile(c) ==
    /\ reconcile[c].pc # "idle"
    /\ ReconcileReturns(c)
    /\ UNCHANGED <<tables, provider>>

ReconcileStep(c) == SumRows(c) \/ WriteSums(c) \/ WriteSumsStatus(c)

ReconcileNext ==
    \E c \in Reconciles :
        \/ \E i \in Intents : LoadIntent(c, i)
        \/ ReconcileStep(c) \/ AbortReconcile(c)
=============================================================================
