--------------------------- MODULE PaymentTables ---------------------------
(***************************************************************************)
(* The two tables every use case shares, po_intents and po_transactions,   *)
(* and the statements the Drizzle repositories run on them.  A statement,  *)
(* and a db.transaction, is one atomic step; whatever a use case does      *)
(* between two awaits may interleave with every other request.             *)
(*                                                                         *)
(* Ids.  A request inserts at most one transaction row, under a fresh      *)
(* UUID, so a row is named by the request that inserts it: Payments are    *)
(* the CreateGatewayPayment requests (incoming rows), Refunds the          *)
(* RefundPaymentTransaction requests (outgoing rows).  One merchant.       *)
(***************************************************************************)
EXTENDS PaymentState, FiniteSetsExt

CONSTANTS Intents,   \* intent ids
          Payments,  \* requests that create incoming transactions
          Refunds,   \* requests that create outgoing (refund) transactions
          Keys,      \* idempotency keys
          Dues,      \* amountDue of the intents, bound of the model
          Amounts,   \* amounts that requests name, bound of the model
          None       \* null

ASSUME TablesAssumption ==
    /\ IsFiniteSet(Payments) /\ IsFiniteSet(Refunds)
    /\ Payments \cap Refunds = {}
    /\ Intents \cap (Payments \cup Refunds) = {}
    /\ Dues \subseteq Nat \ {0}
    /\ Amounts \subseteq Nat \ {0}
    /\ None \notin Intents \cup Payments \cup Refunds \cup Keys

VARIABLES
    intents,   \* po_intents
    txs,       \* po_transactions
    overdue,   \* ids of the rows whose expiresAt has passed
    credited   \* history: rows that became succeeded, whose amount the totals owe

tables == <<intents, txs, overdue, credited>>

Txs == Payments \cup Refunds

IntentRow == [status: IntentStatuses \cup {"absent"}, due: Nat, paid: Nat,
              refunded: Nat, remaining: Nat, allowPartial: BOOLEAN]

(* routable: findByProviderReference still finds the row under the         *)
(* reference its provider charge was created with.                         *)
TxRow == [status: TransactionStatuses \cup {"absent"}, amount: Nat,
          intent: Intents \cup {None}, parent: Payments \cup {None},
          key: Keys \cup {None}, routable: BOOLEAN]

TablesTypeOK ==
    /\ intents \in [Intents -> IntentRow]
    /\ txs \in [Txs -> TxRow]
    /\ overdue \subseteq Intents \cup Payments
    /\ credited \subseteq Txs

TablesInit ==
    /\ intents = [i \in Intents |->
                    [status |-> "absent", due |-> 0, paid |-> 0, refunded |-> 0,
                     remaining |-> 0, allowPartial |-> FALSE]]
    /\ txs = [t \in Txs |->
                [status |-> "absent", amount |-> 0, intent |-> None,
                 parent |-> None, key |-> None, routable |-> FALSE]]
    /\ overdue = {}
    /\ credited = {}

(***************************************************************************)
(* po_intents                                                              *)
(***************************************************************************)
CreateIntent(i, due, partial) ==
    /\ intents[i].status = "absent"
    /\ intents' = [intents EXCEPT ![i] =
                     [status |-> "requires_payment", due |-> due, paid |-> 0,
                      refunded |-> 0, remaining |-> due, allowPartial |-> partial]]
    /\ UNCHANGED <<txs, overdue, credited>>

(* updateStatus writes whatever the row's status is now.                   *)
SetIntentStatus(i, status) ==
    /\ intents' = [intents EXCEPT ![i].status = status]
    /\ UNCHANGED <<txs, overdue, credited>>

(* expiresAt <= now becomes true of an existing row and stays true.        *)
PassDeadline ==
    /\ \E x \in (Intents \cup Payments) \ overdue :
         /\ x \in Intents => intents[x].status # "absent"
         /\ x \in Payments => txs[x].status # "absent"
         /\ overdue' = overdue \cup {x}
    /\ UNCHANGED <<intents, txs, credited>>

(***************************************************************************)
(* po_transactions                                                         *)
(***************************************************************************)
TxExists(t) == txs[t].status # "absent"

(* The amounts of a set of rows, added up.                                 *)
SumOf(rows, S) == MapThenSumSet(LAMBDA t : rows[t].amount, S)

Total(S) == SumOf(txs, S)

(* The unique index on (merchant_id, idempotency_key), nulls excluded.     *)
KeyHolders(k) == {t \in Txs : TxExists(t) /\ k # None /\ txs[t].key = k}

InsertTx(t, row) ==
    /\ ~TxExists(t)
    /\ KeyHolders(row.key) = {}
    /\ txs' = [txs EXCEPT ![t] = row]
    /\ UNCHANGED <<intents, overdue, credited>>

(* updateStatus: by id, with no condition on the current status.           *)
SetTxStatus(t, status) ==
    /\ txs' = [txs EXCEPT ![t].status = status]
    /\ UNCHANGED <<intents, overdue, credited>>

(* Mutants: the UPDATE of the intent without its amountRemaining guard,    *)
(* and the UPDATE of the transaction without its status guard.             *)
MutantOverpays(t) ==
    CASE txs[t].status = "succeeded"           -> "already"
      [] txs[t].status \in ConfirmableStatuses -> "changed"
      [] OTHER                                 -> "not_confirmable"

MutantRevives(t) ==
    IF intents[txs[t].intent].remaining >= txs[t].amount THEN "changed" ELSE "overpayment"

(* The outcomes of applySucceededPayment, decided inside its transaction.  *)
PaymentOutcome(t) ==
    LET status == txs[t].status
        fits   == intents[txs[t].intent].remaining >= txs[t].amount
    IN  CASE status = "succeeded"                      -> "already"
          [] status \in ConfirmableStatuses /\ fits    -> "changed"
          [] status \in ConfirmableStatuses /\ ~fits   -> "overpayment"
          [] OTHER                                     -> "not_confirmable"

(* The intent as a payment of a leaves it.                                 *)
PaidRow(row, a) ==
    [row EXCEPT !.paid = row.paid + a, !.remaining = row.remaining - a,
                !.status = ComputeIntentStatus(row.due, row.paid + a)]

(* The committed effect of applySucceededPayment: the transaction and its  *)
(* intent change together, or (any outcome but "changed") not at all.      *)
CreditPayment(t) ==
    LET i == txs[t].intent
    IN  /\ PaymentOutcome(t) = "changed"
        /\ txs' = [txs EXCEPT ![t].status = "succeeded"]
        /\ intents' = [intents EXCEPT ![i] = PaidRow(intents[i], txs[t].amount)]
        /\ credited' = credited \cup {t}
        /\ UNCHANGED overdue

(* applySucceededRefund: the refund row is written without looking at its  *)
(* status; the guard on the intent's totals rolls both writes back.        *)
(* (A mutant drops the guard.)                                             *)
MutantRefundAlwaysFits(r) == TRUE

RefundFits(r) ==
    LET row == intents[txs[r].intent]
    IN  row.refunded + txs[r].amount <= row.paid

(* The intent as a refund of a leaves it.                                  *)
RefundedRow(row, a) ==
    [row EXCEPT !.refunded = row.refunded + a,
                !.status = StatusAfterRefund(row.status, row.paid, row.refunded + a)]

CreditRefund(r) ==
    LET i == txs[r].intent
    IN  /\ RefundFits(r)
        /\ txs' = [txs EXCEPT ![r].status = "succeeded"]
        /\ intents' = [intents EXCEPT ![i] = RefundedRow(intents[i], txs[r].amount)]
        /\ credited' = credited \cup {r}
        /\ UNCHANGED overdue

(***************************************************************************)
(* The statements of the writers that use no transaction of the database.  *)
(***************************************************************************)

(* markSucceededIfConfirmable: the row only, and only if it is open.  (A   *)
(* mutant drops the condition.)                                            *)
MutantMarksAny(t) ==
    /\ txs' = [txs EXCEPT ![t].status = "succeeded"]
    /\ credited' = credited \cup {t}
    /\ UNCHANGED <<intents, overdue>>

MarkSucceeded(t) ==
    /\ txs[t].status \in ConfirmableStatuses
    /\ txs' = [txs EXCEPT ![t].status = "succeeded"]
    /\ credited' = credited \cup {t}
    /\ UNCHANGED <<intents, overdue>>

(* updateTotals: whatever the totals are now.                              *)
SetIntentTotals(i, paid, refunded, remaining) ==
    /\ intents' = [intents EXCEPT ![i] = [@ EXCEPT !.paid = paid, !.refunded = refunded,
                                                   !.remaining = remaining]]
    /\ UNCHANGED <<txs, overdue, credited>>
-----------------------------------------------------------------------------
(***************************************************************************)
(* The intent's totals.                                                    *)
(***************************************************************************)

(* What is paid and what remains always make up what is due, and no more   *)
(* is refunded than was paid: the atomic increments of                     *)
(* applySucceededPayment and applySucceededRefund lose no update.          *)
AmountsConserved ==
    \A i \in Intents :
        /\ intents[i].paid + intents[i].remaining = intents[i].due
        /\ intents[i].paid <= intents[i].due
        /\ intents[i].refunded <= intents[i].paid

(* An intent that the expiry worker has not closed has the status its      *)
(* totals imply, whichever use case wrote last.                            *)
StatusMatchesTotals ==
    \A i \in Intents :
        LET row == intents[i]
        IN  row.status \notin {"absent", "expired"} =>
              \/ row.status = "requires_payment" /\ row.paid = 0
              \/ row.status = "refunded" /\ row.paid > 0 /\ row.refunded = row.paid
              \/ /\ row.paid > row.refunded
                 /\ row.status = IF row.paid < row.due THEN "partially_paid" ELSE "paid"

(* A transaction is succeeded only if its amount is in the intent's totals *)
(* ("cannot become succeeded without the parent intent changing in the     *)
(* same DB transaction"), and one that is in the totals can never be       *)
(* confirmed, hence credited, again.                                       *)
CreditedExactly ==
    /\ \A t \in Txs : txs[t].status = "succeeded" => t \in credited
    /\ \A p \in Payments \cap credited : txs[p].status \notin ConfirmableStatuses \cup {"absent"}

(* The totals are exactly the sums of the credited transactions of the     *)
(* intent: nothing is counted twice and nothing is dropped by concurrent   *)
(* confirmations, webhooks and refunds.                                    *)
TotalsAreSums ==
    \A i \in Intents :
        /\ intents[i].paid = Total({p \in Payments \cap credited : txs[p].intent = i})
        /\ intents[i].refunded = Total({r \in Refunds \cap credited : txs[r].intent = i})

(* The intents as the accounts of PaymentAccount.                          *)
Account == INSTANCE PaymentAccount WITH
    due <- [i \in Intents |-> intents[i].due],
    paid <- [i \in Intents |-> intents[i].paid],
    refunded <- [i \in Intents |-> intents[i].refunded],
    settled <- credited

(* Seen from the intents alone, the tables are accounts that are opened,   *)
(* paid and refunded by one-time credits within their bounds, whatever the *)
(* rest of the code does in between.                                       *)
ImplementsAccount == Account!Spec
=============================================================================
