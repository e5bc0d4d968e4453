---------------------- MODULE LedgerMaintenanceProofs ----------------------
(***************************************************************************)
(* The theorems of the repairs.  AmountsConserved and TotalsAreSums do not *)
(* survive writers that add to a balance they have read before: they lose  *)
(* each other's updates.  What survives is one-sided: a total, and every   *)
(* balance a call has read and will write back, is at most the sum of the  *)
(* credited rows, and that sum only grows.                                 *)
(***************************************************************************)
EXTENDS LedgerMaintenance, ProviderWebhookProofs

(* What the credited rows of an intent brought, and took.                  *)
PaidOf(i) == Total(CreditedOf(Payments, i))
BackOf(i) == Total(CreditedOf(Refunds, i))

(* Totals that were true of intent i at some time, or less.                *)
Within(totals, i) == totals.paid <= PaidOf(i) /\ totals.refunded <= BackOf(i)

RowsInv ==
    /\ TablesTypeOK
    /\ RowsWellFormed
    /\ CreditedExactly
    /\ CreditedExist
    /\ \A i \in Intents : Within(intents[i], i)

(* A balance read before payment t is marked, and one t still fits in.     *)
Before(balance, t) == Within(balance, txs[t].intent)

Room(balance, t) ==
    /\ balance.paid + txs[t].amount <= PaidOf(txs[t].intent)
    /\ balance.refunded <= BackOf(txs[t].intent)

(* What a refresh holds at each of its steps.                              *)
RefreshShape(call) ==
    /\ call.pc # "idle" => call.tx \in Payments /\ TxExists(call.tx)
    /\ call.pc \notin {"idle", "ask"} /\ call.answer = "succeeded" => charge[call.tx] = "succeeded"
    /\ call.pc = "mark" => call.answer = "succeeded" /\ Before(call.balance, call.tx)
    /\ call.pc \in {"totals", "status"} => Room(call.balance, call.tx)
    /\ call.pc = "close" => call.answer \in {"failed", "cancelled", "expired"}

RefreshInv == RefreshTypeOK /\ \A f \in Refreshes : RefreshShape(refresh[f])

(* What a reconciliation holds: sums of rows that are still credited.      *)
ReconcileShape(call) ==
    /\ call.pc # "idle" => call.intent \in Intents
    /\ call.pc \in {"totals", "status"} =>
         call.after.status \in IntentStatuses /\ Within(call.after, call.intent)

ReconcileInv == ReconcileTypeOK /\ \A c \in Reconciles : ReconcileShape(reconcile[c])

(* Steps at which a replay has found its transaction.                      *)
ReplayFound == {"intent", "mark", "totals", "status", "close"}

(* What a run of the replay worker holds.  It takes an event for processed *)
(* once it has applied it, or has read that it need not.                   *)
ReplayShape(call) ==
    LET t == inbox[call.ev].tx
    IN  /\ \A e \in call.todo : inbox[e].status # "absent"
        /\ call.pc \notin {"idle", "next"} => call.ev \in Events /\ inbox[call.ev].status # "absent"
        /\ call.pc \in ReplayFound => TxExists(t)
        /\ call.pc = "intent" /\ call.seen \in ReplayTerminal => Shut(t)
        /\ call.pc = "mark" => ReplayedStatus(call.ev) = "succeeded" /\ Before(call.balance, t)
        /\ call.pc \in {"totals", "status"} => Room(call.balance, t)
        /\ call.pc = "close" => ReplayedStatus(call.ev) \in {"failed", "cancelled", "expired"}
        /\ /\ call.pc \in {"totals", "status", "processed"}
           /\ Settling(inbox[call.ev].outcome)
           => Applied(t)

ReplayInv ==
    /\ ReprocessTypeOK
    /\ \A e \in Events : inbox[e].status # "absent" => inbox[e].outcome \in Outcomes
    /\ \A b \in Reprocesses : ReplayShape(reprocess[b])

MaintenanceInv ==
    /\ RowsInv
    /\ ProviderTypeOK
    /\ OutboxTypeOK
    /\ WebhookInv
    /\ ReportsInv
    /\ AppliedInv
    /\ RefreshInv
    /\ ReconcileInv
    /\ ReplayInv
-----------------------------------------------------------------------------
(***************************************************************************)
(* What the statements on the tables preserve when they are run without a  *)
(* transaction of the database.                                            *)
(***************************************************************************)

(* A payment is credited while it is open, and the sums only grow.         *)
Rising ==
    /\ RowsInv'
    /\ Grows
    /\ StaysClosed
    /\ \A p \in Payments \cap credited' : p \in credited \/ txs[p].status \in ConfirmableStatuses
    /\ \A i \in Intents : /\ PaidOf(i)' \in Nat /\ PaidOf(i) <= PaidOf(i)'
                          /\ BackOf(i)' \in Nat /\ BackOf(i) <= BackOf(i)'

(* Both kinds of rows can be summed up.                                    *)
LEMMA BothKinds ==
  /\ Payments \in SUBSET Txs /\ IsFiniteSet(Payments)
  /\ Refunds \in SUBSET Txs /\ IsFiniteSet(Refunds)
  /\ Payments \cap Refunds = {}
  BY TablesAssumption DEF Txs

(* The sums are naturals.                                                  *)
LEMMA SumsAreNat ==
  RowsInv => \A i \in Intents : PaidOf(i) \in Nat /\ BackOf(i) \in Nat
<1> SUFFICES ASSUME RowsInv, NEW i \in Intents
             PROVE  PaidOf(i) \in Nat /\ BackOf(i) \in Nat
  OBVIOUS
<1>1. Counted(txs, CreditedOf(Payments, i)) /\ Counted(txs, CreditedOf(Refunds, i))
  BY BothKinds, CreditedCount DEF RowsInv
<1> QED
  BY <1>1, SumIsNat DEF PaidOf, BackOf, Total

(* A step that credits nothing.                                            *)
LEMMA NothingCredited ==
  ASSUME RowsInv, TablesTypeOK', RowsWellFormed', CreditedExactly', Grows, StaysClosed,
         credited' = credited,
         \A i \in Intents : intents'[i].paid <= PaidOf(i) /\ intents'[i].refunded <= BackOf(i)
  PROVE  Rising
<1>1. \A i \in Intents : PaidOf(i)' = PaidOf(i) /\ BackOf(i)' = BackOf(i)
  BY BothKinds, CreditedStay DEF RowsInv, PaidOf, BackOf, Total
<1>2. CreditedExist'
  BY DEF RowsInv, CreditedExist, Grows, TxExists
<1>3. RowsInv'
  BY <1>1, <1>2 DEF RowsInv, Within
<1>4. \A i \in Intents : PaidOf(i) \in Nat /\ BackOf(i) \in Nat
  BY SumsAreNat DEF RowsInv
<1> QED
  BY <1>1, <1>3, <1>4 DEF Rising

(* A step that credits one row, and adds at most its amount to one total.  *)
LEMMA OneCredited ==
  ASSUME RowsInv, TablesTypeOK', RowsWellFormed', CreditedExactly', Grows, StaysClosed,
         NEW t \in Txs, TxExists(t)', t \notin credited, credited' = credited \cup {t},
         t \in Payments => txs[t].status \in ConfirmableStatuses,
         \A i \in Intents :
           /\ intents'[i].paid <= PaidOf(i) +
                IF t \in Payments /\ txs'[t].intent = i THEN txs'[t].amount ELSE 0
           /\ intents'[i].refunded <= BackOf(i) +
                IF t \in Refunds /\ txs'[t].intent = i THEN txs'[t].amount ELSE 0
  PROVE  /\ Rising
         /\ \A i \in Intents : t \in Payments /\ txs'[t].intent = i =>
              PaidOf(i)' = PaidOf(i) + txs'[t].amount
<1>1. txs'[t].amount \in Nat /\ txs'[t].intent \in Intents
  BY TablesAssumption DEF RowsWellFormed
<1>2. \A i \in Intents :
        /\ PaidOf(i) \in Nat /\ BackOf(i) \in Nat
        /\ PaidOf(i)' = PaidOf(i) +
             IF t \in Payments /\ txs'[t].intent = i THEN txs'[t].amount ELSE 0
        /\ BackOf(i)' = BackOf(i) +
             IF t \in Refunds /\ txs'[t].intent = i THEN txs'[t].amount ELSE 0
  BY <1>1, BothKinds, CreditedAdds DEF RowsInv, PaidOf, BackOf, Total
<1>3. CreditedExist'
  BY DEF RowsInv, CreditedExist, Grows, TxExists
<1>4. RowsInv'
  BY <1>2, <1>3 DEF RowsInv, Within
<1>5. \A i \in Intents : /\ PaidOf(i)' \in Nat /\ PaidOf(i) <= PaidOf(i)'
                         /\ BackOf(i)' \in Nat /\ BackOf(i) <= BackOf(i)'
  BY <1>1, <1>2
<1>6. \A p \in Payments \cap credited' : p \in credited \/ txs[p].status \in ConfirmableStatuses
  OBVIOUS
<1>7. Rising
  BY <1>4, <1>5, <1>6 DEF Rising
<1> QED
  BY <1>2, <1>7

(* The tables are left alone.                                              *)
LEMMA RowsStutter ==
  ASSUME RowsInv, UNCHANGED tables
  PROVE  Rising
<1>1. TablesTypeOK' /\ RowsWellFormed' /\ CreditedExactly' /\ Grows /\ StaysClosed
  BY DEF tables, RowsInv, TablesTypeOK, RowsWellFormed, CreditedExactly, TxExists, Grows,
     StaysClosed
<1>2. \A i \in Intents : intents'[i].paid <= PaidOf(i) /\ intents'[i].refunded <= BackOf(i)
  BY DEF tables, RowsInv, Within
<1> QED
  BY <1>1, <1>2, NothingCredited DEF tables

(* A write of intents that stays within the sums.                          *)
LEMMA IntentsWritten ==
  ASSUME RowsInv, UNCHANGED <<txs, overdue, credited>>, intents' \in [Intents -> IntentRow],
         \A i \in Intents : /\ intents[i].status # "absent" => intents'[i].status # "absent"
                            /\ intents'[i].paid <= PaidOf(i)
                            /\ intents'[i].refunded <= BackOf(i)
  PROVE  Rising
<1>1. TablesTypeOK' /\ RowsWellFormed' /\ CreditedExactly' /\ Grows /\ StaysClosed
  BY DEF RowsInv, TablesTypeOK, RowsWellFormed, CreditedExactly, TxExists, Grows, StaysClosed
<1> QED
  BY <1>1, NothingCredited

(* po_intents.create                                                       *)
LEMMA IntentCreated ==
  ASSUME RowsInv, NEW i \in Intents, NEW due \in Dues, NEW partial \in BOOLEAN,
         CreateIntent(i, due, partial)
  PROVE  Rising
<1>1. due \in Nat
  BY TablesAssumption
<1>2. intents' \in [Intents -> IntentRow]
  BY <1>1 DEF CreateIntent, RowsInv, TablesTypeOK, IntentRow, IntentStatuses
<1>3. \A j \in Intents : PaidOf(j) \in Nat /\ BackOf(j) \in Nat /\ Within(intents[j], j)
  BY SumsAreNat DEF RowsInv
<1>4. \A j \in Intents : /\ intents[j].status # "absent" => intents'[j].status # "absent"
                         /\ intents'[j].paid <= PaidOf(j)
                         /\ intents'[j].refunded <= BackOf(j)
  BY <1>3 DEF CreateIntent, RowsInv, TablesTypeOK, Within
<1> QED
  BY <1>2, <1>4, IntentsWritten DEF CreateIntent

(* updateStatus of an intent.                                              *)
LEMMA IntentStatusSet ==
  ASSUME RowsInv, NEW i \in Intents, NEW status \in IntentStatuses, SetIntentStatus(i, status)
  PROVE  Rising
<1>1. intents' \in [Intents -> IntentRow] /\ status # "absent"
  BY DEF SetIntentStatus, RowsInv, TablesTypeOK, IntentRow, IntentStatuses
<1>2. \A j \in Intents : /\ intents[j].status # "absent" => intents'[j].status # "absent"
                         /\ intents'[j].paid = intents[j].paid
                         /\ intents'[j].refunded = intents[j].refunded
  BY <1>1 DEF SetIntentStatus, RowsInv, TablesTypeOK, IntentRow
<1> QED
  BY <1>1, <1>2, IntentsWritten DEF SetIntentStatus, RowsInv, Within

(* updateTotals with a balance that is within the sums.                    *)
LEMMA IntentTotalsSet ==
  ASSUME RowsInv, NEW i \in Intents, NEW paid \in Nat, NEW refunded \in Nat, NEW remaining \in Nat,
         SetIntentTotals(i, paid, refunded, remaining), paid <= PaidOf(i), refunded <= BackOf(i)
  PROVE  Rising
<1>1. intents' \in [Intents -> IntentRow]
  BY DEF SetIntentTotals, RowsInv, TablesTypeOK, IntentRow
<1>2. \A j \in Intents :
        /\ intents'[j].status = intents[j].status
        /\ intents'[j].paid = IF j = i THEN paid ELSE intents[j].paid
        /\ intents'[j].refunded = IF j = i THEN refunded ELSE intents[j].refunded
  BY DEF SetIntentTotals, RowsInv, TablesTypeOK, IntentRow
<1> QED
  BY <1>1, <1>2, IntentsWritten DEF SetIntentTotals, RowsInv, Within

(* po_transactions.create                                                  *)
LEMMA RowInserted ==
  ASSUME RowsInv, NEW t \in Txs, NEW row \in TxRow, InsertTx(t, row),
         row.status \in ConfirmableStatuses, row.amount \in Amounts, row.intent \in Intents,
         intents[row.intent].status # "absent"
  PROVE  Rising
<1>0. /\ TablesTypeOK /\ RowsWellFormed /\ CreditedExactly /\ CreditedExist
      /\ \A i \in Intents : Within(intents[i], i)
  BY DEF RowsInv
<1>1. t \notin credited /\ ~TxExists(t)
  BY <1>0 DEF InsertTx, CreditedExist
<1>2. TablesTypeOK'
  BY <1>0 DEF InsertTx, TablesTypeOK
<1>3. RowsWellFormed' /\ Grows
  BY <1>0, <1>1 DEF InsertTx, RowsWellFormed, Grows, TxExists, TablesTypeOK, ConfirmableStatuses
<1>4. CreditedExactly' /\ StaysClosed
  BY <1>0, <1>1 DEF InsertTx, CreditedExactly, StaysClosed, TxExists, TablesTypeOK, Txs,
     ConfirmableStatuses
<1>5. credited' = credited /\ intents' = intents
  BY DEF InsertTx
<1> QED
  BY <1>0, <1>2, <1>3, <1>4, <1>5, NothingCredited DEF Within

(* updateStatus of a payment, to a status that closes it.                  *)
LEMMA RowClosed ==
  ASSUME RowsInv, NEW p \in Payments, NEW status \in {"failed", "cancelled", "expired"},
         SetTxStatus(p, status), TxExists(p)
  PROVE  Rising
<1>0. /\ TablesTypeOK /\ RowsWellFormed /\ CreditedExactly
      /\ \A i \in Intents : Within(intents[i], i)
  BY DEF RowsInv
<1>1. p \in Txs /\ status \in TransactionStatuses
  BY DEF Txs, TransactionStatuses
<1>2. TablesTypeOK'
  BY <1>0, <1>1 DEF SetTxStatus, TablesTypeOK, TxRow
<1>3. RowsWellFormed' /\ Grows
  BY <1>0, <1>1 DEF SetTxStatus, RowsWellFormed, Grows, TxExists, TablesTypeOK, TxRow
<1>4. CreditedExactly' /\ StaysClosed
  BY <1>0, <1>1 DEF SetTxStatus, CreditedExactly, StaysClosed, TablesTypeOK, TxRow, Txs,
     ConfirmableStatuses
<1>5. credited' = credited /\ intents' = intents
  BY DEF SetTxStatus
<1> QED
  BY <1>0, <1>2, <1>3, <1>4, <1>5, NothingCredited DEF Within

(* A row becomes succeeded: what the tables are then, totals aside.        *)
LEMMA RowSucceeds ==
  ASSUME RowsInv, NEW t \in Txs, NEW row \in TxRow, txs' = [txs EXCEPT ![t] = row],
         row.status = "succeeded", row.amount \in Amounts, row.intent \in Intents,
         intents[row.intent].status # "absent",
         TxExists(t) => /\ row.amount = txs[t].amount /\ row.intent = txs[t].intent
                        /\ t \in Payments => txs[t].status \in ConfirmableStatuses,
         t \notin credited, credited' = credited \cup {t}, overdue' = overdue,
         intents' \in [Intents -> IntentRow],
         \A i \in Intents : intents[i].status # "absent" => intents'[i].status # "absent"
  PROVE  /\ TablesTypeOK' /\ RowsWellFormed' /\ CreditedExactly' /\ Grows /\ StaysClosed
         /\ TxExists(t)' /\ txs'[t] = row
<1>0. TablesTypeOK /\ RowsWellFormed /\ CreditedExactly
  BY DEF RowsInv
<1>1. /\ txs' \in [Txs -> TxRow] /\ txs'[t] = row
      /\ \A u \in Txs : u # t => txs'[u] = txs[u]
  BY <1>0 DEF TablesTypeOK
<1>2. TablesTypeOK'
  BY <1>0, <1>1 DEF TablesTypeOK
<1>3. RowsWellFormed' /\ Grows
  BY <1>0, <1>1 DEF RowsWellFormed, Grows, TxExists
<1>4. CreditedExactly' /\ StaysClosed
  BY <1>0, <1>1 DEF CreditedExactly, StaysClosed, TxExists, ConfirmableStatuses, Txs
<1> QED
  BY <1>1, <1>2, <1>3, <1>4 DEF TxExists

(* The status that totals imply is one of an intent's.                     *)
LEMMA StatusIsComputed ==
  ASSUME NEW due \in Nat, NEW paid \in Nat
  PROVE  ComputeIntentStatus(due, paid) \in IntentStatuses
  BY DEF ComputeIntentStatus, IntentStatuses

(* An open payment is stored and not credited.                             *)
LEMMA OpenIsUncredited ==
  ASSUME RowsInv, NEW p \in Payments, txs[p].status \in ConfirmableStatuses
  PROVE  /\ p \in Txs /\ TxExists(p) /\ p \notin credited
         /\ txs[p] \in TxRow /\ txs[p].amount \in Amounts /\ txs[p].intent \in Intents
         /\ intents[txs[p].intent].status # "absent"
<1>1. p \in Txs /\ TxExists(p)
  BY DEF Txs, TxExists, ConfirmableStatuses
<1> QED
  BY <1>1 DEF RowsInv, CreditedExactly, TablesTypeOK, RowsWellFormed

(* markSucceededIfConfirmable: the row is credited before the totals are.  *)
LEMMA PaymentMarked ==
  ASSUME RowsInv, NEW p \in Payments, MarkSucceeded(p)
  PROVE  /\ Rising /\ p \in Txs /\ TxExists(p) /\ txs[p].intent \in Intents
         /\ PaidOf(txs[p].intent) \in Nat /\ txs[p].amount \in Nat
         /\ \A i \in Intents : txs[p].intent = i => PaidOf(i)' = PaidOf(i) + txs[p].amount
<1> DEFINE row == [txs[p] EXCEPT !.status = "succeeded"]
<1>1. /\ p \in Txs /\ TxExists(p) /\ p \notin credited /\ txs[p] \in TxRow
      /\ txs[p].amount \in Amounts /\ txs[p].intent \in Intents
      /\ intents[txs[p].intent].status # "absent" /\ txs[p].status \in ConfirmableStatuses
  BY OpenIsUncredited DEF MarkSucceeded
<1>2. /\ row \in TxRow /\ row.status = "succeeded"
      /\ row.amount = txs[p].amount /\ row.intent = txs[p].intent
  BY <1>1 DEF TxRow, TransactionStatuses
<1>3. /\ txs' = [txs EXCEPT ![p] = row] /\ credited' = credited \cup {p}
      /\ overdue' = overdue /\ intents' = intents
  BY DEF MarkSucceeded
<1> HIDE DEF row
<1>4. /\ TablesTypeOK' /\ RowsWellFormed' /\ CreditedExactly' /\ Grows /\ StaysClosed
      /\ TxExists(p)' /\ txs'[p] = row
  BY <1>1, <1>2, <1>3, RowSucceeds DEF RowsInv, TablesTypeOK
<1>5. txs[p].amount \in Nat /\ \A i \in Intents : PaidOf(i) \in Nat /\ BackOf(i) \in Nat
  BY <1>1, TablesAssumption, SumsAreNat DEF RowsInv
<1>6. \A i \in Intents :
        /\ intents'[i].paid <= PaidOf(i) +
             IF p \in Payments /\ txs'[p].intent = i THEN txs'[p].amount ELSE 0
        /\ intents'[i].refunded <= BackOf(i) +
             IF p \in Refunds /\ txs'[p].intent = i THEN txs'[p].amount ELSE 0
  BY <1>2, <1>3, <1>4, <1>5 DEF RowsInv, TablesTypeOK, IntentRow, Within
<1> QED
  BY <1>1, <1>2, <1>3, <1>4, <1>5, <1>6, OneCredited

(* applySucceededPayment                                                   *)
LEMMA PaymentCredited ==
  ASSUME RowsInv, NEW p \in Payments, CreditPayment(p)
  PROVE  Rising
<1> DEFINE row == [txs[p] EXCEPT !.status = "succeeded"]
           i == txs[p].intent
           a == txs[p].amount
           new == PaidRow(intents[i], a)
<1>1. txs[p].status \in ConfirmableStatuses /\ intents[i].remaining >= a
  BY DEF CreditPayment, PaymentOutcome, ConfirmableStatuses
<1>2. /\ p \in Txs /\ TxExists(p) /\ p \notin credited /\ txs[p] \in TxRow
      /\ a \in Amounts /\ i \in Intents /\ intents[i].status # "absent"
  BY <1>1, OpenIsUncredited
<1>3. /\ row \in TxRow /\ row.status = "succeeded" /\ row.amount = a /\ row.intent = i
  BY <1>2 DEF TxRow, TransactionStatuses
<1>4. /\ txs' = [txs EXCEPT ![p] = row] /\ credited' = credited \cup {p}
      /\ overdue' = overdue /\ intents' = [intents EXCEPT ![i] = new]
  BY DEF CreditPayment
<1>5. intents[i] \in IntentRow /\ a \in Nat /\ p \notin Refunds
  BY <1>2, TablesAssumption DEF RowsInv, TablesTypeOK
<1>6. /\ new \in IntentRow /\ new.status # "absent"
      /\ new.paid = intents[i].paid + a /\ new.refunded = intents[i].refunded
  <2>1. /\ intents[i].due \in Nat /\ intents[i].paid + a \in Nat
        /\ intents[i].remaining - a \in Nat
    BY <1>1, <1>5 DEF IntentRow
  <2>2. ComputeIntentStatus(intents[i].due, intents[i].paid + a) \in IntentStatuses
    BY <2>1, StatusIsComputed
  <2> HIDE DEF i, a
  <2> QED
    BY <1>5, <2>1, <2>2, PaidRowIs DEF IntentStatuses
<1> HIDE DEF row, new
<1>7. /\ intents' \in [Intents -> IntentRow] /\ intents'[i] = new
      /\ \A j \in Intents : j # i => intents'[j] = intents[j]
  BY <1>2, <1>4, <1>6 DEF RowsInv, TablesTypeOK
<1>8. /\ TablesTypeOK' /\ RowsWellFormed' /\ CreditedExactly' /\ Grows /\ StaysClosed
      /\ TxExists(p)' /\ txs'[p] = row
  BY <1>1, <1>2, <1>3, <1>4, <1>6, <1>7, RowSucceeds
<1>9. \A j \in Intents : PaidOf(j) \in Nat /\ BackOf(j) \in Nat /\ Within(intents[j], j)
  BY SumsAreNat DEF RowsInv
<1>10. \A j \in Intents :
         /\ intents'[j].paid <= PaidOf(j) +
              IF p \in Payments /\ txs'[p].intent = j THEN txs'[p].amount ELSE 0
         /\ intents'[j].refunded <= BackOf(j) +
              IF p \in Refunds /\ txs'[p].intent = j THEN txs'[p].amount ELSE 0
  BY <1>2, <1>3, <1>5, <1>6, <1>7, <1>8, <1>9 DEF Within, IntentRow
<1> QED
  BY <1>1, <1>2, <1>4, <1>8, <1>10, OneCredited

(* A refund that goes through.                                             *)
LEMMA RefundGiven ==
  ASSUME RowsInv, NEW r \in Refunds, NEW p \in Payments, NEW a \in Amounts, GiveBack(r, p, a)
  PROVE  Rising /\ Payments \cap credited' = Payments \cap credited
<1> DEFINE i == txs[p].intent
           row == [status |-> "succeeded", amount |-> a, intent |-> i, parent |-> p,
                   key |-> None, routable |-> FALSE]
           new == RefundedRow(intents[i], a)
<1>1. /\ ~TxExists(r) /\ txs[p].status = "succeeded"
      /\ txs' = [txs EXCEPT ![r] = row] /\ intents' = [intents EXCEPT ![i] = new]
      /\ credited' = credited \cup {r} /\ overdue' = overdue
  BY DEF GiveBack
<1>2. /\ r \in Txs /\ r \notin Payments /\ p \in Txs /\ a \in Nat /\ r \notin credited
      /\ i \in Intents /\ intents[i].status # "absent" /\ intents[i] \in IntentRow
  <2>1. r \in Txs /\ r \notin Payments /\ p \in Txs /\ a \in Nat
    BY TablesAssumption DEF Txs
  <2> QED
    BY <1>1, <2>1 DEF RowsInv, CreditedExist, RowsWellFormed, TablesTypeOK, TxExists
<1>3. /\ row \in TxRow /\ row.status = "succeeded" /\ row.amount = a /\ row.intent = i
  BY <1>2 DEF TxRow, TransactionStatuses
<1>4. /\ new \in IntentRow /\ new.status # "absent"
      /\ new.paid = intents[i].paid /\ new.refunded = intents[i].refunded + a
  <2>1. intents[i].refunded + a \in Nat /\ intents[i].status \in IntentStatuses
    BY <1>2 DEF IntentRow
  <2>2. StatusAfterRefund(intents[i].status, intents[i].paid, intents[i].refunded + a) \in IntentStatuses
    BY <2>1 DEF StatusAfterRefund, IntentStatuses
  <2> HIDE DEF i
  <2> QED
    BY <1>2, <2>1, <2>2, RefundedRowIs DEF IntentStatuses
<1> HIDE DEF row, new
<1>5. /\ intents' \in [Intents -> IntentRow] /\ intents'[i] = new
      /\ \A j \in Intents : j # i => intents'[j] = intents[j]
  BY <1>1, <1>2, <1>4 DEF RowsInv, TablesTypeOK
<1>6. /\ TablesTypeOK' /\ RowsWellFormed' /\ CreditedExactly' /\ Grows /\ StaysClosed
      /\ TxExists(r)' /\ txs'[r] = row
  <2>1. \A j \in Intents : intents[j].status # "absent" => intents'[j].status # "absent"
    BY <1>4, <1>5
  <2>2. /\ row.amount \in Amounts /\ row.intent \in Intents
        /\ intents[row.intent].status # "absent"
    BY <1>2, <1>3
  <2> QED
    BY <1>1, <1>2, <1>3, <1>5, <2>1, <2>2, RowSucceeds
<1>7. \A j \in Intents : PaidOf(j) \in Nat /\ BackOf(j) \in Nat /\ Within(intents[j], j)
  BY SumsAreNat DEF RowsInv
<1>8. \A j \in Intents :
        /\ intents'[j].paid <= PaidOf(j) +
             IF r \in Payments /\ txs'[r].intent = j THEN txs'[r].amount ELSE 0
        /\ intents'[j].refunded <= BackOf(j) +
             IF r \in Refunds /\ txs'[r].intent = j THEN txs'[r].amount ELSE 0
  BY <1>2, <1>3, <1>4, <1>5, <1>6, <1>7 DEF Within, IntentRow
<1>9. Rising
  BY <1>1, <1>2, <1>6, <1>8, OneCredited
<1> QED
  BY <1>1, <1>2, <1>9
-----------------------------------------------------------------------------
(***************************************************************************)
(* The rest of the business                                                *)
(***************************************************************************)

(* The money of a captured charge stays with the provider.                 *)
CapturedStays == \A p \in Payments : charge[p] = "succeeded" => charge'[p] = "succeeded"

(* What is credited in a step was captured before it.                      *)
CapturedCredits == \A p \in Payments \cap credited' : p \in credited \/ charge[p] = "succeeded"

(* An open payment is inserted.                                            *)
LEMMA PaymentOpened ==
  ASSUME RowsInv, NEW i \in Intents, NEW p \in Payments, NEW a \in Amounts, OpenPayment(i, p, a)
  PROVE  Rising /\ credited' = credited
<1> DEFINE row == [status |-> "requires_action", amount |-> a, intent |-> i, parent |-> None,
                   key |-> None, routable |-> TRUE]
<1>1. InsertTx(p, row) /\ intents[i].status # "absent"
  BY DEF OpenPayment, IntentPayable, PayableStatuses
<1>2. /\ row \in TxRow /\ row.status \in ConfirmableStatuses
      /\ row.amount = a /\ row.intent = i /\ p \in Txs
  BY TablesAssumption DEF TxRow, TransactionStatuses, ConfirmableStatuses, Txs
<1> HIDE DEF row
<1> QED
  BY <1>1, <1>2, RowInserted DEF InsertTx

(* The business the repairs run beside.                                    *)
LEMMA BusinessKeeps ==
  ASSUME RowsInv, ProviderTypeOK, Business
  PROVE  Rising /\ ProviderTypeOK' /\ CapturedStays /\ CapturedCredits
<1>1. ASSUME NEW i \in Intents, NEW due \in Dues, NEW partial \in BOOLEAN,
             CreateIntent(i, due, partial), UNCHANGED provider
      PROVE  Rising /\ ProviderTypeOK' /\ CapturedStays /\ CapturedCredits
  BY <1>1, IntentCreated DEF CreateIntent, ProviderTypeOK, provider, CapturedStays, CapturedCredits
<1>2. ASSUME NEW i \in Intents, NEW p \in Payments, NEW a \in Amounts, OpenPayment(i, p, a)
      PROVE  Rising /\ ProviderTypeOK' /\ CapturedStays /\ CapturedCredits
  <2>1. Rising /\ credited' = credited
    BY <1>2, PaymentOpened
  <2>2. ProviderTypeOK' /\ CapturedStays
    BY <1>2 DEF OpenPayment, ProviderTypeOK, ChargeStatuses, CapturedStays
  <2> QED
    BY <2>1, <2>2 DEF CapturedCredits
<1>3. ASSUME NEW r \in Refunds, NEW p \in Payments, NEW a \in Amounts, GiveBack(r, p, a)
      PROVE  Rising /\ ProviderTypeOK' /\ CapturedStays /\ CapturedCredits
  <2>1. Rising /\ Payments \cap credited' = Payments \cap credited
    BY <1>3, RefundGiven
  <2>2. ProviderTypeOK' /\ CapturedStays
    BY <1>3, TablesAssumption DEF GiveBack, ProviderTypeOK, CapturedStays
  <2> QED
    BY <2>1, <2>2 DEF CapturedCredits
<1>4. CASE SettleCharge /\ UNCHANGED tables
  <2>1. ProviderTypeOK' /\ CapturedStays
    BY <1>4 DEF SettleCharge, ProviderTypeOK, ChargeStatuses, CapturedStays
  <2> QED
    BY <1>4, <2>1, RowsStutter DEF CapturedCredits, tables
<1> QED
  BY <1>1, <1>2, <1>3, <1>4 DEF Business

(* Webhook calls run beside them, too.                                     *)
LEMMA HooksRaise ==
  ASSUME RowsInv, ProviderTypeOK, OutboxTypeOK, WebhookInv, ReportsInv, WebhookNext
  PROVE  /\ Rising /\ ProviderTypeOK' /\ CapturedStays /\ CapturedCredits
         /\ OutboxTypeOK' /\ WebhookInv' /\ ReportsInv'
<1>1. TablesTypeOK /\ RowsWellFormed
  BY DEF RowsInv
<1>2. Rising
  <2>1. CASE UNCHANGED tables
    BY <2>1, RowsStutter
  <2>2. ASSUME NEW p \in Payments, CreditPayment(p) PROVE Rising
    BY <2>2, PaymentCredited
  <2>3. ASSUME NEW p \in Payments, TxExists(p), NEW status \in {"failed", "cancelled", "expired"},
               SetTxStatus(p, status)
        PROVE  Rising
    BY <2>3, RowClosed
  <2> QED
    BY <1>1, <2>1, <2>2, <2>3, WebhookWrites
<1>3. ProviderTypeOK' /\ CapturedStays
  BY <1>1, WebhookWrites DEF ProviderTypeOK, provider, CapturedStays
<1>4. OutboxTypeOK' /\ WebhookInv'
  BY <1>1, <1>2, WebhookMoves DEF Rising
<1>5. ReportsInv' /\ CapturedCredits
  BY <1>1, CapturedByWebhookNext DEF CapturedCredits
<1> QED
  BY <1>2, <1>3, <1>4, <1>5
-----------------------------------------------------------------------------
(***************************************************************************)
(* RefreshProviderStatus                                                   *)
(***************************************************************************)

(* A balance that was read stays within the sums, which only grow.         *)
LEMMA BalancesStay ==
  ASSUME RowsInv, Rising, NEW t \in Txs, TxExists(t), NEW balance,
         balance.paid \in Nat, balance.refunded \in Nat
  PROVE  /\ Before(balance, t) => Before(balance, t)'
         /\ Room(balance, t) => Room(balance, t)'
<1> DEFINE i == txs[t].intent
<1>1. /\ i \in Intents /\ txs[t].amount \in Nat
      /\ txs'[t].intent = i /\ txs'[t].amount = txs[t].amount
  BY TablesAssumption DEF RowsInv, Rising, Grows, RowsWellFormed
<1>2. /\ PaidOf(i) \in Nat /\ BackOf(i) \in Nat /\ PaidOf(i)' \in Nat /\ BackOf(i)' \in Nat
      /\ PaidOf(i) <= PaidOf(i)' /\ BackOf(i) <= BackOf(i)'
  BY <1>1, SumsAreNat DEF Rising
<1> QED
  BY <1>1, <1>2 DEF Before, Room, Within

(* What a refresh holds stays true whatever the others do.                 *)
LEMMA RefreshShapeStays ==
  ASSUME RowsInv, Rising, CapturedStays, NEW call \in RefreshCall, RefreshShape(call)
  PROVE  RefreshShape(call)'
<1>1. CASE call.pc = "idle"
  BY <1>1 DEF RefreshShape
<1>2. CASE call.pc # "idle"
  <2>1. call.tx \in Payments /\ call.tx \in Txs /\ TxExists(call.tx)
    BY <1>2 DEF RefreshShape, Txs
  <2>2. TxExists(call.tx)'
    BY <2>1 DEF Rising, Grows
  <2>3. call.balance.paid \in Nat /\ call.balance.refunded \in Nat
    BY DEF RefreshCall, Balance
  <2>4. /\ Before(call.balance, call.tx) => Before(call.balance, call.tx)'
        /\ Room(call.balance, call.tx) => Room(call.balance, call.tx)'
    BY <2>1, <2>3, BalancesStay
  <2> QED
    BY <2>1, <2>2, <2>4 DEF RefreshShape, CapturedStays
<1> QED
  BY <1>1, <1>2

(* Other use cases disturb no refresh.                                     *)
LEMMA RefreshStable ==
  ASSUME RowsInv, Rising, CapturedStays, RefreshInv, UNCHANGED refresh
  PROVE  RefreshInv'
<1>1. RefreshTypeOK'
  BY DEF RefreshInv, RefreshTypeOK
<1>2. ASSUME NEW f \in Refreshes PROVE RefreshShape(refresh[f])'
  <2>1. PICK call \in RefreshCall : call = refresh[f] /\ RefreshShape(call)
    BY DEF RefreshInv, RefreshTypeOK
  <2>2. RefreshShape(call)'
    BY <2>1, RefreshShapeStays
  <2>3. refresh'[f] = call
    BY <2>1
  <2> QED
    BY <2>2, <2>3 DEF RefreshShape
<1> QED
  BY <1>1, <1>2 DEF RefreshInv

(* A step that writes a well-shaped row for one refresh.                   *)
LEMMA RefreshWritten ==
  ASSUME RowsInv, Rising, CapturedStays, RefreshInv, NEW f \in Refreshes, NEW new \in RefreshCall,
         refresh' = [refresh EXCEPT ![f] = new], RefreshShape(new)'
  PROVE  RefreshInv'
<1>1. RefreshTypeOK' /\ refresh'[f] = new
  BY DEF RefreshInv, RefreshTypeOK
<1>2. ASSUME NEW g \in Refreshes PROVE RefreshShape(refresh[g])'
  <2>1. CASE g = f
    BY <1>1, <2>1 DEF RefreshShape
  <2>2. CASE g # f
    <3>1. PICK call \in RefreshCall : call = refresh[g] /\ RefreshShape(call)
      BY DEF RefreshInv, RefreshTypeOK
    <3>2. RefreshShape(call)'
      BY <3>1, RefreshShapeStays
    <3>3. refresh'[g] = call
      BY <2>2, <3>1 DEF RefreshInv, RefreshTypeOK
    <3> QED
      BY <3>2, <3>3 DEF RefreshShape
  <2> QED
    BY <2>1, <2>2
<1> QED
  BY <1>1, <1>2 DEF RefreshInv

(* A refresh ends.                                                         *)
LEMMA RefreshEnds ==
  ASSUME RowsInv, Rising, CapturedStays, RefreshInv, NEW f \in Refreshes, RefreshReturns(f)
  PROVE  RefreshInv'
<1>1. RefreshIdle \in RefreshCall
  BY TablesAssumption DEF RefreshIdle, RefreshCall, NoBalance, Balance, ChargeStatuses
<1>2. RefreshShape(RefreshIdle)'
  BY DEF RefreshIdle, RefreshShape
<1>3. refresh' = [refresh EXCEPT ![f] = RefreshIdle]
  BY DEF RefreshReturns
<1> HIDE DEF RefreshIdle
<1> QED
  BY <1>1, <1>2, <1>3, RefreshWritten

(* A payment that is marked adds room for itself to the balance read       *)
(* before.                                                                 *)
LEMMA MarkedMakesRoom ==
  ASSUME RowsInv, NEW p \in Payments, MarkSucceeded(p), NEW balance,
         balance.paid \in Nat, balance.refunded \in Nat, Before(balance, p)
  PROVE  Rising /\ TxExists(p) /\ Room(balance, p)'
<1>1. PICK i \in Intents : i = txs[p].intent
  BY PaymentMarked
<1>2. /\ Rising /\ p \in Txs /\ TxExists(p) /\ PaidOf(i) \in Nat /\ txs[p].amount \in Nat
      /\ PaidOf(i)' = PaidOf(i) + txs[p].amount
  BY <1>1, PaymentMarked
<1>3. /\ txs'[p].intent = i /\ txs'[p].amount = txs[p].amount
      /\ BackOf(i) \in Nat /\ BackOf(i)' \in Nat /\ BackOf(i) <= BackOf(i)'
  BY <1>1, <1>2, SumsAreNat DEF Rising, Grows
<1>4. balance.paid <= PaidOf(i) /\ balance.refunded <= BackOf(i)
  BY <1>1 DEF Before, Within
<1> QED
  BY <1>2, <1>3, <1>4 DEF Room

(* The balance with the payment is a balance that updateTotals may write.  *)
LEMMA RoomToWrite ==
  ASSUME RowsInv, NEW p \in Txs, TxExists(p), NEW balance, Room(balance, p),
         balance.paid \in Nat, balance.refunded \in Nat
  PROVE  /\ txs[p].intent \in Intents
         /\ intents[txs[p].intent].due \in Nat
         /\ balance.paid + txs[p].amount \in Nat
         /\ \A remaining \in Nat :
              SetIntentTotals(txs[p].intent, balance.paid + txs[p].amount, balance.refunded, remaining)
              => Rising
<1>1. /\ txs[p].intent \in Intents /\ txs[p].amount \in Nat
      /\ intents[txs[p].intent].due \in Nat
  BY TablesAssumption DEF RowsInv, RowsWellFormed, TablesTypeOK, IntentRow
<1> QED
  BY <1>1, IntentTotalsSet DEF Room

(* What PaidBalance makes of a balance and an amount.                      *)
LEMMA PaidBalanceIs ==
  ASSUME NEW due \in Nat, NEW balance, NEW a \in Nat,
         balance.paid \in Nat, balance.refunded \in Nat
  PROVE  /\ PaidBalance(due, balance, a).paid = balance.paid + a
         /\ PaidBalance(due, balance, a).refunded = balance.refunded
         /\ PaidBalance(due, balance, a).remaining \in Nat
<1> DEFINE paid == balance.paid + a
<1>1. paid \in Nat
  OBVIOUS
<1> HIDE DEF paid
<1>2. (IF paid >= due THEN 0 ELSE due - paid) \in Nat
  BY <1>1
<1>3. PaidBalance(due, balance, a) =
        [paid |-> paid, refunded |-> balance.refunded,
         remaining |-> IF paid >= due THEN 0 ELSE due - paid]
  BY DEF PaidBalance, paid
<1> QED
  BY <1>2, <1>3 DEF paid

(* Every step of a refresh keeps the tables within the sums, and credits   *)
(* what the provider said it had captured.                                 *)
LEMMA RefreshKeeps ==
  ASSUME RowsInv, ProviderTypeOK, RefreshInv, RefreshNext
  PROVE  Rising /\ RefreshInv' /\ UNCHANGED provider /\ CapturedCredits
<1> DEFINE Goal == Rising /\ RefreshInv' /\ UNCHANGED provider /\ CapturedCredits
<1>0. PICK f \in Refreshes :
        \/ \E p \in Payments : LoadRefresh(f, p)
        \/ AskProvider(f) \/ ReadIntentForRefresh(f) \/ MarkRefreshed(f)
        \/ WriteRefreshedTotals(f) \/ WriteRefreshedStatus(f) \/ CloseRefreshed(f)
        \/ AbortRefresh(f)
  BY DEF RefreshNext
<1>1. PICK call \in RefreshCall :
        /\ call = refresh[f] /\ RefreshShape(call)
        /\ call.balance.paid \in Nat /\ call.balance.refunded \in Nat
  BY DEF RefreshInv, RefreshTypeOK, RefreshCall, Balance
<1>2. call.pc # "idle" =>
        /\ call.tx \in Payments /\ call.tx \in Txs /\ TxExists(call.tx)
        /\ txs[call.tx].intent \in Intents /\ txs[call.tx].amount \in Nat
        /\ intents[txs[call.tx].intent] \in IntentRow
  BY <1>1, TablesAssumption DEF RefreshShape, RowsInv, RowsWellFormed, TablesTypeOK, Txs
<1>3. UNCHANGED provider => CapturedStays
  BY DEF provider, CapturedStays
<1>4. UNCHANGED tables => Rising /\ CapturedCredits
  BY RowsStutter DEF tables, CapturedCredits
<1>5. ASSUME NEW new \in RefreshCall, refresh' = [refresh EXCEPT ![f] = new], RefreshShape(new),
             UNCHANGED <<tables, provider>>
      PROVE  Goal
  <2>1. Rising /\ CapturedCredits /\ CapturedStays
    BY <1>3, <1>4, <1>5
  <2>2. RefreshShape(new)'
    BY <1>5, <2>1, RefreshShapeStays
  <2> QED
    BY <1>5, <2>1, <2>2, RefreshWritten
<1>6. ASSUME Rising, RefreshReturns(f), UNCHANGED provider, CapturedCredits
      PROVE  Goal
  BY <1>3, <1>6, RefreshEnds
<1>7. ASSUME NEW p \in Payments, LoadRefresh(f, p)
      PROVE  Goal
  <2> DEFINE new == [call EXCEPT !.pc = "ask", !.tx = p, !.seen = txs[p].status]
  <2>1. /\ call.pc = "idle" /\ TxExists(p) /\ UNCHANGED <<tables, provider>>
        /\ refresh' = [refresh EXCEPT ![f] = new]
    BY <1>1, <1>7 DEF LoadRefresh
  <2>2. txs[p].status \in TransactionStatuses
    BY <2>1 DEF RowsInv, TablesTypeOK, TxRow, TxExists, Txs
  <2>3. new \in RefreshCall /\ new.pc = "ask" /\ new.tx = p
    BY <1>1, <2>2 DEF RefreshCall
  <2> HIDE DEF new
  <2>4. RefreshShape(new)
    BY <2>1, <2>3 DEF RefreshShape
  <2> QED
    BY <1>5, <2>1, <2>3, <2>4
<1>8. CASE AskProvider(f)
  <2>1. PICK answer \in PollAnswers(call.tx) :
          refresh' = [refresh EXCEPT ![f] = [call EXCEPT !.pc = "intent", !.answer = answer]]
    BY <1>1, <1>8 DEF AskProvider
  <2>2. call.pc = "ask" /\ UNCHANGED <<tables, provider>>
    BY <1>1, <1>8 DEF AskProvider
  <2> DEFINE new == [call EXCEPT !.pc = "intent", !.answer = answer]
  <2>3. /\ answer \in ChargeStatuses \cup {"ignored", "requires_action"}
        /\ answer = "succeeded" => charge[call.tx] = "succeeded"
    BY <1>2, <2>1, <2>2 DEF PollAnswers, XenditPoll, FakeGatewayPoll, ChargeStatuses, ProviderTypeOK
  <2>4. /\ new \in RefreshCall /\ new.pc = "intent" /\ new.tx = call.tx /\ new.answer = answer
        /\ refresh' = [refresh EXCEPT ![f] = new]
    BY <1>1, <2>1, <2>3 DEF RefreshCall
  <2> HIDE DEF new
  <2>5. RefreshShape(new)
    BY <1>2, <2>2, <2>3, <2>4 DEF RefreshShape
  <2> QED
    BY <1>5, <2>2, <2>4, <2>5
<1>9. CASE ReadIntentForRefresh(f)
  <2> DEFINE i == txs[call.tx].intent
             mark == [call EXCEPT !.pc = "mark", !.balance = BalanceOf(i)]
             close == [call EXCEPT !.pc = "close"]
  <2>1. /\ call.pc = "intent" /\ UNCHANGED <<tables, provider>>
        /\ \/ call.answer = "succeeded" /\ refresh' = [refresh EXCEPT ![f] = mark]
           \/ /\ call.answer \in {"failed", "cancelled", "expired"}
              /\ refresh' = [refresh EXCEPT ![f] = close]
           \/ RefreshReturns(f)
    BY <1>1, <1>9 DEF ReadIntentForRefresh, RefreshTo
  <2>2. CASE call.answer = "succeeded" /\ refresh' = [refresh EXCEPT ![f] = mark]
    <3>1. BalanceOf(i) \in Balance
      BY <1>2, <2>1 DEF BalanceOf, Balance, IntentRow
    <3>2. Within(BalanceOf(i), i)
      BY <1>2, <2>1 DEF RowsInv, BalanceOf, Within
    <3> HIDE DEF i
    <3>3. /\ mark \in RefreshCall /\ mark.pc = "mark" /\ mark.tx = call.tx
          /\ mark.answer = call.answer /\ mark.balance = BalanceOf(i)
      BY <1>1, <3>1 DEF RefreshCall
    <3> HIDE DEF mark
    <3>4. RefreshShape(mark)
      BY <1>1, <1>2, <2>1, <2>2, <3>2, <3>3 DEF RefreshShape, Before, i
    <3> QED
      BY <1>5, <2>1, <2>2, <3>3, <3>4
  <2>3. CASE call.answer \in {"failed", "cancelled", "expired"} /\ refresh' = [refresh EXCEPT ![f] = close]
    <3>1. /\ close \in RefreshCall /\ close.pc = "close" /\ close.tx = call.tx
          /\ close.answer = call.answer
      BY <1>1 DEF RefreshCall
    <3> HIDE DEF close
    <3>2. RefreshShape(close)
      BY <1>2, <2>1, <2>3, <3>1 DEF RefreshShape
    <3> QED
      BY <1>5, <2>1, <2>3, <3>1, <3>2
  <2> QED
    BY <1>4, <1>6, <2>1, <2>2, <2>3
<1>10. CASE MarkRefreshed(f)
  <2> DEFINE new == [call EXCEPT !.pc = "totals"]
  <2>1. /\ call.pc = "mark" /\ UNCHANGED provider
        /\ \/ MarkSucceeded(call.tx) /\ refresh' = [refresh EXCEPT ![f] = new]
           \/ RefreshReturns(f) /\ UNCHANGED tables
    BY <1>1, <1>10 DEF MarkRefreshed, RefreshTo
  <2>2. CASE MarkSucceeded(call.tx) /\ refresh' = [refresh EXCEPT ![f] = new]
    <3>1. Before(call.balance, call.tx) /\ charge[call.tx] = "succeeded"
      BY <1>1, <2>1 DEF RefreshShape
    <3>2. /\ new \in RefreshCall /\ new.pc = "totals" /\ new.tx = call.tx
          /\ new.answer = call.answer /\ new.balance = call.balance
      BY <1>1 DEF RefreshCall
    <3> HIDE DEF new
    <3>3. Rising /\ Room(call.balance, call.tx)'
      BY <1>1, <1>2, <2>1, <2>2, <3>1, MarkedMakesRoom
    <3>4. TxExists(call.tx)' /\ charge' = charge /\ CapturedStays
      BY <1>2, <1>3, <2>1, <3>3 DEF Rising, Grows, provider
    <3>5. RefreshShape(new)'
      BY <1>2, <2>1, <3>1, <3>2, <3>3, <3>4 DEF RefreshShape
    <3>6. CapturedCredits
      BY <2>2, <3>1 DEF MarkSucceeded, CapturedCredits
    <3> QED
      BY <2>1, <2>2, <3>2, <3>3, <3>4, <3>5, <3>6, RefreshWritten
  <2> QED
    BY <1>4, <1>6, <2>1, <2>2
<1>11. ASSUME UNCHANGED credited PROVE CapturedCredits
  BY <1>11 DEF CapturedCredits
<1>12. CASE WriteRefreshedTotals(f)
  <2> DEFINE t == call.tx
             new == [call EXCEPT !.pc = "status"]
             balance == PaidBalance(intents[txs[t].intent].due, call.balance, txs[t].amount)
  <2>1. /\ call.pc = "totals" /\ UNCHANGED provider /\ refresh' = [refresh EXCEPT ![f] = new]
        /\ SetIntentTotals(txs[t].intent, balance.paid, balance.refunded, balance.remaining)
    BY <1>1, <1>12 DEF WriteRefreshedTotals, SetBalance, RefreshTo
  <2>2. Room(call.balance, t)
    BY <1>1, <2>1 DEF RefreshShape
  <2>3. Rising
    <3>1. intents[txs[t].intent].due \in Nat /\ txs[t].amount \in Nat
      BY <1>1, <1>2, <2>1, <2>2, RoomToWrite
    <3>2. /\ balance.paid = call.balance.paid + txs[t].amount
          /\ balance.refunded = call.balance.refunded
          /\ balance.remaining \in Nat
      BY <1>1, <3>1, PaidBalanceIs
    <3> HIDE DEF balance
    <3> QED
      BY <1>1, <1>2, <2>1, <2>2, <3>2, RoomToWrite
  <2>4. /\ new \in RefreshCall /\ new.pc = "status" /\ new.tx = t
        /\ new.answer = call.answer /\ new.balance = call.balance
    BY <1>1 DEF RefreshCall
  <2> HIDE DEF new
  <2>5. RefreshShape(new)
    BY <1>1, <1>2, <2>1, <2>2, <2>4 DEF RefreshShape
  <2>6. CapturedStays /\ CapturedCredits
    BY <1>3, <1>11, <2>1 DEF SetIntentTotals
  <2>7. RefreshShape(new)'
    BY <2>3, <2>4, <2>5, <2>6, RefreshShapeStays
  <2> QED
    BY <2>1, <2>3, <2>4, <2>6, <2>7, RefreshWritten
<1>13. CASE WriteRefreshedStatus(f)
  <2> DEFINE t == call.tx
             status == ComputeIntentStatus(intents[txs[t].intent].due,
                                           call.balance.paid + txs[t].amount)
  <2>1. /\ call.pc = "status" /\ UNCHANGED provider /\ RefreshReturns(f)
        /\ SetIntentStatus(txs[t].intent, status)
    BY <1>1, <1>13 DEF WriteRefreshedStatus
  <2>2. intents[txs[t].intent].due \in Nat
    BY <1>1, <1>2, <2>1 DEF IntentRow
  <2>3. call.balance.paid + txs[t].amount \in Nat
    BY <1>1, <1>2, <2>1
  <2>4. status \in IntentStatuses
    BY <2>2, <2>3, StatusIsComputed
  <2> HIDE DEF status
  <2> QED
    BY <1>1, <1>2, <1>6, <1>11, <2>1, <2>4, IntentStatusSet DEF SetIntentStatus
<1>14. CASE CloseRefreshed(f)
  <2>1. /\ call.pc = "close" /\ UNCHANGED provider /\ RefreshReturns(f)
        /\ SetTxStatus(call.tx, call.answer)
    BY <1>1, <1>14 DEF CloseRefreshed
  <2>2. call.answer \in {"failed", "cancelled", "expired"}
    BY <1>1, <2>1 DEF RefreshShape
  <2> QED
    BY <1>2, <1>6, <1>11, <2>1, <2>2, RowClosed DEF SetTxStatus
<1>15. CASE AbortRefresh(f)
  BY <1>4, <1>6, <1>15 DEF AbortRefresh
<1> QED
  BY <1>0, <1>7, <1>8, <1>9, <1>10, <1>12, <1>13, <1>14, <1>15
-----------------------------------------------------------------------------
(***************************************************************************)
(* ReconcilePaymentIntentTotals                                            *)
(***************************************************************************)

(* Sums that were right, or too small, stay so: rows are never uncredited. *)
LEMMA ReconcileShapeStays ==
  ASSUME RowsInv, Rising, NEW call \in ReconcileCall, ReconcileShape(call)
  PROVE  ReconcileShape(call)'
<1>1. call.after.paid \in Nat /\ call.after.refunded \in Nat
  BY DEF ReconcileCall, Sums
<1>2. ASSUME call.intent \in Intents, Within(call.after, call.intent)
      PROVE  Within(call.after, call.intent)'
  <2>1. PICK i \in Intents : i = call.intent
    BY <1>2
  <2>2. /\ PaidOf(i) \in Nat /\ BackOf(i) \in Nat /\ PaidOf(i)' \in Nat /\ BackOf(i)' \in Nat
        /\ PaidOf(i) <= PaidOf(i)' /\ BackOf(i) <= BackOf(i)'
    BY SumsAreNat DEF Rising
  <2> QED
    BY <1>1, <1>2, <2>1, <2>2 DEF Within
<1> QED
  BY <1>2 DEF ReconcileShape

(* A step that writes a well-shaped row for one reconciliation, or none.   *)
LEMMA ReconcileWritten ==
  ASSUME RowsInv, Rising, ReconcileInv,
         \/ UNCHANGED reconcile
         \/ \E c \in Reconciles, new \in ReconcileCall :
              reconcile' = [reconcile EXCEPT ![c] = new] /\ ReconcileShape(new)
  PROVE  ReconcileInv'
<1>1. ASSUME reconcile' \in [Reconciles -> ReconcileCall],
             \A c \in Reconciles : \E call \in ReconcileCall :
                reconcile'[c] = call /\ ReconcileShape(call)
      PROVE  ReconcileInv'
  <2>1. ASSUME NEW c \in Reconciles PROVE ReconcileShape(reconcile[c])'
    <3>1. PICK call \in ReconcileCall : reconcile'[c] = call /\ ReconcileShape(call)
      BY <1>1
    <3>2. ReconcileShape(call)'
      BY <3>1, ReconcileShapeStays
    <3> QED
      BY <3>1, <3>2 DEF ReconcileShape
  <2> QED
    BY <1>1, <2>1 DEF ReconcileInv, ReconcileTypeOK
<1>2. /\ reconcile \in [Reconciles -> ReconcileCall]
      /\ \A c \in Reconciles : ReconcileShape(reconcile[c])
  BY DEF ReconcileInv, ReconcileTypeOK
<1>3. CASE UNCHANGED reconcile
  <2>1. \A c \in Reconciles : reconcile'[c] = reconcile[c] /\ reconcile[c] \in ReconcileCall
    BY <1>2, <1>3
  <2> QED
    BY <1>1, <1>2, <1>3, <2>1
<1>4. ASSUME NEW c \in Reconciles, NEW new \in ReconcileCall,
             reconcile' = [reconcile EXCEPT ![c] = new], ReconcileShape(new)
      PROVE  ReconcileInv'
  <2>1. reconcile' \in [Reconciles -> ReconcileCall]
    BY <1>2, <1>4
  <2>2. \A d \in Reconciles : reconcile'[d] = IF d = c THEN new ELSE reconcile[d]
    BY <1>2, <1>4
  <2>3. \A d \in Reconciles : \E call \in ReconcileCall :
           reconcile'[d] = call /\ ReconcileShape(call)
    BY <1>2, <1>4, <2>2
  <2> QED
    BY <1>1, <2>1, <2>3
<1> QED
  BY <1>3, <1>4

(* What the succeeded rows add up to is at most what the credited ones do. *)
LEMMA SucceededSumIs ==
  ASSUME RowsInv, NEW i \in Intents
  PROVE  /\ SucceededSum(Payments, i) \in Nat /\ SucceededSum(Payments, i) <= PaidOf(i)
         /\ SucceededSum(Refunds, i) \in Nat /\ SucceededSum(Refunds, i) <= BackOf(i)
<1>1. ASSUME NEW rows \in SUBSET Txs, IsFiniteSet(rows)
      PROVE  /\ SucceededSum(rows, i) \in Nat
             /\ SucceededSum(rows, i) <= Total(CreditedOf(rows, i))
  <2> DEFINE S == CreditedOf(rows, i)
             T == {t \in rows : txs[t].intent = i /\ txs[t].status = "succeeded"}
  <2>1. Counted(txs, S)
    BY <1>1, CreditedCount DEF RowsInv
  <2>2. T \in SUBSET S
    BY DEF RowsInv, CreditedExactly, CreditedOf
  <2> HIDE DEF S, T
  <2>3. SumOf(txs, T) \in Nat /\ SumOf(txs, T) <= SumOf(txs, S)
    BY <2>1, <2>2, SumIsNat, SumGrows
  <2> QED
    BY <2>3 DEF SucceededSum, Total, S, T
<1> QED
  BY <1>1, BothKinds DEF PaidOf, BackOf

(* What a reconciliation takes the rows to say is within the sums.         *)
LEMMA SumsOfRowsAre ==
  ASSUME RowsInv, NEW i \in Intents
  PROVE  /\ SumsOfRows(i) \in Sums
         /\ SumsOfRows(i).status \in IntentStatuses
         /\ Within(SumsOfRows(i), i)
<1> DEFINE due == intents[i].due
           paid == SucceededSum(Payments, i)
           refunded == SucceededSum(Refunds, i)
           remaining == IF paid >= due THEN 0 ELSE due - paid
           status == ComputeIntentStatus(due, paid)
<1>1. paid \in Nat /\ paid <= PaidOf(i) /\ refunded \in Nat /\ refunded <= BackOf(i) /\ due \in Nat
  BY SucceededSumIs DEF RowsInv, TablesTypeOK, IntentRow
<1>2. remaining \in Nat /\ status \in IntentStatuses
  BY <1>1, StatusIsComputed
<1>3. SumsOfRows(i) = [paid |-> paid, refunded |-> refunded, remaining |-> remaining,
                       status |-> status]
  BY DEF SumsOfRows
<1> HIDE DEF paid, refunded, remaining, status
<1> QED
  BY <1>1, <1>2, <1>3 DEF Sums, Within

(* A reconciliation writes totals within the sums and credits nothing.     *)
LEMMA ReconcileKeeps ==
  ASSUME RowsInv, ReconcileInv, NEW i \in Intents, ReconcileStepOf(i)
  PROVE  Rising /\ ReconcileInv' /\ UNCHANGED provider /\ credited' = credited
<1> DEFINE Goal == Rising /\ ReconcileInv' /\ UNCHANGED provider /\ credited' = credited
<1>0. PICK c \in Reconciles : LoadIntent(c, i) \/ ReconcileStep(c) \/ AbortReconcile(c)
  BY DEF ReconcileStepOf
<1>1. PICK call \in ReconcileCall : call = reconcile[c] /\ ReconcileShape(call)
  BY DEF ReconcileInv, ReconcileTypeOK
<1>2. /\ call.after \in Sums /\ call.after.paid \in Nat /\ call.after.refunded \in Nat
      /\ call.after.remaining \in Nat
  BY DEF ReconcileCall, Sums
<1>3. ASSUME Rising, UNCHANGED provider, credited' = credited, NEW new \in ReconcileCall,
             reconcile' = [reconcile EXCEPT ![c] = new], ReconcileShape(new)
      PROVE  Goal
  BY <1>3, ReconcileWritten
<1>4. ASSUME Rising, UNCHANGED provider, credited' = credited, ReconcileReturns(c)
      PROVE  Goal
  <2>1. ReconcileIdle \in ReconcileCall
    BY DEF ReconcileIdle, ReconcileCall, NoSums, Sums
  <2>2. ReconcileShape(ReconcileIdle)
    BY DEF ReconcileIdle, ReconcileShape
  <2>3. reconcile' = [reconcile EXCEPT ![c] = ReconcileIdle]
    BY <1>4 DEF ReconcileReturns
  <2> HIDE DEF ReconcileIdle
  <2> QED
    BY <1>3, <1>4, <2>1, <2>2, <2>3
<1>5. UNCHANGED tables => Rising /\ credited' = credited
  BY RowsStutter DEF tables
<1>6. CASE LoadIntent(c, i)
  <2> DEFINE row == intents[i]
             read == [paid |-> row.paid, refunded |-> row.refunded,
                      remaining |-> row.remaining, status |-> row.status]
             new == [pc |-> "rows", intent |-> i, after |-> NoSums, before |-> read]
  <2>1. row.status # "absent" /\ UNCHANGED <<tables, provider>>
        /\ reconcile' = [reconcile EXCEPT ![c] = new]
    BY <1>6 DEF LoadIntent
  <2>2. read \in Sums /\ NoSums \in Sums
    BY <2>1 DEF RowsInv, TablesTypeOK, IntentRow, Sums, NoSums
  <2>3. new \in ReconcileCall /\ new.pc = "rows" /\ new.intent = i
    BY <2>2 DEF ReconcileCall
  <2> HIDE DEF new
  <2>4. ReconcileShape(new)
    BY <2>3 DEF ReconcileShape
  <2> QED
    BY <1>3, <1>5, <2>1, <2>3, <2>4
<1>7. CASE SumRows(c)
  <2> DEFINE after == SumsOfRows(call.intent)
             new == [call EXCEPT !.pc = "totals", !.after = after]
  <2>1. /\ call.pc = "rows" /\ UNCHANGED <<tables, provider>>
        /\ ReconcileReturns(c) \/ reconcile' = [reconcile EXCEPT ![c] = new]
    BY <1>1, <1>7 DEF SumRows
  <2>2. /\ call.intent \in Intents /\ after \in Sums /\ after.status \in IntentStatuses
        /\ Within(after, call.intent)
    BY <1>1, <2>1, SumsOfRowsAre DEF ReconcileShape
  <2> HIDE DEF after
  <2>3. /\ new \in ReconcileCall /\ new.pc = "totals" /\ new.intent = call.intent
        /\ new.after = after
    BY <2>2 DEF ReconcileCall
  <2> HIDE DEF new
  <2>4. ReconcileShape(new)
    BY <2>2, <2>3 DEF ReconcileShape
  <2> QED
    BY <1>3, <1>4, <1>5, <2>1, <2>3, <2>4
<1>8. CASE WriteSums(c)
  <2> DEFINE new == [call EXCEPT !.pc = "status"]
  <2>1. /\ call.pc = "totals" /\ UNCHANGED provider
        /\ SetIntentTotals(call.intent, call.after.paid, call.after.refunded,
                           call.after.remaining)
        /\ ReconcileReturns(c) \/ reconcile' = [reconcile EXCEPT ![c] = new]
    BY <1>1, <1>8 DEF WriteSums
  <2>2. call.intent \in Intents /\ Within(call.after, call.intent)
    BY <1>1, <2>1 DEF ReconcileShape
  <2>3. Rising /\ credited' = credited
    BY <1>2, <2>1, <2>2, IntentTotalsSet DEF Within, SetIntentTotals
  <2>4. /\ new \in ReconcileCall /\ new.pc = "status" /\ new.intent = call.intent
        /\ new.after = call.after
    BY DEF ReconcileCall
  <2> HIDE DEF new
  <2>5. ReconcileShape(new)
    BY <1>1, <2>1, <2>2, <2>4 DEF ReconcileShape
  <2> QED
    BY <1>3, <1>4, <2>1, <2>3, <2>4, <2>5
<1>9. CASE WriteSumsStatus(c)
  <2>1. /\ call.pc = "status" /\ UNCHANGED provider /\ ReconcileReturns(c)
        /\ SetIntentStatus(call.intent, call.after.status)
    BY <1>1, <1>9 DEF WriteSumsStatus
  <2>2. call.intent \in Intents /\ call.after.status \in IntentStatuses
    BY <1>1, <2>1 DEF ReconcileShape
  <2> QED
    BY <1>4, <2>1, <2>2, IntentStatusSet DEF SetIntentStatus
<1>10. CASE AbortReconcile(c)
  BY <1>4, <1>5, <1>10 DEF AbortReconcile
<1> QED
  BY <1>0, <1>6, <1>7, <1>8, <1>9, <1>10 DEF ReconcileStep
-----------------------------------------------------------------------------
(***************************************************************************)
(* ReprocessProviderEvents                                                 *)
(***************************************************************************)

(* What a replay holds stays true whatever the others do.                  *)
LEMMA ReplayShapeStays ==
  ASSUME RowsInv, WebhookInv, Rising, EventsStay, NEW call \in ReprocessRun, ReplayShape(call)
  PROVE  ReplayShape(call)'
<1>1. /\ call.todo \in SUBSET Events /\ call.balance.paid \in Nat /\ call.balance.refunded \in Nat
  BY DEF ReprocessRun, StoredBalance
<1>2. \A e \in call.todo : inbox'[e].status # "absent"
  BY <1>1 DEF ReplayShape, EventsStay
<1>3. CASE call.pc \in {"idle", "next"}
  BY <1>2, <1>3 DEF ReplayShape, ReplayFound
<1>4. CASE call.pc \notin {"idle", "next"}
  <2>1. PICK e \in Events : e = call.ev /\ inbox[e].status # "absent"
    BY <1>4 DEF ReplayShape
  <2>2. PICK p \in Payments : p = inbox[e].tx /\ p \in Txs
    BY <2>1 DEF WebhookInv, EventShape, Txs
  <2>3. /\ inbox'[e].status # "absent" /\ inbox'[e].tx = p
        /\ inbox'[e].outcome = inbox[e].outcome /\ ReplayedStatus(e)' = ReplayedStatus(e)
    BY <2>1, <2>2 DEF EventsStay, ReplayedStatus
  <2>4. /\ TxExists(p) => TxExists(p)'
        /\ Shut(p) => Shut(p)'
        /\ Applied(p) => Applied(p)'
    BY <2>2, AppliedStays DEF Rising, Grows
  <2>5. TxExists(p) => /\ Before(call.balance, p) => Before(call.balance, p)'
                       /\ Room(call.balance, p) => Room(call.balance, p)'
    BY <1>1, <2>2, BalancesStay
  <2>6. call.pc \in {"mark", "totals", "status"} => TxExists(p)
    BY <2>1, <2>2 DEF ReplayShape, ReplayFound
  <2> QED
    BY <1>2, <2>1, <2>2, <2>3, <2>4, <2>5, <2>6 DEF ReplayShape
<1> QED
  BY <1>3, <1>4

(* A step that writes a well-shaped row for one replay, or none.           *)
LEMMA ReplayWritten ==
  ASSUME RowsInv, WebhookInv, Rising, EventsStay, ReplayInv,
         \/ UNCHANGED reprocess
         \/ \E b \in Reprocesses, new \in ReprocessRun :
              /\ reprocess' = [reprocess EXCEPT ![b] = new]
              /\ ReplayShape(new) \/ ReplayShape(new)'
  PROVE  ReplayInv'
<1>0. \A e \in Events : inbox'[e].status # "absent" => inbox'[e].outcome \in Outcomes
  BY DEF ReplayInv, EventsStay
<1>1. ASSUME reprocess' \in [Reprocesses -> ReprocessRun],
             \A b \in Reprocesses : \E call \in ReprocessRun :
                reprocess'[b] = call /\ (ReplayShape(call) \/ ReplayShape(call)')
      PROVE  ReplayInv'
  <2>1. ASSUME NEW b \in Reprocesses PROVE ReplayShape(reprocess[b])'
    <3>1. PICK call \in ReprocessRun :
            reprocess'[b] = call /\ (ReplayShape(call) \/ ReplayShape(call)')
      BY <1>1
    <3>2. ReplayShape(call)'
      BY <3>1, ReplayShapeStays
    <3> QED
      BY <3>1, <3>2 DEF ReplayShape
  <2> QED
    BY <1>0, <1>1, <2>1 DEF ReplayInv, ReprocessTypeOK
<1>2. /\ reprocess \in [Reprocesses -> ReprocessRun]
      /\ \A b \in Reprocesses : ReplayShape(reprocess[b])
  BY DEF ReplayInv, ReprocessTypeOK
<1>3. CASE UNCHANGED reprocess
  <2>1. \A b \in Reprocesses : reprocess'[b] = reprocess[b] /\ reprocess[b] \in ReprocessRun
    BY <1>2, <1>3
  <2> QED
    BY <1>1, <1>2, <1>3, <2>1
<1>4. ASSUME NEW b \in Reprocesses, NEW new \in ReprocessRun,
             reprocess' = [reprocess EXCEPT ![b] = new],
             ReplayShape(new) \/ ReplayShape(new)'
      PROVE  ReplayInv'
  <2>1. reprocess' \in [Reprocesses -> ReprocessRun]
    BY <1>2, <1>4
  <2>2. \A d \in Reprocesses : reprocess'[d] = IF d = b THEN new ELSE reprocess[d]
    BY <1>2, <1>4
  <2>3. \A d \in Reprocesses : \E call \in ReprocessRun :
           reprocess'[d] = call /\ (ReplayShape(call) \/ ReplayShape(call)')
    BY <1>2, <1>4, <2>2
  <2> QED
    BY <1>1, <2>1, <2>3
<1> QED
  BY <1>3, <1>4

(* What holds after a step of a replay.                                    *)
Replayed ==
    /\ Rising /\ WebhookInv' /\ ReportsInv' /\ AppliedInv' /\ ReplayInv'
    /\ CapturedCredits /\ UNCHANGED <<provider, outbox>>

(* A step of a replay that marks no event.                                 *)
LEMMA ReplayMoves ==
  ASSUME RowsInv, WebhookInv, ReportsInv, AppliedInv, ReplayInv, Rising, CapturedCredits,
         UNCHANGED <<provider, webhookVars, outbox>>,
         NEW b \in Reprocesses, NEW new \in ReprocessRun,
         reprocess' = [reprocess EXCEPT ![b] = new], ReplayShape(new) \/ ReplayShape(new)'
  PROVE  Replayed
<1>1. Grows /\ StaysClosed
  BY DEF Rising
<1>2. EventsStay
  BY DEF webhookVars, EventsStay
<1>3. WebhookInv' /\ AppliedInv'
  BY <1>1, WebhookStable, AppliedStable
<1>4. ReportsInv'
  BY ReportsStable DEF provider
<1>5. ReplayInv'
  BY <1>2, ReplayWritten
<1> QED
  BY <1>3, <1>4, <1>5 DEF Replayed

(* A step of a replay that is done with its event, and may mark it.        *)
LEMMA ReplayMarks ==
  ASSUME RowsInv, WebhookInv, ReportsInv, AppliedInv, ReplayInv,
         UNCHANGED <<tables, provider, hook, outbox>>, NEW b \in Reprocesses, NextEvent(b),
         reprocess[b].pc \in {"processed", "failed"},
         \/ UNCHANGED inbox
         \/ SetEventStatus(reprocess[b].ev, reprocess[b].pc)
  PROVE  Replayed
<1>1. PICK call \in ReprocessRun : call = reprocess[b] /\ ReplayShape(call)
  BY DEF ReplayInv, ReprocessTypeOK
<1>2. PICK e \in Events : e = call.ev /\ inbox[e].status # "absent"
  BY <1>1 DEF ReplayShape
<1>3. Rising /\ CapturedCredits /\ charge' = charge /\ Grows /\ StaysClosed
  BY RowsStutter DEF tables, provider, Rising, CapturedCredits
<1>4. /\ EventsStay
      /\ \A d \in Events : inbox'[d] = inbox[d] \/ (d = e /\ inbox'[d].status = call.pc)
  BY <1>1, <1>2, EventMarked DEF EventsStay
<1>5. WebhookInv' /\ ReportsInv'
  <2>1. CASE UNCHANGED inbox
    BY <1>3, <2>1, WebhookStable, ReportsStable DEF webhookVars
  <2>2. CASE SetEventStatus(e, call.pc)
    BY <1>1, <1>2, <1>3, <2>2, MarkedBeside
  <2> QED
    BY <1>1, <1>2, <2>1, <2>2
<1>6. AppliedInv'
  <2>1. PICK p \in Payments : p = inbox[e].tx
    BY <1>2 DEF WebhookInv, EventShape
  <2>2. call.pc = "processed" /\ Settling(inbox[e].outcome) => Applied(p)'
    BY <1>1, <1>2, <1>3, <2>1, AppliedStays DEF ReplayShape
  <2>3. inbox'[e].tx = p /\ inbox'[e].outcome = inbox[e].outcome
    BY <1>2, <1>4, <2>1 DEF EventsStay
  <2>4. \A d \in Events : inbox'[d].status = "processed" =>
           inbox[d].status = "processed" \/ AppliedEvent(d)'
    BY <1>4, <2>2, <2>3 DEF AppliedEvent
  <2> QED
    BY <1>3, <1>4, <2>4, AppliedWritten
<1>7. ReplayInv'
  <2> DEFINE new == IF call.todo = {} THEN ReprocessIdle
                    ELSE [ReprocessIdle EXCEPT !.pc = "next", !.todo = call.todo]
  <2>1. reprocess' = [reprocess EXCEPT ![b] = new]
    BY <1>1 DEF NextEvent
  <2>2. new \in ReprocessRun /\ new.pc \in {"idle", "next"} /\ new.todo = call.todo
    BY DEF ReprocessIdle, ReprocessRun, StoredBalance, NoStoredBalance
  <2> HIDE DEF new
  <2>3. ReplayShape(new)
    BY <1>1, <2>2 DEF ReplayShape, ReplayFound
  <2> QED
    BY <1>3, <1>4, <2>1, <2>2, <2>3, ReplayWritten
<1> QED
  BY <1>3, <1>5, <1>6, <1>7 DEF Replayed

(* Every step of a replay keeps the tables within the sums, credits what   *)
(* the event it replays was received for, and marks an event processed     *)
(* once that is applied.                                                   *)
LEMMA ReplayKeeps ==
  ASSUME RowsInv, WebhookInv, ReportsInv, AppliedInv, ReplayInv, ReprocessNext
  PROVE  Replayed
<1>0. PICK b \in Reprocesses :
        \/ ListStaleEvents(b) \/ ReplayEvent(b) \/ ReadIntentForReplay(b) \/ MarkReplayed(b)
        \/ WriteReplayedTotals(b) \/ WriteReplayedStatus(b) \/ CloseReplayed(b)
        \/ ReplayThrows(b) \/ MarkReplayProcessed(b) \/ MarkReplayFailed(b)
        \/ AbortReprocess(b)
  BY DEF ReprocessNext
<1>1. PICK call \in ReprocessRun :
        /\ call = reprocess[b] /\ ReplayShape(call)
        /\ call.balance.paid \in Nat /\ call.balance.refunded \in Nat
        /\ call.todo \in SUBSET Events
  BY DEF ReplayInv, ReprocessTypeOK, ReprocessRun, StoredBalance
<1>2. PICK e : e = call.ev
  OBVIOUS
<1>3. PICK p : p = inbox[e].tx
  OBVIOUS
<1>4. call.pc \notin {"idle", "next"} =>
        /\ e \in Events /\ inbox[e].status # "absent" /\ inbox[e].outcome \in Outcomes
        /\ p \in Payments /\ p \in Txs
  BY <1>1, <1>2, <1>3 DEF ReplayShape, ReplayInv, WebhookInv, EventShape, Txs
<1>5. call.pc \in ReplayFound =>
        /\ TxExists(p) /\ txs[p].intent \in Intents /\ txs[p].amount \in Nat
        /\ intents[txs[p].intent] \in IntentRow /\ ReplayTx(b) = p
  <2>1. call.pc \in ReplayFound => call.pc \notin {"idle", "next"} /\ TxExists(p)
    BY <1>1, <1>2, <1>3 DEF ReplayShape, ReplayFound
  <2> QED
    BY <1>1, <1>2, <1>3, <1>4, <2>1, TablesAssumption
       DEF RowsInv, RowsWellFormed, TablesTypeOK, ReplayTx
<1>6. UNCHANGED tables => Rising /\ CapturedCredits
  BY RowsStutter DEF tables, CapturedCredits
<1>7. UNCHANGED credited => CapturedCredits
  BY DEF CapturedCredits
<1>8. ASSUME NEW step \in {"mark", "totals", "status", "close", "processed", "failed"}
      PROVE  LET new == [call EXCEPT !.pc = step]
             IN  /\ new \in ReprocessRun /\ new.pc = step /\ new.todo = call.todo
                 /\ new.ev = e /\ new.seen = call.seen /\ new.balance = call.balance
                 /\ ReplayTo(b, step) => reprocess' = [reprocess EXCEPT ![b] = new]
  BY <1>1, <1>2 DEF ReprocessRun, ReplayTo
<1>9. CASE ListStaleEvents(b)
  <2>1. PICK batch \in SUBSET StaleEvents :
          reprocess' = [reprocess EXCEPT ![b] = [call EXCEPT !.pc = "next", !.todo = batch]]
    BY <1>1, <1>9 DEF ListStaleEvents
  <2> DEFINE new == [call EXCEPT !.pc = "next", !.todo = batch]
  <2>2. UNCHANGED <<tables, provider, webhookVars, outbox>>
    BY <1>9 DEF ListStaleEvents
  <2>3. batch \in SUBSET Events /\ \A d \in batch : inbox[d].status # "absent"
    BY <2>1 DEF StaleEvents
  <2>4. new \in ReprocessRun /\ new.pc = "next" /\ new.todo = batch
    BY <2>3 DEF ReprocessRun
  <2>5. reprocess' = [reprocess EXCEPT ![b] = new]
    BY <2>1
  <2> HIDE DEF new
  <2>6. ReplayShape(new)
    BY <2>3, <2>4 DEF ReplayShape, ReplayFound
  <2> QED
    BY <1>6, <2>2, <2>4, <2>5, <2>6, ReplayMoves
<1>10. CASE ReplayEvent(b)
  <2> DEFINE Found(d) == TxExists(inbox[d].tx) /\ txs[inbox[d].tx].routable
             Seen(d) == IF Found(d) THEN txs[inbox[d].tx].status ELSE "none"
             Step(d) == CASE ReplayedStatus(d) = "ignored" -> "processed"
                          [] ReplayedStatus(d) # "ignored" /\ ~Found(d) -> "failed"
                          [] ReplayedStatus(d) # "ignored" /\ Found(d) -> "intent"
  <2>1. PICK d \in call.todo :
          /\ call.pc = "next"
          /\ reprocess' = [reprocess EXCEPT ![b] =
               [call EXCEPT !.todo = call.todo \ {d}, !.ev = d, !.seen = Seen(d), !.pc = Step(d)]]
          /\ UNCHANGED <<tables, provider, webhookVars, outbox>>
    BY <1>1, <1>10 DEF ReplayEvent
  <2> DEFINE q == inbox[d].tx
             seen == Seen(d)
             step == Step(d)
             new == [call EXCEPT !.todo = call.todo \ {d}, !.ev = d, !.seen = seen, !.pc = step]
  <2>2. /\ d \in Events /\ inbox[d].status # "absent" /\ q \in Payments /\ q \in Txs
    BY <1>1, <2>1 DEF ReplayShape, WebhookInv, EventShape, Txs
  <2>3. seen \in TransactionStatuses \cup {"none"}
    BY <2>2 DEF RowsInv, TablesTypeOK, TxRow, TxExists
  <2>4. /\ step \in {"processed", "failed", "intent"}
        /\ step = "processed" => ReplayedStatus(d) = "ignored"
        /\ step = "intent" => TxExists(q) /\ seen = txs[q].status
    <3>1. CASE ReplayedStatus(d) = "ignored"
      BY <3>1
    <3>2. CASE ReplayedStatus(d) # "ignored" /\ ~Found(d)
      BY <3>2
    <3>3. CASE ReplayedStatus(d) # "ignored" /\ Found(d)
      BY <3>3
    <3> QED
      BY <3>1, <3>2, <3>3
  <2> HIDE DEF Seen, Step
  <2>5. reprocess' = [reprocess EXCEPT ![b] = new] /\ UNCHANGED <<tables, provider, webhookVars, outbox>>
    BY <2>1
  <2> HIDE DEF step, seen
  <2>6. /\ new \in ReprocessRun /\ new.pc = step /\ new.ev = d /\ new.seen = seen
        /\ new.todo = call.todo \ {d}
    BY <1>1, <2>2, <2>3, <2>4 DEF ReprocessRun
  <2> HIDE DEF new
  <2>7. step = "intent" /\ seen \in ReplayTerminal => Shut(q)
    BY <2>4 DEF Shut, ReplayTerminal, ConfirmableStatuses
  <2>8. step = "processed" => ~Settling(inbox[d].outcome)
    BY <2>4 DEF Settling, ReplayedStatus
  <2>9. ReplayShape(new)
    BY <1>1, <2>2, <2>4, <2>6, <2>7, <2>8 DEF ReplayShape, ReplayFound
  <2> QED
    BY <1>6, <2>5, <2>6, <2>9, ReplayMoves
<1>11. CASE ReadIntentForReplay(b)
  <2> DEFINE row == intents[txs[p].intent]
             status == ReplayedStatus(e)
             balance == [paid |-> row.paid, refunded |-> row.refunded,
                         remaining |-> row.remaining]
             mark == [call EXCEPT !.pc = "mark", !.balance = balance]
  <2>1. call.pc = "intent" /\ UNCHANGED <<tables, provider, webhookVars, outbox>>
    BY <1>1, <1>11 DEF ReadIntentForReplay
  <2>2. /\ call.pc \in ReplayFound /\ ReplayTx(b) = p /\ row \in IntentRow
        /\ txs[p].intent \in Intents /\ TxExists(p)
    BY <1>5, <2>1 DEF ReplayFound
  <2>3. \/ status = "succeeded" /\ reprocess' = [reprocess EXCEPT ![b] = mark]
        \/ ReplayTo(b, "failed")
        \/ status \in {"failed", "cancelled", "expired"} /\ ReplayTo(b, "close")
        \/ /\ \/ call.seen \in ReplayTerminal
              \/ status \notin {"succeeded", "failed", "cancelled", "expired"}
           /\ ReplayTo(b, "processed")
    BY <1>1, <1>2, <1>11, <2>2 DEF ReadIntentForReplay
  <2>4. CASE status = "succeeded" /\ reprocess' = [reprocess EXCEPT ![b] = mark]
    <3>1. balance \in StoredBalance
      BY <2>2 DEF StoredBalance, IntentRow
    <3>2. Before(balance, p)
      BY <2>2 DEF RowsInv, Before, Within
    <3> HIDE DEF balance
    <3>3. /\ mark \in ReprocessRun /\ mark.pc = "mark" /\ mark.ev = e
          /\ mark.todo = call.todo /\ mark.balance = balance
      BY <1>1, <1>2, <3>1 DEF ReprocessRun
    <3> HIDE DEF mark
    <3>4. ReplayShape(mark)
      BY <1>1, <1>3, <1>4, <2>1, <2>2, <2>4, <3>2, <3>3 DEF ReplayShape, ReplayFound
    <3> QED
      BY <1>6, <2>1, <2>4, <3>3, <3>4, ReplayMoves
  <2>5. ASSUME NEW step \in {"failed", "close", "processed"}, ReplayTo(b, step),
               step = "close" => status \in {"failed", "cancelled", "expired"},
               step = "processed" => \/ call.seen \in ReplayTerminal
                                     \/ status \notin {"succeeded", "failed", "cancelled", "expired"}
        PROVE  Replayed
    <3> DEFINE new == [call EXCEPT !.pc = step]
    <3>1. /\ new \in ReprocessRun /\ new.pc = step /\ new.todo = call.todo /\ new.ev = e
          /\ reprocess' = [reprocess EXCEPT ![b] = new]
      BY <1>8, <2>5
    <3> HIDE DEF new
    <3>2. step = "processed" /\ Settling(inbox[e].outcome) => Applied(p)
      <4>1. call.seen \in ReplayTerminal => Applied(p)
        BY <1>1, <1>2, <1>3, <2>1, <2>2 DEF ReplayShape, Applied
      <4>2. ASSUME status \notin {"succeeded", "failed", "cancelled", "expired"},
                   Settling(inbox[e].outcome)
            PROVE  Applied(p)
        <5>1. inbox[e].outcome \in {"succeeded", "failed", "cancelled", "expired"}
          BY <1>4, <2>1, <4>2 DEF Settling, Outcomes, FakeGatewayParsed, FakeGatewayWords,
             XenditParsed, XenditStatus
        <5> QED
          BY <2>2, <4>2, <5>1 DEF ReplayedStatus, Applied
      <4> QED
        BY <2>5, <4>1, <4>2
    <3>3. ReplayShape(new)
      BY <1>1, <1>3, <1>4, <2>1, <2>2, <2>5, <3>1, <3>2 DEF ReplayShape, ReplayFound
    <3> QED
      BY <1>6, <2>1, <3>1, <3>3, ReplayMoves
  <2> QED
    BY <2>3, <2>4, <2>5
<1>12. CASE MarkReplayed(b)
  <2>1. /\ call.pc = "mark" /\ UNCHANGED <<provider, webhookVars, outbox>>
        /\ \/ MarkSucceeded(ReplayTx(b)) /\ ReplayTo(b, "totals")
           \/ /\ txs[ReplayTx(b)].status \notin ConfirmableStatuses
              /\ ReplayTo(b, "processed") /\ UNCHANGED tables
    BY <1>1, <1>12 DEF MarkReplayed
  <2>2. /\ ReplayTx(b) = p /\ TxExists(p) /\ p \in Payments /\ p \in Txs
        /\ ReplayedStatus(e) = "succeeded" /\ Before(call.balance, p)
    BY <1>1, <1>2, <1>3, <1>4, <1>5, <2>1 DEF ReplayShape, ReplayFound
  <2>3. ASSUME MarkSucceeded(p), ReplayTo(b, "totals")
        PROVE  Replayed
    <3> DEFINE new == [call EXCEPT !.pc = "totals"]
    <3>1. /\ new \in ReprocessRun /\ new.pc = "totals" /\ new.todo = call.todo /\ new.ev = e
          /\ new.balance = call.balance /\ reprocess' = [reprocess EXCEPT ![b] = new]
      BY <1>8, <2>3
    <3> HIDE DEF new
    <3>2. Rising /\ Room(call.balance, p)'
      BY <1>1, <2>2, <2>3, MarkedMakesRoom
    <3>3. /\ inbox' = inbox /\ TxExists(p)' /\ txs'[p].status = "succeeded"
      BY <2>1, <2>2, <2>3, <3>2 DEF webhookVars, Rising, Grows, MarkSucceeded, RowsInv, TablesTypeOK, TxRow
    <3>4. Applied(p)'
      BY <3>3 DEF Applied, Shut, ConfirmableStatuses
    <3>5. ReplayShape(new)'
      BY <1>1, <1>2, <1>3, <1>4, <2>1, <3>1, <3>2, <3>3, <3>4 DEF ReplayShape, ReplayFound
    <3>6. CapturedCredits
      <4>1. inbox[e].outcome = "succeeded"
        BY <2>2 DEF ReplayedStatus
      <4>2. charge[p] = "succeeded"
        BY <1>3, <1>4, <2>1, <4>1 DEF ReportsInv, CapturedEvent
      <4> QED
        BY <2>3, <4>2 DEF MarkSucceeded, CapturedCredits
    <3> QED
      BY <2>1, <3>1, <3>2, <3>5, <3>6, ReplayMoves
  <2>4. ASSUME txs[p].status \notin ConfirmableStatuses, ReplayTo(b, "processed"), UNCHANGED tables
        PROVE  Replayed
    <3> DEFINE new == [call EXCEPT !.pc = "processed"]
    <3>1. /\ new \in ReprocessRun /\ new.pc = "processed" /\ new.todo = call.todo /\ new.ev = e
          /\ reprocess' = [reprocess EXCEPT ![b] = new]
      BY <1>8, <2>4
    <3> HIDE DEF new
    <3>2. Applied(p)
      BY <2>2, <2>4 DEF Applied, Shut
    <3>3. ReplayShape(new)
      BY <1>1, <1>3, <1>4, <2>1, <3>1, <3>2 DEF ReplayShape, ReplayFound
    <3> QED
      BY <1>6, <2>1, <2>4, <3>1, <3>3, ReplayMoves
  <2> QED
    BY <2>1, <2>2, <2>3, <2>4
<1>13. CASE WriteReplayedTotals(b)
  <2> DEFINE due == intents[txs[p].intent].due
             paid == call.balance.paid + txs[p].amount
             remaining == IF paid >= due THEN 0 ELSE due - paid
             new == [call EXCEPT !.pc = "status"]
  <2>1. call.pc = "totals" /\ ReplayTo(b, "status") /\ UNCHANGED <<provider, webhookVars, outbox>>
    BY <1>1, <1>13 DEF WriteReplayedTotals
  <2>2. /\ ReplayTx(b) = p /\ TxExists(p) /\ p \in Txs /\ txs[p].amount \in Nat /\ due \in Nat
    BY <1>4, <1>5, <2>1 DEF ReplayFound, IntentRow
  <2>3. SetIntentTotals(txs[p].intent, paid, call.balance.refunded, remaining)
    BY <1>1, <1>13, <2>2 DEF WriteReplayedTotals
  <2>4. Room(call.balance, p) /\ remaining \in Nat
    <3>1. remaining \in Nat
      BY <1>1, <2>2
    <3>2. Room(call.balance, p)
      BY <1>1, <1>2, <1>3, <2>1 DEF ReplayShape
    <3> QED
      BY <3>1, <3>2
  <2>5. Rising /\ CapturedCredits
    <3> HIDE DEF remaining
    <3> QED
      BY <1>1, <1>7, <2>2, <2>3, <2>4, RoomToWrite DEF SetIntentTotals
  <2>6. /\ new \in ReprocessRun /\ new.pc = "status" /\ new.todo = call.todo /\ new.ev = e
        /\ new.balance = call.balance /\ reprocess' = [reprocess EXCEPT ![b] = new]
    BY <1>8, <2>1
  <2> HIDE DEF new
  <2>7. ReplayShape(new)
    BY <1>1, <1>2, <1>3, <1>4, <2>1, <2>2, <2>4, <2>6 DEF ReplayShape, ReplayFound
  <2> QED
    BY <2>1, <2>5, <2>6, <2>7, ReplayMoves
<1>14. CASE WriteReplayedStatus(b)
  <2> DEFINE status == ComputeIntentStatus(intents[txs[p].intent].due,
                                           call.balance.paid + txs[p].amount)
             new == [call EXCEPT !.pc = "processed"]
  <2>1. call.pc = "status" /\ ReplayTo(b, "processed") /\ UNCHANGED <<provider, webhookVars, outbox>>
    BY <1>1, <1>14 DEF WriteReplayedStatus
  <2>2. /\ ReplayTx(b) = p /\ txs[p].intent \in Intents /\ status \in IntentStatuses
    BY <1>1, <1>5, <2>1, StatusIsComputed DEF ReplayFound, IntentRow
  <2>3. SetIntentStatus(txs[p].intent, status)
    BY <1>1, <1>14, <2>2 DEF WriteReplayedStatus
  <2> HIDE DEF status
  <2>4. Rising /\ CapturedCredits
    BY <1>7, <2>2, <2>3, IntentStatusSet DEF SetIntentStatus
  <2>5. /\ new \in ReprocessRun /\ new.pc = "processed" /\ new.todo = call.todo /\ new.ev = e
        /\ reprocess' = [reprocess EXCEPT ![b] = new]
    BY <1>8, <2>1
  <2> HIDE DEF new
  <2>6. ReplayShape(new)
    BY <1>1, <1>2, <1>4, <2>1, <2>5 DEF ReplayShape, ReplayFound
  <2> QED
    BY <2>1, <2>4, <2>5, <2>6, ReplayMoves
<1>15. CASE CloseReplayed(b)
  <2> DEFINE new == [call EXCEPT !.pc = "processed"]
  <2>1. /\ call.pc = "close" /\ ReplayTo(b, "processed")
        /\ UNCHANGED <<provider, webhookVars, outbox>>
    BY <1>1, <1>15 DEF CloseReplayed
  <2>2. /\ ReplayTx(b) = p /\ p \in Payments /\ p \in Txs /\ TxExists(p)
        /\ ReplayedStatus(e) \in {"failed", "cancelled", "expired"}
    BY <1>1, <1>2, <1>4, <1>5, <2>1 DEF ReplayShape, ReplayFound
  <2>3. SetTxStatus(p, ReplayedStatus(e))
    BY <1>1, <1>2, <1>15, <2>2 DEF CloseReplayed
  <2>4. Rising /\ CapturedCredits
    BY <1>7, <2>2, <2>3, RowClosed DEF SetTxStatus
  <2>5. inbox' = inbox /\ TxExists(p)' /\ txs'[p].status = ReplayedStatus(e)
    BY <2>1, <2>2, <2>3, <2>4 DEF webhookVars, Rising, Grows, SetTxStatus, RowsInv, TablesTypeOK, TxRow
  <2>6. Applied(p)'
    BY <2>2, <2>5 DEF Applied, Shut, ConfirmableStatuses
  <2>7. /\ new \in ReprocessRun /\ new.pc = "processed" /\ new.todo = call.todo /\ new.ev = e
        /\ reprocess' = [reprocess EXCEPT ![b] = new]
    BY <1>8, <2>1
  <2> HIDE DEF new
  <2>8. ReplayShape(new)'
    BY <1>1, <1>2, <1>3, <1>4, <2>1, <2>5, <2>6, <2>7 DEF ReplayShape, ReplayFound
  <2> QED
    BY <2>1, <2>4, <2>7, <2>8, ReplayMoves
<1>16. CASE ReplayThrows(b)
  <2> DEFINE new == [call EXCEPT !.pc = "failed"]
  <2>1. /\ call.pc \notin {"idle", "next"} /\ ReplayTo(b, "failed")
        /\ UNCHANGED <<tables, provider, webhookVars, outbox>>
    BY <1>1, <1>16 DEF ReplayThrows
  <2>2. /\ new \in ReprocessRun /\ new.pc = "failed" /\ new.todo = call.todo /\ new.ev = e
        /\ reprocess' = [reprocess EXCEPT ![b] = new]
    BY <1>8, <2>1
  <2> HIDE DEF new
  <2>3. ReplayShape(new)
    BY <1>1, <1>4, <2>1, <2>2 DEF ReplayShape, ReplayFound
  <2> QED
    BY <1>6, <2>1, <2>2, <2>3, ReplayMoves
<1>17. CASE MarkReplayProcessed(b) \/ MarkReplayFailed(b)
  BY <1>17, ReplayMarks DEF MarkReplayProcessed, MarkReplayFailed
<1>18. CASE AbortReprocess(b)
  <2>1. ReprocessIdle \in ReprocessRun /\ ReplayShape(ReprocessIdle)
    BY DEF ReprocessIdle, ReprocessRun, StoredBalance, NoStoredBalance, ReplayShape, ReplayFound
  <2>2. /\ reprocess' = [reprocess EXCEPT ![b] = ReprocessIdle]
        /\ UNCHANGED <<tables, provider, webhookVars, outbox>>
    BY <1>18 DEF AbortReprocess
  <2> HIDE DEF ReprocessIdle
  <2> QED
    BY <1>6, <2>1, <2>2, ReplayMoves
<1> QED
  BY <1>0, <1>9, <1>10, <1>11, <1>12, <1>13, <1>14, <1>15, <1>16, <1>17, <1>18
-----------------------------------------------------------------------------
(***************************************************************************)
(* The repairs together                                                    *)
(***************************************************************************)

(* No row is stored, no call has begun.                                    *)
LEMMA MaintenanceStart == MaintenanceInit => MaintenanceInv
<1> SUFFICES ASSUME MaintenanceInit PROVE MaintenanceInv
  OBVIOUS
<1> USE DEF MaintenanceInit
<1>1. RowsInv
  <2>1. TablesInv
    BY TablesStart
  <2>2. \A i \in Intents : PaidOf(i) = 0 /\ BackOf(i) = 0
    <3>1. \A i \in Intents : CreditedOf(Payments, i) = {} /\ CreditedOf(Refunds, i) = {}
      BY DEF TablesInit, CreditedOf
    <3> QED
      BY <3>1, SumEmpty DEF PaidOf, BackOf, Total
  <2> QED
    BY <2>1, <2>2 DEF TablesInv, RowsInv, TablesInit, Within
<1>2. ProviderTypeOK /\ OutboxTypeOK
  BY OutboxStart DEF ProviderInit, ProviderTypeOK, ChargeStatuses
<1>3. WebhookInv /\ ReportsInv /\ AppliedInv
  BY WebhookStart, ReportsStart, AppliedStart
<1>4. RefreshInv
  BY DEF RefreshInit, RefreshIdle, RefreshInv, RefreshTypeOK, RefreshCall, RefreshShape,
     NoBalance, Balance, ChargeStatuses
<1>5. ReconcileInv
  BY DEF ReconcileInit, ReconcileIdle, ReconcileInv, ReconcileTypeOK, ReconcileCall,
     ReconcileShape, NoSums, Sums
<1>6. ReplayInv
  BY DEF ReprocessInit, ReprocessIdle, ReplayInv, ReprocessTypeOK, ReprocessRun, ReplayShape,
     ReplayFound, StoredBalance, NoStoredBalance, WebhookInit
<1> QED
  BY <1>1, <1>2, <1>3, <1>4, <1>5, <1>6 DEF MaintenanceInv

(* A step that leaves one of the repairs alone leaves what it holds true.  *)
LEMMA Undisturbed ==
  ASSUME RowsInv, Rising, WebhookInv
  PROVE  /\ RefreshInv /\ CapturedStays /\ UNCHANGED refresh => RefreshInv'
         /\ ReconcileInv /\ UNCHANGED reconcile => ReconcileInv'
         /\ ReplayInv /\ EventsStay /\ UNCHANGED reprocess => ReplayInv'
  BY RefreshStable, ReconcileWritten, ReplayWritten

(* Every step keeps the invariant, and credits only what was captured.     *)
LEMMA MaintenanceStep ==
  ASSUME MaintenanceInv, [MaintenanceNext]_mvars
  PROVE  MaintenanceInv' /\ Rising /\ CapturedCredits
<1> USE DEF MaintenanceInv
<1>1. UNCHANGED provider => ProviderTypeOK' /\ CapturedStays
  BY DEF provider, ProviderTypeOK, CapturedStays
<1>2. UNCHANGED outbox => OutboxTypeOK'
  BY DEF OutboxTypeOK
<1>3. UNCHANGED webhookVars => EventsStay
  BY DEF webhookVars, EventsStay
<1>4. ASSUME Rising, CapturedStays, UNCHANGED webhookVars
      PROVE  WebhookInv' /\ ReportsInv' /\ AppliedInv'
  <2>1. Grows /\ StaysClosed
    BY <1>4 DEF Rising
  <2> QED
    BY <1>4, <2>1, WebhookStable, ReportsStable, AppliedStable DEF CapturedStays
<1>5. CASE UNCHANGED mvars
  <2>1. /\ UNCHANGED tables /\ UNCHANGED provider /\ UNCHANGED outbox /\ UNCHANGED webhookVars
        /\ UNCHANGED refresh /\ UNCHANGED reconcile /\ UNCHANGED reprocess
    BY <1>5 DEF mvars
  <2>2. Rising /\ CapturedCredits
    BY <2>1, RowsStutter DEF tables, CapturedCredits
  <2> QED
    BY <1>1, <1>2, <1>3, <1>4, <2>1, <2>2, Undisturbed DEF Rising
<1>6. CASE Business /\ UNCHANGED <<outbox, webhookVars, refresh, reconcile, reprocess>>
  <2>1. Rising /\ ProviderTypeOK' /\ CapturedStays /\ CapturedCredits
    BY <1>6, BusinessKeeps
  <2> QED
    BY <1>2, <1>3, <1>4, <1>6, <2>1, Undisturbed DEF Rising
<1>7. CASE WebhookNext /\ UNCHANGED <<refresh, reconcile, reprocess>>
  <2>1. /\ Rising /\ ProviderTypeOK' /\ CapturedStays /\ CapturedCredits
        /\ OutboxTypeOK' /\ WebhookInv' /\ ReportsInv'
    BY <1>7, HooksRaise
  <2>2. AppliedInv' /\ EventsStay
    BY <1>7, <2>1, AppliedNext, EventsKept DEF Rising, RowsInv
  <2> QED
    BY <1>7, <2>1, <2>2, Undisturbed DEF Rising
<1>8. CASE RefreshNext /\ UNCHANGED <<outbox, webhookVars, reconcile, reprocess>>
  <2>1. Rising /\ RefreshInv' /\ UNCHANGED provider /\ CapturedCredits
    BY <1>8, RefreshKeeps
  <2> QED
    BY <1>1, <1>2, <1>3, <1>4, <1>8, <2>1, Undisturbed DEF Rising
<1>9. CASE ReprocessNext /\ UNCHANGED <<refresh, reconcile>>
  <2>1. Replayed
    BY <1>9, ReplayKeeps
  <2>2. /\ UNCHANGED provider /\ UNCHANGED outbox /\ Rising /\ WebhookInv' /\ ReportsInv'
        /\ AppliedInv' /\ ReplayInv' /\ CapturedCredits
    BY <2>1 DEF Replayed
  <2> QED
    BY <1>1, <1>2, <1>9, <2>2, Undisturbed DEF Rising
<1>10. ASSUME NEW i \in Intents, ReconcileStepOf(i)
       PROVE  MaintenanceInv' /\ Rising /\ CapturedCredits
  <2>1. Rising /\ ReconcileInv' /\ UNCHANGED provider /\ credited' = credited
    BY <1>10, ReconcileKeeps
  <2>2. /\ UNCHANGED outbox /\ UNCHANGED webhookVars /\ UNCHANGED refresh /\ UNCHANGED reprocess
    BY <1>10 DEF ReconcileStepOf
  <2>3. CapturedCredits
    BY <2>1 DEF CapturedCredits
  <2> QED
    BY <1>1, <1>2, <1>3, <1>4, <2>1, <2>2, <2>3, Undisturbed DEF Rising
<1> QED
  BY <1>5, <1>6, <1>7, <1>8, <1>9, <1>10 DEF MaintenanceNext, Calls

(* However the repairs interleave with each other, with the webhooks and   *)
(* with the business, the invariant holds.                                 *)
THEOREM MaintenanceInvariant == MaintenanceSpec => []MaintenanceInv
<1>1. MaintenanceInit => MaintenanceInv
  BY MaintenanceStart
<1>2. MaintenanceInv /\ [MaintenanceNext]_mvars => MaintenanceInv'
  BY MaintenanceStep
<1> QED
  BY <1>1, <1>2, PTL DEF MaintenanceSpec

(* RefreshProviderStatus, ReprocessProviderEvents,                         *)
(* ReconcilePaymentIntentTotals and HandleProviderWebhook keep their rows, *)
(* and what they remember between two statements, well-formed.             *)
THEOREM MaintenanceTypes == MaintenanceSpec => []MaintenanceTypeOK
<1>1. MaintenanceInv => MaintenanceTypeOK
  BY DEF MaintenanceInv, MaintenanceTypeOK, RowsInv, WebhookInv, RefreshInv, ReconcileInv,
     ReplayInv
<1> QED
  BY <1>1, MaintenanceInvariant, PTL

(* The repairs write totals they have computed from balances read earlier, *)
(* in statements no transaction joins, and may undo each other's credits;  *)
(* but they never count a payment or a refund twice.                       *)
THEOREM CountedOnce == MaintenanceSpec => []NothingCountedTwice
<1>1. MaintenanceInv => NothingCountedTwice
  BY DEF MaintenanceInv, RowsInv, Within, PaidOf, BackOf, CreditedOf, NothingCountedTwice
<1> QED
  BY <1>1, MaintenanceInvariant, PTL

(* A poll, a stored event or a webhook makes a payment succeeded only if   *)
(* the provider has captured its charge, and only a payment that was open. *)
THEOREM CreditsAreCaptured == MaintenanceSpec => RepairsCreditOnlyCaptured
<1>1. MaintenanceInv /\ [MaintenanceNext]_mvars =>
        [\A p \in Payments : p \in credited' \ credited =>
           charge[p] = "succeeded" /\ txs[p].status \in ConfirmableStatuses]_mvars
  BY MaintenanceStep DEF Rising, CapturedCredits
<1> QED
  BY <1>1, MaintenanceInvariant, PTL DEF MaintenanceSpec, RepairsCreditOnlyCaptured

(* The replay worker claims no event and races the webhooks for those it   *)
(* lists; still, with fake_gateway's events, which have ids of their own   *)
(* and the service's words, one that says how a charge settled is          *)
(* processed only once its transaction is closed.                          *)
THEOREM ProcessedIsApplied == ~InvoiceScopedIds /\ MaintenanceSpec => []ReplayedEventIsApplied
<1> SUFFICES ASSUME ~InvoiceScopedIds
             PROVE  MaintenanceSpec => []ReplayedEventIsApplied
  OBVIOUS
<1>1. MaintenanceInv => ReplayedEventIsApplied
  BY DEF MaintenanceInv, AppliedInv, AppliedEvent, Applied, Shut, Settling, TxExists,
     ReplayedEventIsApplied
<1> QED
  BY <1>1, MaintenanceInvariant, PTL
-----------------------------------------------------------------------------
(***************************************************************************)
(* Reconciliation repairs.                                                 *)
(***************************************************************************)

(* UpToDate and Agrees, as relations of an intent's row to its sums.       *)
Right(row, sums) ==
    row.paid = sums.paid /\ row.refunded = sums.refunded /\ row.remaining = sums.remaining

Fresh(call, row, sums) ==
    /\ call.before.status = sums.status => row.status = sums.status
    /\ call.pc = "rows" /\ Right(call.before, sums) => Right(row, sums)
    /\ call.pc \in {"totals", "status"} => call.after = sums
    /\ call.pc = "status" => Right(row, sums)

AgreesWith(row, sums) ==
    row.status # "absent" =>
      /\ row.paid = sums.paid /\ row.refunded = sums.refunded
      /\ row.paid <= row.due => row.paid + row.remaining = row.due
      /\ row.status = ComputeIntentStatus(row.due, row.paid)

LEMMA RelationsAre ==
  ASSUME NEW i \in Intents
  PROVE  /\ \A call : UpToDate(call, i) <=> Fresh(call, intents[i], SumsOfRows(i))
         /\ Agrees(i) <=> AgreesWith(intents[i], SumsOfRows(i))
<1>1. \A call : UpToDate(call, i) <=> Fresh(call, intents[i], SumsOfRows(i))
  BY DEF UpToDate, Fresh, Right
<1>2. /\ SumsOfRows(i).paid = SucceededSum(Payments, i)
      /\ SumsOfRows(i).refunded = SucceededSum(Refunds, i)
  BY DEF SumsOfRows
<1>3. Agrees(i) <=> AgreesWith(intents[i], SumsOfRows(i))
  BY <1>2 DEF Agrees, AgreesWith, SucceededSum
<1> QED
  BY <1>1, <1>3

LEMMA RelationsAreNext ==
  ASSUME NEW i \in Intents
  PROVE  /\ \A c : UpToDate(reconcile[c], i)' <=> Fresh(reconcile'[c], intents'[i], SumsOfRows(i)')
         /\ Agrees(i)' <=> AgreesWith(intents'[i], SumsOfRows(i)')
<1>1. \A c : UpToDate(reconcile[c], i)' <=> Fresh(reconcile'[c], intents'[i], SumsOfRows(i)')
  BY DEF UpToDate, Fresh, Right
<1>2. /\ SumsOfRows(i)'.paid = SucceededSum(Payments, i)'
      /\ SumsOfRows(i)'.refunded = SucceededSum(Refunds, i)'
  BY DEF SumsOfRows
<1>3. Agrees(i)' <=> AgreesWith(intents'[i], SumsOfRows(i)')
  BY <1>2 DEF Agrees, AgreesWith, SucceededSum
<1> QED
  BY <1>1, <1>3

(* A row whose totals and status are the sums' agrees with them.           *)
LEMMA RightAgrees ==
  ASSUME RowsInv, NEW i \in Intents, NEW row,
         row.due = intents[i].due, Right(row, SumsOfRows(i)), row.status = SumsOfRows(i).status
  PROVE  AgreesWith(row, SumsOfRows(i))
<1> DEFINE due == intents[i].due
           paid == SucceededSum(Payments, i)
<1>1. due \in Nat /\ paid \in Nat
  BY SucceededSumIs DEF RowsInv, TablesTypeOK, IntentRow
<1>2. /\ SumsOfRows(i).paid = paid
      /\ SumsOfRows(i).remaining = IF paid >= due THEN 0 ELSE due - paid
      /\ SumsOfRows(i).status = ComputeIntentStatus(due, paid)
  BY DEF SumsOfRows
<1> HIDE DEF paid
<1>3. row.paid = paid /\ row.remaining = IF paid >= due THEN 0 ELSE due - paid
  BY <1>2 DEF Right
<1>4. paid <= due => paid + row.remaining = due
  BY <1>1, <1>3
<1> QED
  BY <1>2, <1>3, <1>4 DEF AgreesWith, Right

(* A reconciliation changes neither the rows nor what is due.              *)
LEMMA SumsStay ==
  ASSUME RowsInv, NEW i \in Intents, UNCHANGED txs, intents'[i].due = intents[i].due
  PROVE  SumsOfRows(i)' = SumsOfRows(i)
<1>1. /\ SucceededSum(Payments, i)' = SucceededSum(Payments, i)
      /\ SucceededSum(Refunds, i)' = SucceededSum(Refunds, i)
  BY DEF SucceededSum, Total
<1> QED
  BY <1>1 DEF SumsOfRows

(* One reconciliation goes on and leaves its intent as row: what it has    *)
(* written is right, and right for everyone.                               *)
LEMMA OneReconciles ==
  ASSUME RowsInv, ReconcileInv, NEW i \in Intents, AllUpToDate(i), UNCHANGED txs,
         NEW c \in Reconciles, NEW new, reconcile' = [reconcile EXCEPT ![c] = new],
         NEW row, intents' = [intents EXCEPT ![i] = row], row.due = intents[i].due,
         \/ Right(row, SumsOfRows(i))
         \/ /\ row.paid = intents[i].paid /\ row.refunded = intents[i].refunded
            /\ row.remaining = intents[i].remaining,
         \/ row.status = intents[i].status
         \/ row.status = SumsOfRows(i).status /\ Right(row, SumsOfRows(i)),
         new.intent = i => Fresh(new, row, SumsOfRows(i))
  PROVE  /\ AllUpToDate(i)'
         /\ Agrees(i) => Agrees(i)'
         /\ row.status = SumsOfRows(i).status /\ Right(row, SumsOfRows(i)) => Agrees(i)'
<1> DEFINE sums == SumsOfRows(i)
<1>1. intents'[i] = row
  BY DEF RowsInv, TablesTypeOK
<1>2. SumsOfRows(i)' = sums
  BY <1>1, SumsStay
<1> HIDE DEF sums
<1>3. reconcile'[c] = new /\ \A x \in Reconciles : x # c => reconcile'[x] = reconcile[x]
  BY DEF ReconcileInv, ReconcileTypeOK
<1>4. AllUpToDate(i)'
  <2> SUFFICES ASSUME NEW x \in Reconciles, reconcile'[x].intent = i
               PROVE  Fresh(reconcile'[x], row, sums)
    BY <1>1, <1>2, RelationsAreNext DEF AllUpToDate
  <2>1. CASE x = c
    BY <1>3, <2>1 DEF sums
  <2>2. CASE x # c
    <3>1. reconcile'[x] = reconcile[x]
      BY <1>3, <2>2
    <3>2. Fresh(reconcile[x], intents[i], sums)
      BY <3>1, RelationsAre DEF AllUpToDate, sums
    <3>3. Right(intents[i], sums) => Right(row, sums)
      BY DEF Right, sums
    <3>4. intents[i].status = sums.status => row.status = sums.status
      BY DEF sums
    <3> QED
      BY <3>1, <3>2, <3>3, <3>4 DEF Fresh
  <2> QED
    BY <2>1, <2>2
<1>5. row.status = sums.status /\ Right(row, sums) => Agrees(i)'
  BY <1>1, <1>2, RightAgrees, RelationsAreNext DEF sums
<1>6. ASSUME Agrees(i), row.status = intents[i].status PROVE Agrees(i)'
  <2>1. AgreesWith(intents[i], sums)
    BY <1>6, RelationsAre DEF sums
  <2>2. CASE row.status = "absent"
    BY <1>1, <1>2, <2>2, RelationsAreNext DEF AgreesWith
  <2>3. CASE row.status # "absent" /\ Right(row, sums)
    <3>1. intents[i].paid = sums.paid /\ intents[i].status = ComputeIntentStatus(row.due, sums.paid)
      BY <1>6, <2>1, <2>3 DEF AgreesWith
    <3>2. sums.status = ComputeIntentStatus(row.due, sums.paid)
      BY DEF sums, SumsOfRows
    <3> QED
      BY <1>5, <1>6, <2>3, <3>1, <3>2
  <2>4. CASE /\ row.paid = intents[i].paid /\ row.refunded = intents[i].refunded
             /\ row.remaining = intents[i].remaining
    <3>1. AgreesWith(row, sums)
      BY <1>6, <2>1, <2>4 DEF AgreesWith
    <3> QED
      BY <1>1, <1>2, <3>1, RelationsAreNext
  <2> QED
    BY <2>2, <2>3, <2>4 DEF sums
<1> QED
  BY <1>4, <1>5, <1>6 DEF sums

(* The same, when the step leaves the intents alone.                       *)
LEMMA OneReadsOn ==
  ASSUME RowsInv, ReconcileInv, NEW i \in Intents, AllUpToDate(i), UNCHANGED <<intents, txs>>,
         NEW c \in Reconciles, NEW new, reconcile' = [reconcile EXCEPT ![c] = new],
         new.intent = i => Fresh(new, intents[i], SumsOfRows(i))
  PROVE  /\ AllUpToDate(i)'
         /\ Agrees(i) => Agrees(i)'
         /\ intents[i].status = SumsOfRows(i).status /\ Right(intents[i], SumsOfRows(i))
              => Agrees(i)'
<1> DEFINE sums == SumsOfRows(i)
<1> PICK row : row = intents[i]
  OBVIOUS
<1>1. intents' = [intents EXCEPT ![i] = row]
  BY DEF RowsInv, TablesTypeOK
<1>2. UNCHANGED txs /\ row.due = intents[i].due
  OBVIOUS
<1>3. new.intent = i => Fresh(new, row, sums)
  OBVIOUS
<1> HIDE DEF sums
<1>4. /\ AllUpToDate(i)'
      /\ Agrees(i) => Agrees(i)'
      /\ row.status = sums.status /\ Right(row, sums) => Agrees(i)'
  BY <1>1, <1>2, <1>3, OneReconciles DEF sums
<1> QED
  BY <1>4 DEF sums

(* A step of a reconciliation of i, none of which has read what is out of  *)
(* date: they stay so, and the one that ends leaves i agreeing.            *)
LEMMA ReconcileSettles ==
  ASSUME RowsInv, ReconcileInv, NEW i \in Intents, AllUpToDate(i),
         NEW c \in Reconciles, reconcile[c].intent = i, ReconcileStep(c)
  PROVE  /\ AllUpToDate(i)' /\ (Agrees(i) => Agrees(i)')
         /\ reconcile'[c].intent = None => Agrees(i)'
<1> DEFINE sums == SumsOfRows(i)
           row == intents[i]
<1>1. PICK call \in ReconcileCall : call = reconcile[c] /\ call.intent = i
  BY DEF ReconcileInv, ReconcileTypeOK
<1>2. Fresh(call, row, sums)
  BY <1>1, RelationsAre DEF AllUpToDate
<1>3. /\ None # i /\ ReconcileIdle.intent = None
      /\ reconcile \in [Reconciles -> ReconcileCall] /\ row \in IntentRow
      /\ intents \in [Intents -> IntentRow]
  BY TablesAssumption DEF ReconcileIdle, ReconcileInv, ReconcileTypeOK, RowsInv, TablesTypeOK
<1>4. CASE SumRows(c)
  <2>1. call.pc = "rows" /\ UNCHANGED <<intents, txs>>
    BY <1>1, <1>4 DEF SumRows, tables
  <2>2. CASE sums = call.before
    <3>1. reconcile' = [reconcile EXCEPT ![c] = ReconcileIdle]
      BY <1>1, <1>4, <2>2 DEF SumRows, ReconcileReturns
    <3>2. row.status = sums.status /\ Right(row, sums)
      BY <1>2, <2>1, <2>2 DEF Fresh, Right
    <3>3. ReconcileIdle.intent # i
      BY <1>3
    <3> HIDE DEF sums, ReconcileIdle
    <3> QED
      BY <2>1, <3>1, <3>2, <3>3, OneReadsOn DEF sums
  <2>3. CASE sums # call.before
    <3> DEFINE new == [call EXCEPT !.pc = "totals", !.after = sums]
    <3>1. reconcile' = [reconcile EXCEPT ![c] = new]
      BY <1>1, <1>4, <2>3 DEF SumRows
    <3> HIDE DEF sums
    <3>2. new.pc = "totals" /\ new.after = sums /\ new.intent = i /\ new.before = call.before
      BY <1>1 DEF ReconcileCall
    <3> HIDE DEF new
    <3>3. Fresh(new, row, sums)
      BY <1>2, <3>2 DEF Fresh
    <3>4. reconcile'[c].intent # None
      BY <1>3, <3>1, <3>2
    <3> QED
      BY <2>1, <3>1, <3>3, <3>4, OneReadsOn DEF sums
  <2> QED
    BY <2>2, <2>3
<1>5. CASE WriteSums(c)
  <2> DEFINE written == [row EXCEPT !.paid = sums.paid, !.refunded = sums.refunded,
                                    !.remaining = sums.remaining]
  <2>1. call.pc = "totals" /\ call.after = sums
    BY <1>1, <1>2, <1>5 DEF WriteSums, Fresh
  <2>2. intents' = [intents EXCEPT ![i] = written] /\ UNCHANGED txs
    BY <1>1, <1>5, <2>1 DEF WriteSums, SetIntentTotals
  <2>3. written.due = row.due /\ written.status = row.status /\ Right(written, sums)
    <3> HIDE DEF sums
    <3> QED
      BY <1>3 DEF IntentRow, Right
  <2>4. CASE sums.status # call.before.status
    <3> DEFINE new == [call EXCEPT !.pc = "status"]
    <3>1. reconcile' = [reconcile EXCEPT ![c] = new]
      BY <1>1, <1>5, <2>1, <2>4 DEF WriteSums
    <3>2. new.pc = "status" /\ new.after = sums /\ new.intent = i /\ new.before = call.before
      BY <1>1, <2>1 DEF ReconcileCall
    <3> HIDE DEF new, written, sums
    <3>3. Fresh(new, written, sums)
      BY <1>2, <2>3, <3>2 DEF Fresh
    <3>4. reconcile'[c].intent # None
      BY <1>3, <3>1, <3>2
    <3> QED
      BY <2>2, <2>3, <3>1, <3>3, <3>4, OneReconciles DEF sums
  <2>5. CASE sums.status = call.before.status
    <3>1. reconcile' = [reconcile EXCEPT ![c] = ReconcileIdle]
      BY <1>1, <1>5, <2>1, <2>5 DEF WriteSums, ReconcileReturns
    <3> HIDE DEF sums, written, ReconcileIdle
    <3>2. written.status = sums.status
      BY <1>2, <2>3, <2>5 DEF Fresh
    <3> QED
      BY <1>3, <2>2, <2>3, <3>1, <3>2, OneReconciles DEF sums
  <2> QED
    BY <2>4, <2>5
<1>6. CASE WriteSumsStatus(c)
  <2> DEFINE written == [row EXCEPT !.status = sums.status]
  <2>1. call.after = sums /\ Right(row, sums)
    BY <1>1, <1>2, <1>6 DEF WriteSumsStatus, Fresh
  <2>2. /\ intents' = [intents EXCEPT ![i] = written] /\ UNCHANGED txs
        /\ reconcile' = [reconcile EXCEPT ![c] = ReconcileIdle]
    BY <1>1, <1>6, <2>1 DEF WriteSumsStatus, SetIntentStatus, ReconcileReturns
  <2>3. written.due = row.due /\ written.status = sums.status /\ Right(written, sums)
    <3> HIDE DEF sums
    <3> QED
      BY <1>3, <2>1 DEF IntentRow, Right
  <2> HIDE DEF sums, written, ReconcileIdle
  <2> QED
    BY <1>3, <2>2, <2>3, OneReconciles DEF sums
<1> QED
  BY <1>4, <1>5, <1>6 DEF ReconcileStep

(* One that starts reads what is there; one that is cut off leaves what it *)
(* has written.                                                            *)
LEMMA ReconcileStartsOrStops ==
  ASSUME RowsInv, ReconcileInv, NEW i \in Intents, AllUpToDate(i),
         NEW c \in Reconciles, LoadIntent(c, i) \/ AbortReconcile(c)
  PROVE  AllUpToDate(i)' /\ (Agrees(i) => Agrees(i)')
<1> DEFINE row == intents[i]
           read == [paid |-> row.paid, refunded |-> row.refunded,
                    remaining |-> row.remaining, status |-> row.status]
           new == [pc |-> "rows", intent |-> i, after |-> NoSums, before |-> read]
<1>1. UNCHANGED <<intents, txs>>
  BY DEF LoadIntent, AbortReconcile, tables
<1>2. CASE LoadIntent(c, i)
  <2>1. reconcile' = [reconcile EXCEPT ![c] = new]
    BY <1>2 DEF LoadIntent
  <2>2. new.pc = "rows" /\ new.before = read
    OBVIOUS
  <2> HIDE DEF new
  <2>3. Fresh(new, row, SumsOfRows(i))
    BY <2>2 DEF Fresh, Right
  <2> QED
    BY <1>1, <2>1, <2>3, OneReadsOn
<1>3. CASE AbortReconcile(c)
  <2>1. reconcile' = [reconcile EXCEPT ![c] = ReconcileIdle] /\ ReconcileIdle.intent # i
    BY <1>3, TablesAssumption DEF AbortReconcile, ReconcileReturns, ReconcileIdle
  <2> QED
    BY <1>1, <2>1, OneReadsOn
<1> QED
  BY <1>2, <1>3

LEMMA ReconcilersSettle ==
  ASSUME RowsInv, ReconcileInv, NEW i \in Intents, AllUpToDate(i), ReconcileStepOf(i)
  PROVE  AllUpToDate(i)' /\ (Agrees(i) \/ Reconciled(i) => Agrees(i)')
<1>1. PICK c \in Reconciles :
         LoadIntent(c, i) \/ (reconcile[c].intent = i /\ (ReconcileStep(c) \/ AbortReconcile(c)))
  BY DEF ReconcileStepOf
<1>2. AllUpToDate(i)' /\ (Agrees(i) => Agrees(i)')
  <2>1. CASE LoadIntent(c, i) \/ AbortReconcile(c)
    BY <2>1, ReconcileStartsOrStops
  <2>2. CASE reconcile[c].intent = i /\ ReconcileStep(c)
    BY <2>2, ReconcileSettles
  <2> QED
    BY <1>1, <2>1, <2>2
<1>3. Reconciled(i) => Agrees(i)'
  BY ReconcileSettles DEF Reconciled
<1> QED
  BY <1>2, <1>3

(* Reconciliations of an intent that run alone and have read nothing out   *)
(* of date stay so and do not undo each other's repairs, however many      *)
(* there are and wherever they are cut off.                                *)
THEOREM RepairsStay == MaintenanceSpec => RepairsSettle
<1>1. MaintenanceInv /\ [MaintenanceNext]_mvars =>
        [\A i \in Intents :
            AllUpToDate(i) /\ ReconcileStepOf(i) =>
               /\ AllUpToDate(i)'
               /\ Agrees(i) \/ Reconciled(i) => Agrees(i)']_mvars
  BY ReconcilersSettle DEF MaintenanceInv
<1> QED
  BY <1>1, MaintenanceInvariant, PTL DEF MaintenanceSpec, RepairsSettle

(* Hence they converge: from a moment on at which only reconciliations of  *)
(* the intent run, none of which has read what was out of date (none in    *)
(* progress will do), their coming to an end again and again makes the     *)
(* totals and the status agree with the rows for good.                     *)
THEOREM ReconcilersConverge ==
  ASSUME NEW i \in Intents
  PROVE  /\ MaintenanceSpec
         /\ <>(AllUpToDate(i) /\ [][ReconcileStepOf(i)]_mvars)
         /\ []<><<Reconciled(i)>>_mvars
         => <>[]Agrees(i)
<1>1. MaintenanceInv /\ AllUpToDate(i) /\ [ReconcileStepOf(i)]_mvars
        => AllUpToDate(i)' /\ (Agrees(i) => Agrees(i)')
  <2>1. CASE ReconcileStepOf(i)
    BY <2>1, ReconcilersSettle DEF MaintenanceInv
  <2>2. ASSUME UNCHANGED mvars, AllUpToDate(i)
        PROVE  AllUpToDate(i)' /\ (Agrees(i) => Agrees(i)')
    <3>1. UNCHANGED <<intents, txs, reconcile>>
      BY <2>2 DEF mvars, tables
    <3>2. SumsOfRows(i)' = SumsOfRows(i)
      BY <3>1 DEF SumsOfRows, SucceededSum, Total
    <3> QED
      BY <2>2, <3>1, <3>2, RelationsAre, RelationsAreNext DEF AllUpToDate
  <2> QED
    BY <2>1, <2>2
<1>2. MaintenanceInv /\ AllUpToDate(i) /\ [ReconcileStepOf(i)]_mvars /\ <<Reconciled(i)>>_mvars
        => Agrees(i)'
  BY ReconcilersSettle DEF MaintenanceInv
<1> QED
  BY <1>1, <1>2, MaintenanceInvariant, PTL
=============================================================================
