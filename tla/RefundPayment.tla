--------------------------- MODULE RefundPayment ---------------------------
(***************************************************************************)
(* RefundPaymentTransaction: give back part of a succeeded payment.  The   *)
(* source is read, an earlier refund under the same key is looked for, the *)
(* succeeded refunds are summed, the refund row is inserted as pending,    *)
(* the provider refunds, and the refund is credited to the intent.  Each   *)
(* element of Refunds is one call.                                         *)
(***************************************************************************)
EXTENDS MerchantOutbox

VARIABLE refund           \* the calls: where each stands, what it holds

RefundEnds == {"done", "replayed", "conflict", "rejected", "provider_failed", "error"}

RefundSteps == {"find", "check", "insert", "refund", "apply", "settle",
                "emit_tx", "emit_intent"}

(* source: the status of the source as read; result: the provider's answer *)
(* and then the status to announce of the intent.                          *)
RefundCall == [pc: {"idle"} \cup RefundSteps \cup RefundEnds,
               src: Payments \cup {None}, amount: Nat, key: Keys \cup {None},
               source: TransactionStatuses \cup {"none"},
               result: {"none", "succeeded", "failed", "pending"},
               intentStatus: IntentStatuses \cup {"none"}]

RefundTypeOK == refund \in [Refunds -> RefundCall]

RefundInit ==
    refund = [r \in Refunds |->
                [pc |-> "idle", src |-> None, amount |-> 0, key |-> None,
                 source |-> "none", result |-> "none", intentStatus |-> "none"]]

RefundTo(r, step) == refund' = [refund EXCEPT ![r].pc = step]

(* sumSucceededRefundsByParent                                             *)
SucceededRefunds(p) ==
    Total({t \in Refunds : txs[t].parent = p /\ txs[t].status = "succeeded"})

(* The source and its intent are read; an unknown source ends the call.    *)
LoadSource(r, p, a, k) ==
    /\ refund[r].pc = "idle"
    /\ TxExists(p)
    /\ refund' = [refund EXCEPT ![r] =
                    [@ EXCEPT !.pc = IF k = None THEN "check" ELSE "find",
                              !.src = p, !.amount = a, !.key = k,
                              !.source = txs[p].status,
                              !.intentStatus = intents[txs[p].intent].status]]
    /\ UNCHANGED <<tables, provider, outbox>>

(* findByMerchantIdempotencyKey: the same refund is replayed, any other    *)
(* row under the key is a conflict.                                        *)
FindRefund(r) ==
    LET same(t) == /\ t \in Refunds
                   /\ txs[t].parent = refund[r].src
                   /\ txs[t].amount = refund[r].amount
        holders == KeyHolders(refund[r].key)
    IN  /\ refund[r].pc = "find"
        /\ \/ holders = {} /\ RefundTo(r, "check")
           \/ \E t \in holders :
                RefundTo(r, IF same(t) THEN "replayed" ELSE "conflict")
        /\ UNCHANGED <<tables, provider, outbox>>

(* The refundable amount counts succeeded refunds only, as of this read.   *)
WithinRefundable(r) ==
    refund[r].amount <= txs[refund[r].src].amount - SucceededRefunds(refund[r].src)

CheckRefundable(r) ==
    /\ refund[r].pc = "check"
    /\ RefundTo(r, IF refund[r].source = "succeeded" /\ WithinRefundable(r)
                   THEN "insert" ELSE "rejected")
    /\ UNCHANGED <<tables, provider, outbox>>

InsertRefund(r) ==
    LET p == refund[r].src
    IN  /\ refund[r].pc = "insert"
        /\ InsertTx(r, [status |-> "pending", amount |-> refund[r].amount,
                        intent |-> txs[p].intent, parent |-> p,
                        key |-> refund[r].key, routable |-> FALSE])
        /\ RefundTo(r, "refund")
        /\ UNCHANGED <<provider, outbox>>

(* provider.refundPayment answers.  (A mutant takes a refund the provider  *)
(* has only accepted for one it has made.)                                 *)
MutantPendingIsDone(r) ==
    \E answer \in RefundAnswers :
        /\ refund[r].pc = "refund"
        /\ returned' = IF answer = "succeeded"
                       THEN [returned EXCEPT ![refund[r].src] = @ + refund[r].amount]
                       ELSE returned
        /\ refund' = [refund EXCEPT ![r] =
                        [@ EXCEPT !.result = answer,
                                  !.pc = IF answer = "failed" THEN "settle" ELSE "apply"]]
        /\ UNCHANGED <<tables, charge, outbox>>

RefundAtProvider(r) ==
    \E answer \in RefundAnswers :
        /\ refund[r].pc = "refund"
        /\ returned' = IF answer = "succeeded"
                       THEN [returned EXCEPT ![refund[r].src] = @ + refund[r].amount]
                       ELSE returned
        /\ refund' = [refund EXCEPT ![r] =
                        [@ EXCEPT !.result = answer,
                                  !.pc = IF answer = "succeeded" THEN "apply" ELSE "settle"]]
        /\ UNCHANGED <<tables, charge, outbox>>

(* refundPayment throws, before the money moved or after.                  *)
RefundThrows(r) ==
    /\ refund[r].pc = "refund"
    /\ returned' \in {returned, [returned EXCEPT ![refund[r].src] = @ + refund[r].amount]}
    /\ RefundTo(r, "error")
    /\ UNCHANGED <<tables, charge, outbox>>

ApplyRefund(r) ==
    /\ refund[r].pc = "apply"
    /\ CreditRefund(r)
    /\ refund' = [refund EXCEPT ![r] =
                    [@ EXCEPT !.pc = "emit_tx",
                              !.intentStatus = intents'[txs[r].intent].status]]
    /\ UNCHANGED <<provider, outbox>>

(* A mutant: the refund row is written outside the transaction.            *)
MutantNotRolledBack(r) ==
    /\ refund[r].pc = "apply"
    /\ ~RefundFits(r)
    /\ SetTxStatus(r, "succeeded")
    /\ RefundTo(r, "error")
    /\ UNCHANGED <<provider, outbox>>

(* applySucceededRefund throws REFUND_EXCEEDS_REFUNDABLE: rolled back.     *)
ApplyRefundRefused(r) ==
    /\ refund[r].pc = "apply"
    /\ ~RefundFits(r)
    /\ RefundTo(r, "error")
    /\ UNCHANGED <<tables, provider, outbox>>

(* The provider refused, and the call fails; or the refund stays pending,  *)
(* and is announced with the intent as read at the start.                  *)
SettleRefund(r) ==
    /\ refund[r].pc = "settle"
    /\ SetTxStatus(r, refund[r].result)
    /\ RefundTo(r, IF refund[r].result = "failed" THEN "provider_failed" ELSE "emit_tx")
    /\ UNCHANGED <<provider, outbox>>

EmitRefundTx(r) ==
    /\ refund[r].pc = "emit_tx"
    /\ EmitTransactionStatus(r, refund[r].result, <<"refund", r>>)
    /\ RefundTo(r, "emit_intent")
    /\ UNCHANGED <<tables, provider>>

EmitRefundIntent(r) ==
    /\ refund[r].pc = "emit_intent"
    /\ EmitIntentStatus(txs[r].intent, refund[r].intentStatus, <<"refund", r>>)
    /\ RefundTo(r, "done")
    /\ UNCHANGED <<tables, provider>>

(* A statement fails (the unique violation of two refunds under one key    *)
(* included) or the process dies; nothing resumes the call.                *)
AbortRefund(r) ==
    /\ refund[r].pc \in RefundSteps
    /\ RefundTo(r, "error")
    /\ UNCHANGED <<tables, provider, outbox>>

RefundNext ==
    \E r \in Refunds :
        \/ \E p \in Payments, a \in Amounts, k \in Keys \cup {None} : LoadSource(r, p, a, k)
        \/ FindRefund(r) \/ CheckRefundable(r) \/ InsertRefund(r)
        \/ RefundAtProvider(r) \/ RefundThrows(r)
        \/ ApplyRefund(r) \/ ApplyRefundRefused(r) \/ SettleRefund(r)
        \/ EmitRefundTx(r) \/ EmitRefundIntent(r) \/ AbortRefund(r)
=============================================================================
