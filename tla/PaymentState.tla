---------------------------- MODULE PaymentState ----------------------------
(***************************************************************************)
(* The pure rules of the service: the status alphabets of the core domain  *)
(* and the functions that decide whether an intent can be paid, how much   *)
(* of it, and which status its totals imply.                               *)
(***************************************************************************)
EXTENDS Integers, FiniteSets

TransactionStatuses ==
    {"pending", "requires_action", "succeeded", "failed", "cancelled",
     "expired", "voided", "refunded", "reversed", "ignored"}

IntentStatuses ==
    {"requires_payment", "partially_paid", "paid", "overpaid", "refunded",
     "voided", "expired", "cancelled", "failed"}

(* What the UPDATE that confirms a transaction accepts as current status.  *)
ConfirmableStatuses == {"requires_action", "pending"}

(* Intents a payment, or the expiry of the intent, may still apply to.     *)
PayableStatuses == {"requires_payment", "partially_paid"}

(* A mutant: "paid" one unit too early.                                    *)
MutantStatusOffByOne(due, paid) ==
    CASE paid <= 0       -> "requires_payment"
      [] paid > due      -> "overpaid"
      [] paid \in 1 .. due -> IF paid >= due - 1 THEN "paid" ELSE "partially_paid"

(* The status an intent's totals imply, before refunds are looked at.      *)
ComputeIntentStatus(due, paid) ==
    CASE paid <= 0              -> "requires_payment"
      [] paid > due             -> "overpaid"
      [] paid = due             -> "paid"
      [] paid \in 1 .. due - 1  -> "partially_paid"

(* A mutant: > for >=.                                                     *)
MutantRefundedStrictly(status, paid, refunded) ==
    IF paid > 0 /\ refunded > paid THEN "refunded" ELSE status

(* A fully refunded intent is "refunded"; any other keeps its status.      *)
StatusAfterRefund(status, paid, refunded) ==
    IF paid > 0 /\ refunded >= paid THEN "refunded" ELSE status

(* assertIntentPayable: past = the intent's expiresAt is not after now.    *)
IntentPayable(row, past) == ~past /\ row.status \in PayableStatuses

(* assertPaymentAmountAllowed.                                             *)
PaymentAmountAllowed(row, amount) ==
    /\ amount <= row.remaining
    /\ row.allowPartial \/ amount = row.remaining
=============================================================================
