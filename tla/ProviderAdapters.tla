-------------------------- MODULE ProviderAdapters --------------------------
(***************************************************************************)
(* What the three adapters of the registry (manual, fake_gateway,          *)
(* xendit_sandbox) may answer, and how they read what a provider reports.  *)
(* Requests, signatures and references are left out; throwing is an        *)
(* action of the use case that calls the adapter.                          *)
(***************************************************************************)

(* createPayment.  manual settles at once; fake_gateway does what the      *)
(* scenario in the metadata says, by default a QR code to be paid;         *)
(* xendit_sandbox opens an invoice, or reports an HTTP error as failed.    *)
ManualCharge == {"succeeded"}
FakeGatewayCharge == {"succeeded", "failed", "requires_action"}
XenditCharge == {"failed", "requires_action"}
ChargeAnswers == ManualCharge \cup FakeGatewayCharge \cup XenditCharge

(* cancelPayment: whether the cancellation keeps the charge's reference.   *)
(* Both answer cancelled, also for a charge that has settled; the type of  *)
(* an adapter allows for failed too.                                       *)
ManualCancel == [status |-> "cancelled", keeps |-> TRUE]
FakeGatewayCancel == [status |-> "cancelled", keeps |-> FALSE]
RefusedCancel == [status : {"failed"}, keeps : BOOLEAN]
CancelAnswers == {ManualCancel, FakeGatewayCancel} \cup RefusedCancel

(* refundPayment: both succeed; the type allows for the others.            *)
FakeGatewayRefund == {"succeeded"}
ManualRefund == {"succeeded"}
RefundAnswers == FakeGatewayRefund \cup ManualRefund \cup {"failed", "pending"}

(* mapXenditStatus, on the words an invoice may carry.                     *)
XenditStatus ==
    [PAID |-> "succeeded", SUCCEEDED |-> "succeeded", SETTLED |-> "succeeded",
     FAILED |-> "failed", EXPIRED |-> "expired", CANCELLED |-> "cancelled",
     VOIDED |-> "cancelled", PENDING |-> "requires_action", UNKNOWN |-> "ignored"]

(* The statuses of fake_gateway's webhooks; any other is refused.          *)
FakeGatewayWords == {"succeeded", "failed", "cancelled", "expired", "ignored", "pending"}

(* parseWebhook.  The handler treats pending as it does requires_action.   *)
FakeGatewayParsed(word) == IF word = "pending" THEN "requires_action" ELSE word
XenditParsed(word) == XenditStatus[word]

Outcomes ==
    {FakeGatewayParsed(word) : word \in FakeGatewayWords}
      \cup {XenditParsed(word) : word \in DOMAIN XenditStatus}

(* getPaymentStatus, for a charge that stands at c.  fake_gateway answers  *)
(* from what it stored of the charge; xendit_sandbox answers failed for    *)
(* every HTTP status outside 2xx, however the charge stands, and ignored   *)
(* for a status it does not know.                                          *)
FakeGatewayPoll(c) == {"requires_action"} \cup ({c} \cap {"succeeded", "failed"})
XenditPoll(c) == {c, "failed", "ignored"}
=============================================================================
