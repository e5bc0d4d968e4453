--------------------------- MODULE MerchantOutbox ---------------------------
(***************************************************************************)
(* MerchantWebhookOutbox.emit as the use cases call it: after their commit,*)
(* a statement of its own, never part of the transaction that changed the  *)
(* payment.  An event is deduplicated by what it is about, the status it   *)
(* announces and its cause (the dedupeSuffix).  The deliveries made from   *)
(* an event are not modelled here.                                         *)
(***************************************************************************)
EXTENDS PaymentProvider

CONSTANTS OutboxEnabled,  \* enabled, and an active endpoint subscribes
          Events          \* provider events (rows of po_provider_events)

ASSUME OutboxAssumption == OutboxEnabled \in BOOLEAN

VARIABLE outbox           \* the merchant events created

(* The transaction statuses that have a merchant event type.               *)
AnnouncedTxStatuses == {"requires_action", "succeeded", "failed", "cancelled",
                        "refunded", "voided"}

(* The dedupeSuffix: fake_gateway_confirm, void:<tx>, refund:<tx> or        *)
(* provider:<event>.                                                       *)
Causes == ({"confirm"} \X {None}) \cup
          ({"void", "refund", "provider"} \X (Payments \cup Refunds \cup Events))

OutboxTypeOK ==
    outbox \subseteq [about: Txs \cup Intents, cause: Causes,
                      status: TransactionStatuses \cup IntentStatuses]

OutboxInit == outbox = {}

Emit(event) == outbox' = IF OutboxEnabled THEN outbox \cup {event} ELSE outbox

EmitTransactionStatus(t, status, cause) ==
    IF status \in AnnouncedTxStatuses
    THEN Emit([about |-> t, status |-> status, cause |-> cause])
    ELSE UNCHANGED outbox

(* Every intent status has an event type; overpaid is announced as paid.   *)
EmitIntentStatus(i, status, cause) ==
    Emit([about |-> i, cause |-> cause,
          status |-> IF status = "overpaid" THEN "paid" ELSE status])
=============================================================================
