-------------------------- MODULE PaymentProvider --------------------------
(***************************************************************************)
(* EXTERNAL.  The payment provider, as the adapters of the service see it: *)
(* the charge each CreateGatewayPayment request opened, if it did, and the *)
(* money given back on it.  A charge settles once, and webhooks report how *)
(* it settled.                                                             *)
(***************************************************************************)
EXTENDS PaymentTables, ProviderAdapters

VARIABLES charge,   \* the provider's record of each request's charge
          returned  \* money the provider gave back on each charge

provider == <<charge, returned>>

ChargeStatuses == {"none", "open", "succeeded", "failed", "cancelled", "expired"}

ProviderTypeOK ==
    /\ charge \in [Payments -> ChargeStatuses]
    /\ returned \in [Payments -> Nat]

ProviderInit ==
    /\ charge = [p \in Payments |-> "none"]
    /\ returned = [p \in Payments |-> 0]

(* The customer pays, abandons or is refused: an open charge settles.      *)
SettleCharge ==
    \E p \in Payments, outcome \in {"succeeded", "failed", "expired"} :
        /\ charge[p] = "open"
        /\ charge' = [charge EXCEPT ![p] = outcome]
        /\ UNCHANGED returned
=============================================================================
