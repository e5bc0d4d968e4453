----------------------------- MODULE HttpRoutes -----------------------------
(***************************************************************************)
(* What each handler under /v1 asks of a request before it acts, and the   *)
(* kind of act.  Every handler has the same frame: the client's scopes,    *)
(* the merchant named (a parameter of the path, or of body or header), the *)
(* client's grant on that merchant with a scope of the same list, the      *)
(* fields of the body, one use case keyed by the merchant, and an audit    *)
(* row that nothing waits for.  What the use cases do to payments is in    *)
(* the modules of the use cases.                                           *)
(***************************************************************************)

(* requireScope, or requireAnyScope, over what the client may do.          *)
ScopeAllowed(held, any) == "*" \in held \/ held \cap any # {}

(* A route on a merchant's resources: the grant needs one of any as well.  *)
OnMerchant(name, method, any, act) ==
    [name |-> name, method |-> method, any |-> any, subject |-> "merchant", act |-> act,
     future |-> FALSE]

(* A route on an API client's own secrets; future: whether an expiresAt    *)
(* that has passed is refused.                                             *)
OnClient(name, method, scope, act, future) ==
    [name |-> name, method |-> method, any |-> {scope}, subject |-> "client", act |-> act,
     future |-> future]

(* Intents and their payments.                                             *)
CreateIntentRoute == OnMerchant("intent.create", "POST", {"intent:create"}, "write")
IntentStatusRoute == OnMerchant("intent.status", "GET", {"intent:read"}, "read")
RefundabilityRoute == OnMerchant("intent.refundability", "GET", {"intent:read"}, "read")
GatewayPaymentRoute == OnMerchant("payment.create", "POST", {"payment:create"}, "write")
ReconcileRoute == OnMerchant("payment.reconcile", "POST", {"payment:reconcile"}, "write")
RefreshRoute == OnMerchant("payment.refresh", "POST", {"intent:read"}, "write")
RefundRoute == OnMerchant("payment.refund", "POST", {"payment:refund"}, "write")
VoidRoute == OnMerchant("payment.void", "POST", {"payment:void"}, "write")
PaymentOptionsRoute ==
    OnMerchant("payment_options.read", "GET", {"payment_method:read", "intent:read"}, "read")

PaymentRoutes ==
    {CreateIntentRoute, IntentStatusRoute, RefundabilityRoute, GatewayPaymentRoute,
     ReconcileRoute, RefreshRoute, RefundRoute, VoidRoute, PaymentOptionsRoute}

(* Merchants, their provider accounts, methods and webhooks.               *)
ReadMerchantRoute == OnMerchant("merchant.read", "GET", {"merchant:read"}, "read")
CreateAccountRoute ==
    OnMerchant("provider_account.create", "POST", {"provider_account:create"}, "write")
ReadAccountRoute == OnMerchant("provider_account.read", "GET", {"provider_account:read"}, "read")
ListMethodsRoute ==
    OnMerchant("method.list", "GET", {"payment_method:read", "provider_account:read"}, "read")
UpsertMethodRoute ==
    OnMerchant("method.upsert", "PUT", {"payment_method:write", "provider_account:create"}, "write")
SyncMethodsRoute ==
    OnMerchant("method.sync", "POST", {"payment_method:sync", "provider_account:create"}, "write")
MerchantMethodsRoute ==
    OnMerchant("merchant.methods", "GET",
               {"payment_method:read", "provider_account:read", "intent:read"}, "read")
CreateEndpointRoute == OnMerchant("webhook.create", "POST", {"webhook:manage"}, "write")
ListEndpointsRoute == OnMerchant("webhook.list", "GET", {"webhook:read"}, "read")
DisableEndpointRoute == OnMerchant("webhook.disable", "POST", {"webhook:manage"}, "write")
RotateEndpointRoute == OnMerchant("webhook.rotate", "POST", {"webhook:manage"}, "write")
ListDeliveriesRoute == OnMerchant("webhook.deliveries", "GET", {"webhook:read"}, "read")
ReplayRoute == OnMerchant("webhook.replay", "POST", {"webhook:manage"}, "write")

MerchantRoutes ==
    {ReadMerchantRoute, CreateAccountRoute, ReadAccountRoute, ListMethodsRoute,
     UpsertMethodRoute, SyncMethodsRoute, MerchantMethodsRoute, CreateEndpointRoute,
     ListEndpointsRoute, DisableEndpointRoute, RotateEndpointRoute, ListDeliveriesRoute,
     ReplayRoute}

(* A new merchant: nobody holds a grant on it yet.                         *)
CreateMerchantRoute ==
    [name |-> "merchant.create", method |-> "POST", any |-> {"merchant:create"},
     subject |-> "none", act |-> "create_merchant", future |-> FALSE]

(* The secrets of an API client: bearer credentials and signing keys.      *)
CreateCredentialRoute ==
    OnClient("credential.create", "POST", "api_client:credential:create", "create", TRUE)
ListCredentialsRoute ==
    OnClient("credential.list", "GET", "api_client:credential:read", "read", FALSE)
RotateCredentialRoute ==
    OnClient("credential.rotate", "POST", "api_client:credential:rotate", "rotate", FALSE)
RevokeCredentialRoute ==
    OnClient("credential.revoke", "POST", "api_client:credential:revoke", "revoke", FALSE)

CredentialRoutes ==
    {CreateCredentialRoute, ListCredentialsRoute, RotateCredentialRoute, RevokeCredentialRoute}

CreateSigningKeyRoute ==
    OnClient("signing_key.create", "POST", "api_client:signing_key:create", "create", TRUE)
ListSigningKeysRoute ==
    OnClient("signing_key.list", "GET", "api_client:signing_key:read", "read", FALSE)
RotateSigningKeyRoute ==
    OnClient("signing_key.rotate", "POST", "api_client:signing_key:rotate", "rotate", TRUE)
RevokeSigningKeyRoute ==
    OnClient("signing_key.revoke", "POST", "api_client:signing_key:revoke", "revoke", FALSE)

SigningKeyRoutes ==
    {CreateSigningKeyRoute, ListSigningKeysRoute, RotateSigningKeyRoute, RevokeSigningKeyRoute}

(* The audit log of a merchant the client holds a grant on or, when none   *)
(* is named, of the client itself.                                         *)
MerchantAuditRoute == OnMerchant("audit_log.merchant", "GET", {"audit_log:read"}, "read")
OwnAuditRoute == OnClient("audit_log.own", "GET", "audit_log:read", "read", FALSE)

Routes ==
    PaymentRoutes \cup MerchantRoutes \cup {CreateMerchantRoute} \cup CredentialRoutes
      \cup SigningKeyRoutes \cup {MerchantAuditRoute, OwnAuditRoute}
=============================================================================
