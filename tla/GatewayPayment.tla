--------------------------- MODULE GatewayPayment ---------------------------
(***************************************************************************)
(* CreateGatewayPayment: a merchant asks for a payment of an intent, under *)
(* an idempotency key or none.  The key is looked up, the intent is read   *)
(* and checked, the key is reserved, the provider charges, the transaction *)
(* row is inserted, an immediate success is credited, and the key is       *)
(* completed: seven awaits, between any two of which other requests run    *)
(* and the process may die.  Each element of Payments is one call, so a    *)
(* client's retry is another element with the same key and parameters.     *)
(***************************************************************************)
EXTENDS PaymentProvider

VARIABLES pay,   \* the calls: where each stands and what it holds
          keys   \* po_idempotency_keys, scope createGatewayPayment

gatewayVars == <<pay, keys>>

(* The calls that have ended, by how.                                      *)
PayEnds == {"done", "replayed", "conflict", "in_progress",
            "previously_failed", "rejected", "provider_error", "error"}

PaySteps == {"find", "load", "reserve", "charge", "mark_failed", "insert", "apply",
             "complete"}

(* result: what the provider answered; reply: the transaction returned.    *)
PayCall == [pc: {"idle"} \cup PaySteps \cup PayEnds,
            intent: Intents \cup {None}, amount: Nat,
            key: Keys \cup {None}, reply: Payments \cup {None},
            result: {"none", "requires_action", "failed", "succeeded"}]

KeyRow == [status: {"absent", "processing", "completed", "failed"},
           intent: Intents \cup {None}, amount: Nat, tx: Payments \cup {None}]

GatewayTypeOK == pay \in [Payments -> PayCall] /\ keys \in [Keys -> KeyRow]

GatewayInit ==
    /\ pay = [p \in Payments |->
                [pc |-> "idle", intent |-> None, amount |-> 0, key |-> None,
                 reply |-> None, result |-> "none"]]
    /\ keys = [k \in Keys |->
                 [status |-> "absent", intent |-> None, amount |-> 0, tx |-> None]]

Goto(p, step) == pay' = [pay EXCEPT ![p].pc = step]

(* The call ends by returning the response stored with its key.            *)
Replay(p, k) == pay' = [pay EXCEPT ![p] = [@ EXCEPT !.pc = "replayed",
                                                    !.reply = keys[k].tx]]

(* A mutant: the amount is left out of the hash.                           *)
MutantSameIntent(p, k) == keys[k].intent = pay[p].intent

(* requestHash: the identity of a request is its intent and its amount     *)
(* (provider, method, account and metadata are the same throughout).       *)
SameRequest(p, k) == keys[k].intent = pay[p].intent /\ keys[k].amount = pay[p].amount

(***************************************************************************)
(* The call arrives; with a key, its row is looked up in step "find".      *)
(***************************************************************************)
ReceivePayment(p, i, a, k) ==
    /\ pay[p].pc = "idle"
    /\ pay' = [pay EXCEPT ![p] = [@ EXCEPT !.pc = IF k = None THEN "load" ELSE "find",
                                           !.intent = i, !.amount = a, !.key = k]]
    /\ UNCHANGED <<tables, provider, keys>>

(* A failed key is refused before its parameters are compared.             *)
FindKey(p) ==
    LET k == pay[p].key
    IN  /\ pay[p].pc = "find"
        /\ CASE keys[k].status \in {"absent", "processing"} -> Goto(p, "load")
             [] keys[k].status = "failed" -> Goto(p, "previously_failed")
             [] keys[k].status = "completed" ->
                  IF SameRequest(p, k) THEN Replay(p, k) ELSE Goto(p, "conflict")
        /\ UNCHANGED <<tables, provider, keys>>

(* The intent as read here is the only one the checks look at.             *)
AcceptPayment(p) ==
    LET i == pay[p].intent
    IN  /\ pay[p].pc = "load"
        /\ intents[i].status # "absent"
        /\ IntentPayable(intents[i], i \in overdue)
        /\ PaymentAmountAllowed(intents[i], pay[p].amount)
        /\ Goto(p, IF pay[p].key = None THEN "charge" ELSE "reserve")
        /\ UNCHANGED <<tables, provider, keys>>

(* Any other intent is refused, and so is any request whose provider       *)
(* account, method or provider is not usable: configuration held elsewhere.*)
RejectPayment(p) ==
    /\ pay[p].pc = "load"
    /\ Goto(p, "rejected")
    /\ UNCHANGED <<tables, provider, keys>>

(* The INSERT .. ON CONFLICT DO NOTHING inserts.  (A mutant lets a failed  *)
(* key be taken over.)                                                     *)
MutantFailedKeyIsFree(k) == keys[k].status \in {"absent", "failed"}

KeyIsFree(k) == keys[k].status = "absent"

(* reserveOrGet: insert the key as processing, or read who holds it.       *)
ReserveKey(p) ==
    LET k == pay[p].key
    IN  /\ pay[p].pc = "reserve"
        /\ IF KeyIsFree(k)
           THEN /\ keys' = [keys EXCEPT ![k] =
                              [status |-> "processing", intent |-> pay[p].intent,
                               amount |-> pay[p].amount, tx |-> None]]
                /\ Goto(p, "charge")
           ELSE /\ CASE ~SameRequest(p, k) -> Goto(p, "conflict")
                     [] SameRequest(p, k) /\ keys[k].status = "processing" ->
                          Goto(p, "in_progress")
                     [] SameRequest(p, k) /\ keys[k].status = "completed" ->
                          Replay(p, k)
                     [] SameRequest(p, k) /\ keys[k].status = "failed" ->
                          Goto(p, "previously_failed")
                /\ UNCHANGED keys
        /\ UNCHANGED <<tables, provider>>

(* provider.createPayment answers.                                         *)
ChargeProvider(p) ==
    \E answer \in ChargeAnswers :
        /\ pay[p].pc = "charge"
        /\ charge' = [charge EXCEPT ![p] = IF answer = "requires_action"
                                           THEN "open" ELSE answer]
        /\ pay' = [pay EXCEPT ![p] = [@ EXCEPT !.pc = "insert", !.result = answer]]
        /\ UNCHANGED <<tables, returned, keys>>

(* createPayment throws, before the provider opened the charge or after.   *)
ProviderThrows(p) ==
    /\ pay[p].pc = "charge"
    /\ charge' \in {charge, [charge EXCEPT ![p] = "open"]}
    /\ Goto(p, IF pay[p].key = None THEN "provider_error" ELSE "mark_failed")
    /\ UNCHANGED <<tables, returned, keys>>

MarkKeyFailed(p) ==
    /\ pay[p].pc = "mark_failed"
    /\ keys' = [keys EXCEPT ![pay[p].key].status = "failed"]
    /\ Goto(p, "provider_error")
    /\ UNCHANGED <<tables, provider>>

(* An immediate success is inserted as pending, for "apply" to confirm.    *)
(* (A mutant inserts the provider's answer.)                               *)
MutantStatusAsAnswered(p) == pay[p].result

InitialStatus(p) == IF pay[p].result = "succeeded" THEN "pending" ELSE pay[p].result

InsertPayment(p) ==
    /\ pay[p].pc = "insert"
    /\ InsertTx(p, [status |-> InitialStatus(p),
                    amount |-> pay[p].amount, intent |-> pay[p].intent,
                    parent |-> None, key |-> pay[p].key, routable |-> TRUE])
    /\ Goto(p, CASE pay[p].result = "succeeded" -> "apply"
                 [] pay[p].result # "succeeded" /\ pay[p].key # None -> "complete"
                 [] pay[p].result # "succeeded" /\ pay[p].key = None -> "done")
    /\ UNCHANGED <<provider, keys>>

ApplyPayment(p) ==
    /\ pay[p].pc = "apply"
    /\ \/ CreditPayment(p)
       \/ PaymentOutcome(p) = "already" /\ UNCHANGED tables
    /\ Goto(p, IF pay[p].key = None THEN "done" ELSE "complete")
    /\ UNCHANGED <<provider, keys>>

(* applySucceededPayment throws: the intent no longer has room, or the row *)
(* was closed meanwhile.  Nothing catches it and the key stays processing. *)
ApplyRefused(p) ==
    /\ pay[p].pc = "apply"
    /\ PaymentOutcome(p) \in {"overpayment", "not_confirmable"}
    /\ Goto(p, "error")
    /\ UNCHANGED <<tables, provider, keys>>

CompleteKey(p) ==
    /\ pay[p].pc = "complete"
    /\ keys' = [keys EXCEPT ![pay[p].key] = [@ EXCEPT !.status = "completed", !.tx = p]]
    /\ Goto(p, "done")
    /\ UNCHANGED <<tables, provider>>

(* A statement fails (a unique violation of the insert included) or the    *)
(* process dies: the call ends where it stands.                            *)
AbortPayment(p) ==
    /\ pay[p].pc \in PaySteps
    /\ Goto(p, "error")
    /\ UNCHANGED <<tables, provider, keys>>

GatewayNext ==
    \E p \in Payments :
        \/ \E i \in Intents, a \in Amounts, k \in Keys \cup {None} :
             ReceivePayment(p, i, a, k)
        \/ FindKey(p) \/ AcceptPayment(p) \/ RejectPayment(p) \/ ReserveKey(p)
        \/ ChargeProvider(p) \/ ProviderThrows(p) \/ MarkKeyFailed(p)
        \/ InsertPayment(p) \/ ApplyPayment(p) \/ ApplyRefused(p)
        \/ CompleteKey(p) \/ AbortPayment(p)
=============================================================================
