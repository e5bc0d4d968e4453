---------------------------- MODULE VoidPayment ----------------------------
(***************************************************************************)
(* VoidPaymentTransaction: cancel a payment that has not settled.  The     *)
(* transaction is read, the key is checked, the provider cancels, and the  *)
(* status is written, whatever it has become since it was read.            *)
(***************************************************************************)
EXTENDS MerchantOutbox

CONSTANT Voids            \* concurrent void calls

VARIABLE void

VoidCall == [pc: {"idle", "find", "cancel", "write", "emit_tx", "emit_intent"},
             tx: Payments \cup {None}, key: Keys \cup {None},
             seen: TransactionStatuses \cup {"none"},
             result: {"none", "cancelled", "failed"}, keepsRef: BOOLEAN]

VoidTypeOK == void \in [Voids -> VoidCall]

VoidIdle == [pc |-> "idle", tx |-> None, key |-> None, seen |-> "none",
             result |-> "none", keepsRef |-> TRUE]

VoidInit == void = [v \in Voids |-> VoidIdle]

VoidReturns(v) == void' = [void EXCEPT ![v] = VoidIdle]

LoadVoid(v, p, k) ==
    /\ void[v].pc = "idle"
    /\ TxExists(p)
    /\ void' = [void EXCEPT ![v] = [@ EXCEPT !.pc = "find", !.tx = p, !.key = k,
                                             !.seen = txs[p].status]]
    /\ UNCHANGED <<tables, provider, outbox>>

(* The key must not be another row's; then the status read must be open.   *)
CheckVoidable(v) ==
    /\ void[v].pc = "find"
    /\ IF KeyHolders(void[v].key) \subseteq {void[v].tx} /\ void[v].seen \in ConfirmableStatuses
       THEN void' = [void EXCEPT ![v].pc = "cancel"]
       ELSE VoidReturns(v)
    /\ UNCHANGED <<tables, provider, outbox>>

(* provider.cancelPayment answers, with the charge's reference or a new    *)
(* one.  A charge that has settled stays as it is.                         *)
CancelAtProvider(v) ==
    LET p == void[v].tx
    IN  \E answer \in CancelAnswers :
        /\ void[v].pc = "cancel"
        /\ charge' = IF answer.status = "cancelled" /\ charge[p] = "open"
                     THEN [charge EXCEPT ![p] = "cancelled"] ELSE charge
        /\ void' = [void EXCEPT ![v] = [@ EXCEPT !.pc = "write", !.result = answer.status,
                                                 !.keepsRef = answer.keeps]]
        /\ UNCHANGED <<tables, returned, outbox>>

(* updateStatus: cancelled, with the caller's key and the provider's new   *)
(* reference; or, when the provider refuses, failed.                       *)
WriteVoid(v) ==
    LET p == void[v].tx
        cancelled == void[v].result = "cancelled"
        key == IF cancelled /\ void[v].key # None THEN void[v].key ELSE txs[p].key
    IN  /\ void[v].pc = "write"
        /\ KeyHolders(key) \subseteq {p}
        /\ txs' = [txs EXCEPT ![p] =
                     [txs[p] EXCEPT !.status = void[v].result, !.key = key,
                                    !.routable = txs[p].routable /\ void[v].keepsRef]]
        /\ IF cancelled THEN void' = [void EXCEPT ![v].pc = "emit_tx"] ELSE VoidReturns(v)
        /\ UNCHANGED <<intents, overdue, credited, provider, outbox>>

EmitVoidTx(v) ==
    /\ void[v].pc = "emit_tx"
    /\ EmitTransactionStatus(void[v].tx, "cancelled", <<"void", void[v].tx>>)
    /\ void' = [void EXCEPT ![v].pc = "emit_intent"]
    /\ UNCHANGED <<tables, provider>>

(* The intent is read again to be announced.                               *)
EmitVoidIntent(v) ==
    LET i == txs[void[v].tx].intent
    IN  /\ void[v].pc = "emit_intent"
        /\ EmitIntentStatus(i, intents[i].status, <<"void", void[v].tx>>)
        /\ VoidReturns(v)
        /\ UNCHANGED <<tables, provider>>

(* cancelPayment throws, a statement fails or the process dies.            *)
AbortVoid(v) ==
    /\ void[v].pc # "idle"
    /\ VoidReturns(v)
    /\ UNCHANGED <<tables, provider, outbox>>

VoidNext ==
    \E v \in Voids :
        \/ \E p \in Payments, k \in Keys \cup {None} : LoadVoid(v, p, k)
        \/ CheckVoidable(v) \/ CancelAtProvider(v) \/ WriteVoid(v)
        \/ EmitVoidTx(v) \/ EmitVoidIntent(v) \/ AbortVoid(v)
=============================================================================
