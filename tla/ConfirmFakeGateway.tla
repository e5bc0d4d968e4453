------------------------- MODULE ConfirmFakeGateway -------------------------
(***************************************************************************)
(* ConfirmFakeGatewayPayment: outside production, a developer confirms a   *)
(* transaction by hand, by its id; neither its provider nor its direction  *)
(* is looked at.  Confirms are concurrent calls; a call whose reads end it *)
(* (not found, already succeeded, not confirmable) changes nothing and is  *)
(* not a step.                                                             *)
(***************************************************************************)
EXTENDS MerchantOutbox

CONSTANTS Confirms,       \* concurrent confirm calls
          ConfirmTargets, \* the rows whose ids developers post
          Production      \* nodeEnv = 'production'

ASSUME ConfirmAssumption == Production \in BOOLEAN /\ ConfirmTargets \subseteq Txs

(* What keeps refunds from being credited as payments: nobody confirms one. *)
OnlyPaymentsConfirmed == ConfirmTargets \subseteq Payments

VARIABLE confirm

ConfirmCall == [pc: {"idle", "apply", "emit_tx", "emit_intent"},
                tx: Txs \cup {None}, intentStatus: IntentStatuses \cup {"none"}]

ConfirmTypeOK == confirm \in [Confirms -> ConfirmCall]

ConfirmIdle == [pc |-> "idle", tx |-> None, intentStatus |-> "none"]

ConfirmInit == confirm = [c \in Confirms |-> ConfirmIdle]

(* The guard of the whole use case.  (A mutant drops it.)                  *)
MutantAllowedAnywhere == TRUE

ConfirmAllowed == ~Production

LoadConfirm(c, t) ==
    /\ ConfirmAllowed
    /\ confirm[c].pc = "idle"
    /\ txs[t].status \in ConfirmableStatuses
    /\ confirm' = [confirm EXCEPT ![c] = [@ EXCEPT !.pc = "apply", !.tx = t]]
    /\ UNCHANGED <<tables, provider, outbox>>

(* The intent returned by the update is the one announced afterwards.      *)
ApplyConfirm(c) ==
    LET t == confirm[c].tx
    IN  /\ confirm[c].pc = "apply"
        /\ CreditPayment(t)
        /\ confirm' = [confirm EXCEPT ![c] =
                         [@ EXCEPT !.pc = "emit_tx",
                                   !.intentStatus = intents'[txs[t].intent].status]]
        /\ UNCHANGED <<provider, outbox>>

(* A mutant: what was refused is announced like what was applied.          *)
MutantAnnouncesRefused(c) ==
    /\ confirm[c].pc = "apply"
    /\ PaymentOutcome(confirm[c].tx) # "changed"
    /\ confirm' = [confirm EXCEPT ![c] = [@ EXCEPT !.pc = "emit_tx", !.intentStatus = "paid"]]
    /\ UNCHANGED <<tables, provider, outbox>>

(* Already succeeded, overpayment or not confirmable: nothing is written.  *)
ConfirmWithoutEffect(c) ==
    /\ confirm[c].pc = "apply"
    /\ PaymentOutcome(confirm[c].tx) # "changed"
    /\ confirm' = [confirm EXCEPT ![c] = ConfirmIdle]
    /\ UNCHANGED <<tables, provider, outbox>>

EmitConfirmedTx(c) ==
    LET t == confirm[c].tx
    IN  /\ confirm[c].pc = "emit_tx"
        /\ EmitTransactionStatus(t, "succeeded", <<"confirm", None>>)
        /\ confirm' = [confirm EXCEPT ![c].pc = "emit_intent"]
        /\ UNCHANGED <<tables, provider>>

EmitConfirmedIntent(c) ==
    LET t == confirm[c].tx
    IN  /\ confirm[c].pc = "emit_intent"
        /\ EmitIntentStatus(txs[t].intent, confirm[c].intentStatus, <<"confirm", None>>)
        /\ confirm' = [confirm EXCEPT ![c] = ConfirmIdle]
        /\ UNCHANGED <<tables, provider>>

(* A statement fails or the process dies.                                  *)
AbortConfirm(c) ==
    /\ confirm[c].pc # "idle"
    /\ confirm' = [confirm EXCEPT ![c] = ConfirmIdle]
    /\ UNCHANGED <<tables, provider, outbox>>

ConfirmNext ==
    \E c \in Confirms :
        \/ \E t \in ConfirmTargets : LoadConfirm(c, t)
        \/ ApplyConfirm(c) \/ ConfirmWithoutEffect(c)
        \/ EmitConfirmedTx(c) \/ EmitConfirmedIntent(c) \/ AbortConfirm(c)
=============================================================================
