--------------------------- MODULE UseCaseProofs ---------------------------
(***************************************************************************)
(* What every step of the use cases preserves: of the tables, of what is   *)
(* announced, and of the calls in progress.  One part for each of          *)
(* CreateGatewayPayment, ConfirmFakeGatewayPayment,                        *)
(* RefundPaymentTransaction, VoidPaymentTransaction and the expire-stale   *)
(* worker.                                                                 *)
(***************************************************************************)
EXTENDS GatewayPayment, ConfirmFakeGateway, RefundPayment, VoidPayment, ExpireStale,
        ProviderWebhookProofs

(***************************************************************************)
(* CreateGatewayPayment                                                    *)
(***************************************************************************)

(* What a call holds at each of its steps.                                 *)
PayShape(p) ==
    /\ pay[p].pc # "idle" => pay[p].intent \in Intents /\ pay[p].amount \in Amounts
    /\ pay[p].pc \in {"find", "reserve", "mark_failed"} => pay[p].key \in Keys
    /\ pay[p].pc = "complete" => pay[p].key \in Keys
    /\ pay[p].pc \in {"reserve", "charge", "insert"} => intents[pay[p].intent].status # "absent"
    /\ pay[p].pc = "insert" => pay[p].result # "none"
    /\ pay[p].pc \in {"apply", "complete"} => TxExists(p)

GatewayInv == GatewayTypeOK /\ \A p \in Payments : PayShape(p)

(* No call has arrived.                                                    *)
LEMMA GatewayStart == GatewayInit => GatewayInv
<1> SUFFICES ASSUME GatewayInit PROVE GatewayInv
  OBVIOUS
<1>1. GatewayTypeOK
  BY DEF GatewayInit, GatewayTypeOK, PayCall, KeyRow
<1>2. \A p \in Payments : PayShape(p)
  BY DEF GatewayInit, PayShape
<1> QED
  BY <1>1, <1>2 DEF GatewayInv

(* Other use cases disturb no call.                                        *)
LEMMA GatewayStable ==
  ASSUME GatewayInv, TablesTypeOK, Grows, UNCHANGED gatewayVars
  PROVE  GatewayInv'
<1>1. GatewayTypeOK'
  BY DEF GatewayInv, GatewayTypeOK, gatewayVars
<1>2. ASSUME NEW p \in Payments PROVE PayShape(p)'
  BY <1>2 DEF GatewayInv, PayShape, gatewayVars, Grows, Txs
<1> QED
  BY <1>1, <1>2 DEF GatewayInv

(* A step of one call that writes a well-shaped row for it.                *)
LEMMA PayCallWritten ==
  ASSUME GatewayInv, Grows, keys' \in [Keys -> KeyRow],
         NEW p \in Payments, NEW new \in PayCall, pay' = [pay EXCEPT ![p] = new],
         PayShape(p)'
  PROVE  GatewayInv'
<1>1. GatewayTypeOK'
  BY DEF GatewayInv, GatewayTypeOK
<1>2. ASSUME NEW q \in Payments, q # p PROVE PayShape(q)'
  <2>1. pay'[q] = pay[q]
    BY <1>2 DEF GatewayInv, GatewayTypeOK
  <2> QED
    BY <1>2, <2>1 DEF GatewayInv, PayShape, Grows, Txs
<1> QED
  BY <1>1, <1>2 DEF GatewayInv

(* A step of one call that only moves it on.                               *)
LEMMA GotoKeeps ==
  ASSUME GatewayInv, Grows, keys' \in [Keys -> KeyRow],
         NEW p \in Payments, NEW step \in PaySteps \cup PayEnds, Goto(p, step),
         pay[p].pc # "idle",
         step \in {"find", "reserve", "mark_failed", "complete"} => pay[p].key \in Keys,
         step \in {"reserve", "charge", "insert"} => intents'[pay[p].intent].status # "absent",
         step = "insert" => pay[p].result # "none",
         step \in {"apply", "complete"} => TxExists(p)'
  PROVE  GatewayInv'
<1> DEFINE new == [pay[p] EXCEPT !.pc = step]
<1>1. pay[p] \in PayCall /\ PayShape(p)
  BY DEF GatewayInv, GatewayTypeOK
<1>2. pay' = [pay EXCEPT ![p] = new]
  BY DEF Goto
<1>3. new \in PayCall
  BY <1>1 DEF PayCall
<1>4. /\ new.pc = step /\ new.intent = pay[p].intent /\ new.amount = pay[p].amount
      /\ new.key = pay[p].key /\ new.result = pay[p].result
  BY <1>1 DEF PayCall
<1>5. pay'[p] = new
  BY <1>2 DEF GatewayInv, GatewayTypeOK
<1> HIDE DEF new
<1>6. PayShape(p)'
  BY <1>1, <1>4, <1>5 DEF PayShape
<1> QED
  BY <1>2, <1>3, <1>6, PayCallWritten

(* A step of one call that ends it with the stored response.               *)
LEMMA ReplayKeeps ==
  ASSUME GatewayInv, Grows, keys' \in [Keys -> KeyRow],
         NEW p \in Payments, NEW k \in Keys, Replay(p, k), pay[p].pc # "idle"
  PROVE  GatewayInv'
<1> DEFINE new == [pay[p] EXCEPT !.pc = "replayed", !.reply = keys[k].tx]
<1>1. pay[p] \in PayCall /\ PayShape(p) /\ keys[k].tx \in Payments \cup {None}
  BY DEF GatewayInv, GatewayTypeOK, KeyRow
<1>2. pay' = [pay EXCEPT ![p] = new]
  BY DEF Replay
<1>3. new \in PayCall
  BY <1>1 DEF PayCall, PayEnds
<1>4. new.pc = "replayed" /\ new.intent = pay[p].intent /\ new.amount = pay[p].amount
  BY <1>1 DEF PayCall
<1>5. pay'[p] = new
  BY <1>2 DEF GatewayInv, GatewayTypeOK
<1> HIDE DEF new
<1>6. PayShape(p)'
  BY <1>1, <1>4, <1>5 DEF PayShape
<1> QED
  BY <1>2, <1>3, <1>6, PayCallWritten

(* Every step of the use case preserves the tables, the types of the       *)
(* provider's books, and the shape of its calls.                           *)
LEMMA GatewayKeeps ==
  ASSUME TablesInv, ProviderTypeOK, GatewayInv, GatewayNext
  PROVE  TablesInv' /\ Grows /\ Lawful /\ NoRefund /\ ProviderTypeOK' /\ GatewayInv'
<1>0. PICK p \in Payments :
        \/ \E i \in Intents, a \in Amounts, k \in Keys \cup {None} : ReceivePayment(p, i, a, k)
        \/ FindKey(p) \/ AcceptPayment(p) \/ RejectPayment(p) \/ ReserveKey(p)
        \/ ChargeProvider(p) \/ ProviderThrows(p) \/ MarkKeyFailed(p)
        \/ InsertPayment(p) \/ ApplyPayment(p) \/ ApplyRefused(p)
        \/ CompleteKey(p) \/ AbortPayment(p)
  BY DEF GatewayNext
<1>1. /\ pay[p] \in PayCall /\ PayShape(p) /\ GatewayTypeOK
      /\ \A k \in Keys : keys[k] \in KeyRow
  BY DEF GatewayInv, GatewayTypeOK
<1>2. None \notin Keys /\ p \in Txs /\ Amounts \subseteq Nat
  BY TablesAssumption DEF Txs
<1>3. UNCHANGED tables => TablesInv' /\ Grows /\ Lawful /\ NoRefund
  BY TablesStutter
<1>4. UNCHANGED provider => ProviderTypeOK'
  BY DEF ProviderTypeOK, provider
<1>5. UNCHANGED keys => keys' \in [Keys -> KeyRow]
  BY <1>1 DEF GatewayTypeOK
<1>6. ASSUME NEW i \in Intents, NEW a \in Amounts, NEW k \in Keys \cup {None},
             ReceivePayment(p, i, a, k)
      PROVE  TablesInv' /\ Grows /\ Lawful /\ NoRefund /\ ProviderTypeOK' /\ GatewayInv'
  <2> DEFINE new == [pay[p] EXCEPT !.pc = IF k = None THEN "load" ELSE "find",
                                   !.intent = i, !.amount = a, !.key = k]
  <2>1. pay' = [pay EXCEPT ![p] = new] /\ UNCHANGED <<tables, provider, keys>>
    BY <1>6 DEF ReceivePayment
  <2>2. new \in PayCall
    BY <1>1, <1>2 DEF PayCall, PaySteps
  <2>3. /\ new.pc = (IF k = None THEN "load" ELSE "find")
        /\ new.intent = i /\ new.amount = a /\ new.key = k
    BY <1>1 DEF PayCall
  <2>4. pay'[p] = new
    BY <1>1, <2>1 DEF GatewayTypeOK
  <2> HIDE DEF new
  <2>5. PayShape(p)'
    BY <2>3, <2>4 DEF PayShape
  <2> QED
    BY <1>3, <1>4, <1>5, <2>1, <2>2, <2>5, PayCallWritten
<1>7. CASE FindKey(p)
  <2> DEFINE k == pay[p].key
  <2>1. /\ pay[p].pc = "find" /\ UNCHANGED <<tables, provider, keys>>
        /\ k \in Keys /\ keys[k] \in KeyRow
    BY <1>1, <1>7 DEF FindKey, PayShape
  <2>2. \/ \E step \in {"load", "previously_failed", "conflict"} : Goto(p, step)
        \/ Replay(p, k)
    BY <1>7, <2>1 DEF FindKey, KeyRow
  <2>3. CASE \E step \in {"load", "previously_failed", "conflict"} : Goto(p, step)
    <3>1. PICK step \in {"load", "previously_failed", "conflict"} : Goto(p, step)
      BY <2>3
    <3> QED
      BY <1>3, <1>4, <1>5, <2>1, <3>1, GotoKeeps DEF PaySteps, PayEnds
  <2>4. CASE Replay(p, k)
    BY <1>1, <1>3, <1>4, <1>5, <2>1, <2>4, ReplayKeeps
  <2> QED
    BY <2>2, <2>3, <2>4
<1>8. CASE AcceptPayment(p)
  <2>1. /\ pay[p].pc = "load" /\ UNCHANGED <<tables, provider, keys>>
        /\ intents[pay[p].intent].status # "absent"
        /\ Goto(p, IF pay[p].key = None THEN "charge" ELSE "reserve")
    BY <1>8 DEF AcceptPayment
  <2>2. pay[p].key \in Keys \cup {None} /\ intents' = intents
    BY <1>1, <2>1 DEF PayCall, tables
  <2> DEFINE step == IF pay[p].key = None THEN "charge" ELSE "reserve"
  <2>3. step = "charge" \/ (step = "reserve" /\ pay[p].key \in Keys)
    BY <2>2
  <2> HIDE DEF step
  <2>4. Goto(p, step)
    BY <2>1 DEF step
  <2> QED
    BY <1>3, <1>4, <1>5, <2>1, <2>2, <2>3, <2>4, GotoKeeps DEF PaySteps
<1>9. CASE RejectPayment(p)
  BY <1>3, <1>4, <1>5, <1>9, GotoKeeps DEF RejectPayment, PayEnds
<1>10. CASE ReserveKey(p)
  <2> DEFINE k == pay[p].key
  <2>1. /\ pay[p].pc = "reserve" /\ UNCHANGED <<tables, provider>>
        /\ k \in Keys /\ keys[k] \in KeyRow
        /\ intents'[pay[p].intent].status # "absent"
    BY <1>1, <1>10 DEF ReserveKey, PayShape, tables
  <2>2. CASE KeyIsFree(k)
    <3> DEFINE row == [status |-> "processing", intent |-> pay[p].intent,
                       amount |-> pay[p].amount, tx |-> None]
    <3>1. keys' = [keys EXCEPT ![k] = row] /\ Goto(p, "charge")
      BY <1>10, <2>2 DEF ReserveKey
    <3>2. row \in KeyRow
      BY <1>1 DEF KeyRow, PayCall
    <3> HIDE DEF row
    <3>3. keys' \in [Keys -> KeyRow]
      BY <1>1, <2>1, <3>1, <3>2 DEF GatewayTypeOK
    <3> QED
      BY <1>3, <1>4, <2>1, <3>1, <3>3, GotoKeeps DEF PaySteps
  <2>3. CASE ~KeyIsFree(k)
    <3>1. UNCHANGED keys
      BY <1>10, <2>3 DEF ReserveKey
    <3>2. \/ \E step \in {"conflict", "in_progress", "previously_failed"} : Goto(p, step)
          \/ Replay(p, k)
      BY <1>10, <2>1, <2>3 DEF ReserveKey, KeyRow, KeyIsFree
    <3>3. CASE Replay(p, k)
      BY <1>1, <1>3, <1>4, <1>5, <2>1, <3>1, <3>3, ReplayKeeps
    <3>4. CASE \E step \in {"conflict", "in_progress", "previously_failed"} : Goto(p, step)
      <4>1. PICK step \in {"conflict", "in_progress", "previously_failed"} : Goto(p, step)
        BY <3>4
      <4> QED
        BY <1>3, <1>4, <1>5, <2>1, <3>1, <4>1, GotoKeeps DEF PayEnds
    <3> QED
      BY <3>2, <3>3, <3>4
  <2> QED
    BY <2>2, <2>3
<1>11. CASE ChargeProvider(p)
  <2>1. PICK answer \in {"requires_action", "failed", "succeeded"} :
          /\ pay[p].pc = "charge"
          /\ charge' = [charge EXCEPT ![p] = IF answer = "requires_action"
                                             THEN "open" ELSE answer]
          /\ pay' = [pay EXCEPT ![p] = [pay[p] EXCEPT !.pc = "insert", !.result = answer]]
          /\ UNCHANGED <<tables, returned, keys>>
    BY <1>11 DEF ChargeProvider, ChargeAnswers, ManualCharge, FakeGatewayCharge, XenditCharge
  <2> DEFINE new == [pay[p] EXCEPT !.pc = "insert", !.result = answer]
  <2>2. new \in PayCall
    BY <1>1 DEF PayCall, PaySteps
  <2>3. /\ new.pc = "insert" /\ new.intent = pay[p].intent /\ new.amount = pay[p].amount
        /\ new.key = pay[p].key /\ new.result = answer
    BY <1>1 DEF PayCall
  <2>4. pay'[p] = new
    BY <1>1, <2>1 DEF GatewayTypeOK
  <2> HIDE DEF new
  <2>5. PayShape(p)'
    BY <1>1, <2>1, <2>3, <2>4 DEF PayShape, tables
  <2>6. ProviderTypeOK'
    BY <2>1 DEF ProviderTypeOK, ChargeStatuses
  <2> QED
    BY <1>3, <1>5, <2>1, <2>2, <2>5, <2>6, PayCallWritten DEF new
<1>12. CASE ProviderThrows(p)
  <2>1. /\ pay[p].pc = "charge" /\ UNCHANGED <<tables, returned, keys>>
        /\ charge' \in {charge, [charge EXCEPT ![p] = "open"]}
        /\ Goto(p, IF pay[p].key = None THEN "provider_error" ELSE "mark_failed")
    BY <1>12 DEF ProviderThrows
  <2>2. ProviderTypeOK'
    BY <2>1 DEF ProviderTypeOK, ChargeStatuses
  <2> DEFINE step == IF pay[p].key = None THEN "provider_error" ELSE "mark_failed"
  <2>3. step = "provider_error" \/ (step = "mark_failed" /\ pay[p].key \in Keys)
    BY <1>1 DEF PayCall
  <2> HIDE DEF step
  <2>4. Goto(p, step)
    BY <2>1 DEF step
  <2> QED
    BY <1>3, <1>5, <2>1, <2>2, <2>3, <2>4, GotoKeeps DEF PaySteps, PayEnds
<1>13. CASE MarkKeyFailed(p)
  <2>1. /\ pay[p].pc = "mark_failed" /\ UNCHANGED <<tables, provider>> /\ pay[p].key \in Keys
        /\ keys' = [keys EXCEPT ![pay[p].key].status = "failed"] /\ Goto(p, "provider_error")
    BY <1>1, <1>13 DEF MarkKeyFailed, PayShape
  <2>2. keys' \in [Keys -> KeyRow]
    BY <1>1, <2>1 DEF GatewayTypeOK, KeyRow
  <2> QED
    BY <1>3, <1>4, <2>1, <2>2, GotoKeeps DEF PayEnds
<1>14. CASE InsertPayment(p)
  <2> DEFINE row == [status |-> InitialStatus(p), amount |-> pay[p].amount,
                     intent |-> pay[p].intent, parent |-> None, key |-> pay[p].key,
                     routable |-> TRUE]
             step == CASE pay[p].result = "succeeded" -> "apply"
                       [] pay[p].result # "succeeded" /\ pay[p].key # None -> "complete"
                       [] pay[p].result # "succeeded" /\ pay[p].key = None -> "done"
  <2>1. pay[p].pc = "insert" /\ InsertTx(p, row) /\ Goto(p, step) /\ UNCHANGED <<provider, keys>>
    BY <1>14 DEF InsertPayment
  <2>2. /\ pay[p].intent \in Intents /\ pay[p].amount \in Amounts
        /\ intents[pay[p].intent].status # "absent"
        /\ pay[p].result \in {"requires_action", "failed", "succeeded"}
    BY <1>1, <2>1 DEF PayShape, PayCall
  <2>3. InitialStatus(p) \in {"pending", "requires_action", "failed"}
    BY <2>2 DEF InitialStatus
  <2>4. row \in TxRow
    BY <1>1, <1>2, <2>2, <2>3 DEF TxRow, TransactionStatuses, PayCall
  <2>5. /\ row.status = InitialStatus(p) /\ row.amount = pay[p].amount
        /\ row.intent = pay[p].intent
    OBVIOUS
  <2>6. \/ step = "apply" \/ step = "done"
        \/ step = "complete" /\ pay[p].key \in Keys
    BY <1>1 DEF PayCall
  <2> HIDE DEF row, step
  <2>7. TablesInv' /\ Grows /\ Lawful /\ NoRefund
    BY <1>2, <2>1, <2>2, <2>3, <2>4, <2>5, InsertTxKeeps
  <2>8. TxExists(p)'
    BY <1>2, <2>1, <2>3, <2>5 DEF InsertTx, TxExists, TablesInv, TablesTypeOK
  <2> QED
    BY <1>4, <1>5, <2>1, <2>6, <2>7, <2>8, GotoKeeps DEF PaySteps, PayEnds
<1>15. CASE ApplyPayment(p)
  <2> DEFINE step == IF pay[p].key = None THEN "done" ELSE "complete"
  <2>1. /\ pay[p].pc = "apply" /\ UNCHANGED <<provider, keys>> /\ TxExists(p) /\ Goto(p, step)
        /\ CreditPayment(p) \/ UNCHANGED tables
    BY <1>1, <1>15 DEF ApplyPayment, PayShape
  <2>2. TablesInv' /\ Grows /\ Lawful /\ NoRefund
    BY <1>3, <2>1, CreditPaymentKeeps
  <2>3. step = "done" \/ (step = "complete" /\ pay[p].key \in Keys)
    BY <1>1 DEF PayCall
  <2> HIDE DEF step
  <2>4. TxExists(p)'
    BY <1>2, <2>1, <2>2 DEF Grows
  <2> QED
    BY <1>4, <1>5, <2>1, <2>2, <2>3, <2>4, GotoKeeps DEF PaySteps, PayEnds
<1>16. CASE ApplyRefused(p)
  BY <1>3, <1>4, <1>5, <1>16, GotoKeeps DEF ApplyRefused, PayEnds
<1>17. CASE CompleteKey(p)
  <2>1. /\ pay[p].pc = "complete" /\ UNCHANGED <<tables, provider>> /\ pay[p].key \in Keys
        /\ keys' = [keys EXCEPT ![pay[p].key] = [@ EXCEPT !.status = "completed", !.tx = p]]
        /\ Goto(p, "done")
    BY <1>1, <1>17 DEF CompleteKey, PayShape
  <2>2. keys' \in [Keys -> KeyRow]
    BY <1>1, <2>1 DEF GatewayTypeOK, KeyRow
  <2> QED
    BY <1>3, <1>4, <2>1, <2>2, GotoKeeps DEF PayEnds
<1>18. CASE AbortPayment(p)
  BY <1>3, <1>4, <1>5, <1>18, GotoKeeps DEF AbortPayment, PaySteps, PayEnds
<1> QED
  BY <1>0, <1>6, <1>7, <1>8, <1>9, <1>10, <1>11, <1>12, <1>13, <1>14, <1>15, <1>16, <1>17, <1>18
-----------------------------------------------------------------------------
(***************************************************************************)
(* ConfirmFakeGatewayPayment                                               *)
(***************************************************************************)
ConfirmShape(c) ==
    /\ confirm[c].pc # "idle" => confirm[c].tx \in Payments /\ TxExists(confirm[c].tx)
    /\ confirm[c].pc \in {"emit_tx", "emit_intent"} => confirm[c].intentStatus \in IntentStatuses

(* The first conjunct is an assumption of every theorem of the system: a   *)
(* refund that is confirmed is credited as a payment.                      *)
ConfirmInv == OnlyPaymentsConfirmed /\ ConfirmTypeOK /\ \A c \in Confirms : ConfirmShape(c)

(* No confirm is in progress.                                              *)
LEMMA ConfirmStart == OnlyPaymentsConfirmed /\ ConfirmInit => ConfirmInv
  BY DEF ConfirmInit, ConfirmInv, ConfirmTypeOK, ConfirmCall, ConfirmIdle, ConfirmShape

(* Other use cases disturb no confirm.                                     *)
LEMMA ConfirmStable ==
  ASSUME ConfirmInv, Grows, UNCHANGED confirm
  PROVE  ConfirmInv'
  BY DEF ConfirmInv, ConfirmTypeOK, ConfirmShape, Grows, Txs, OnlyPaymentsConfirmed

(* A step that writes a well-shaped row for one call.                      *)
LEMMA ConfirmWritten ==
  ASSUME ConfirmInv, Grows, NEW c \in Confirms, NEW new \in ConfirmCall,
         confirm' = [confirm EXCEPT ![c] = new],
         new.pc # "idle" => new.tx \in Payments /\ txs'[new.tx].status # "absent",
         new.pc \in {"emit_tx", "emit_intent"} => new.intentStatus \in IntentStatuses
  PROVE  ConfirmInv'
<1>1. ConfirmTypeOK' /\ confirm'[c] = new
  BY DEF ConfirmInv, ConfirmTypeOK
<1>2. ASSUME NEW d \in Confirms PROVE ConfirmShape(d)'
  <2>1. CASE d = c
    BY <1>1, <2>1 DEF ConfirmShape, TxExists
  <2>2. CASE d # c
    <3>1. confirm'[d] = confirm[d]
      BY <2>2 DEF ConfirmInv, ConfirmTypeOK
    <3> QED
      BY <3>1 DEF ConfirmInv, ConfirmShape, Grows, Txs
  <2> QED
    BY <2>1, <2>2
<1> QED
  BY <1>1, <1>2 DEF ConfirmInv, OnlyPaymentsConfirmed

(* Every step of a confirm preserves the tables and the outbox.            *)
LEMMA ConfirmKeeps ==
  ASSUME TablesInv, ProviderTypeOK, OutboxTypeOK, ConfirmInv, ConfirmNext
  PROVE  TablesInv' /\ Grows /\ Lawful /\ NoRefund /\ ProviderTypeOK' /\ OutboxTypeOK' /\ ConfirmInv'
<1>0. PICK c \in Confirms :
        \/ \E p \in ConfirmTargets : LoadConfirm(c, p)
        \/ ApplyConfirm(c) \/ ConfirmWithoutEffect(c)
        \/ EmitConfirmedTx(c) \/ EmitConfirmedIntent(c) \/ AbortConfirm(c)
  BY DEF ConfirmNext
<1>1. confirm[c] \in ConfirmCall /\ ConfirmShape(c)
  BY DEF ConfirmInv, ConfirmTypeOK
<1>2. UNCHANGED tables => TablesInv' /\ Grows /\ Lawful /\ NoRefund
  BY TablesStutter
<1>3. UNCHANGED provider => ProviderTypeOK'
  BY DEF ProviderTypeOK, provider
<1>4. UNCHANGED outbox => OutboxTypeOK'
  BY DEF OutboxTypeOK
<1>5. ConfirmIdle \in ConfirmCall /\ ConfirmIdle.pc = "idle"
  BY DEF ConfirmIdle, ConfirmCall
<1>6. <<"confirm", None>> \in Causes
  BY DEF Causes
<1>7. ASSUME NEW p \in ConfirmTargets, LoadConfirm(c, p)
      PROVE  TablesInv' /\ Grows /\ Lawful /\ NoRefund /\ ProviderTypeOK' /\ OutboxTypeOK' /\ ConfirmInv'
  <2> DEFINE new == [confirm[c] EXCEPT !.pc = "apply", !.tx = p]
  <2>1. confirm' = [confirm EXCEPT ![c] = new] /\ UNCHANGED <<tables, provider, outbox>>
    BY <1>7 DEF LoadConfirm
  <2>2. new \in ConfirmCall /\ new.pc = "apply" /\ new.tx = p /\ p \in Payments
    BY <1>1 DEF ConfirmCall, ConfirmInv, OnlyPaymentsConfirmed, Txs
  <2>3. txs'[p].status # "absent"
    BY <1>7 DEF LoadConfirm, ConfirmableStatuses, tables
  <2> QED
    BY <1>2, <1>3, <1>4, <2>1, <2>2, <2>3, ConfirmWritten
<1>8. CASE ApplyConfirm(c)
  <2> DEFINE p == confirm[c].tx
             status == intents'[txs[p].intent].status
             new == [confirm[c] EXCEPT !.pc = "emit_tx", !.intentStatus = status]
  <2>1. /\ confirm[c].pc = "apply" /\ CreditPayment(p) /\ UNCHANGED <<provider, outbox>>
        /\ confirm' = [confirm EXCEPT ![c] = new] /\ p \in Payments
    BY <1>1, <1>8 DEF ApplyConfirm, ConfirmShape
  <2>2. TablesInv' /\ Grows /\ Lawful /\ NoRefund /\ TxExists(p) /\ status \in IntentStatuses
    BY <2>1, CreditPaymentKeeps
  <2> HIDE DEF status
  <2>3. new \in ConfirmCall /\ new.pc = "emit_tx" /\ new.tx = p /\ new.intentStatus = status
    BY <1>1, <2>2 DEF ConfirmCall
  <2>4. txs'[p].status # "absent"
    BY <2>1, <2>2 DEF Grows, Txs, TxExists
  <2> HIDE DEF new, p
  <2> QED
    BY <1>3, <1>4, <2>1, <2>2, <2>3, <2>4, ConfirmWritten
<1>9. CASE ConfirmWithoutEffect(c)
  BY <1>2, <1>3, <1>4, <1>5, <1>9, ConfirmWritten DEF ConfirmWithoutEffect
<1>10. CASE EmitConfirmedTx(c)
  <2> DEFINE new == [confirm[c] EXCEPT !.pc = "emit_intent"]
  <2>1. /\ confirm[c].pc = "emit_tx" /\ confirm' = [confirm EXCEPT ![c] = new]
        /\ EmitTransactionStatus(confirm[c].tx, "succeeded", <<"confirm", None>>)
        /\ UNCHANGED <<tables, provider>>
    BY <1>10 DEF EmitConfirmedTx
  <2>2. /\ new \in ConfirmCall /\ new.pc = "emit_intent" /\ new.tx = confirm[c].tx
        /\ new.intentStatus = confirm[c].intentStatus
    BY <1>1 DEF ConfirmCall
  <2>3. /\ new.tx \in Payments /\ txs'[new.tx].status # "absent" /\ new.intentStatus \in IntentStatuses
    BY <1>1, <2>1, <2>2 DEF ConfirmShape, TxExists, tables
  <2>4. OutboxTypeOK'
    BY <1>6, <2>1, <2>2, <2>3, EmitTxKeeps DEF Txs
  <2> HIDE DEF new
  <2> QED
    BY <1>2, <1>3, <2>1, <2>2, <2>3, <2>4, ConfirmWritten
<1>11. CASE EmitConfirmedIntent(c)
  <2>1. /\ confirm[c].pc = "emit_intent" /\ confirm' = [confirm EXCEPT ![c] = ConfirmIdle]
        /\ EmitIntentStatus(txs[confirm[c].tx].intent, confirm[c].intentStatus, <<"confirm", None>>)
        /\ UNCHANGED <<tables, provider>>
    BY <1>11 DEF EmitConfirmedIntent
  <2>2. txs[confirm[c].tx].intent \in Intents /\ confirm[c].intentStatus \in IntentStatuses
    BY <1>1, <2>1 DEF ConfirmShape, TablesInv, RowsWellFormed, Txs
  <2>3. OutboxTypeOK'
    BY <1>6, <2>1, <2>2, EmitIntentKeeps
  <2> QED
    BY <1>2, <1>3, <1>5, <2>1, <2>3, ConfirmWritten
<1>12. CASE AbortConfirm(c)
  BY <1>2, <1>3, <1>4, <1>5, <1>12, ConfirmWritten DEF AbortConfirm
<1> QED
  BY <1>0, <1>7, <1>8, <1>9, <1>10, <1>11, <1>12
-----------------------------------------------------------------------------
(***************************************************************************)
(* VoidPaymentTransaction                                                  *)
(***************************************************************************)
VoidShape(v) ==
    /\ void[v].pc # "idle" => void[v].tx \in Payments /\ TxExists(void[v].tx)
    /\ void[v].pc = "write" => void[v].result # "none"

VoidInv == VoidTypeOK /\ \A v \in Voids : VoidShape(v)

(* No void is in progress.                                                 *)
LEMMA VoidStart == VoidInit => VoidInv
  BY DEF VoidInit, VoidInv, VoidTypeOK, VoidCall, VoidIdle, VoidShape

(* Other use cases disturb no void.                                        *)
LEMMA VoidStable ==
  ASSUME VoidInv, Grows, UNCHANGED void
  PROVE  VoidInv'
  BY DEF VoidInv, VoidTypeOK, VoidShape, Grows, Txs

(* A step that writes a well-shaped row for one call.                      *)
LEMMA VoidWritten ==
  ASSUME VoidInv, Grows, NEW v \in Voids, NEW new \in VoidCall,
         void' = [void EXCEPT ![v] = new],
         new.pc # "idle" => new.tx \in Payments /\ txs'[new.tx].status # "absent",
         new.pc = "write" => new.result # "none"
  PROVE  VoidInv'
<1>1. VoidTypeOK' /\ void'[v] = new
  BY DEF VoidInv, VoidTypeOK
<1>2. ASSUME NEW w \in Voids PROVE VoidShape(w)'
  <2>1. CASE w = v
    BY <1>1, <2>1 DEF VoidShape, TxExists
  <2>2. CASE w # v
    <3>1. void'[w] = void[w]
      BY <2>2 DEF VoidInv, VoidTypeOK
    <3> QED
      BY <3>1 DEF VoidInv, VoidShape, Grows, Txs
  <2> QED
    BY <2>1, <2>2
<1> QED
  BY <1>1, <1>2 DEF VoidInv

(* A step that only moves a void on.                                       *)
LEMMA VoidMoved ==
  ASSUME VoidInv, Grows, NEW v \in Voids, NEW step \in {"cancel", "emit_tx", "emit_intent"},
         void' = [void EXCEPT ![v].pc = step], void[v].pc # "idle"
  PROVE  VoidInv'
<1> DEFINE new == [void[v] EXCEPT !.pc = step]
<1>1. void[v] \in VoidCall /\ VoidShape(v) /\ void' = [void EXCEPT ![v] = new]
  BY DEF VoidInv, VoidTypeOK
<1>2. new \in VoidCall /\ new.pc = step /\ new.tx = void[v].tx
  BY <1>1 DEF VoidCall
<1>3. new.tx \in Payments /\ txs'[new.tx].status # "absent"
  BY <1>1, <1>2 DEF VoidShape, Grows, Txs, TxExists
<1> HIDE DEF new
<1> QED
  BY <1>1, <1>2, <1>3, VoidWritten

(* Every step of a void preserves the tables and the outbox.               *)
LEMMA VoidKeeps ==
  ASSUME TablesInv, ProviderTypeOK, OutboxTypeOK, VoidInv, VoidNext
  PROVE  TablesInv' /\ Grows /\ Lawful /\ NoRefund /\ ProviderTypeOK' /\ OutboxTypeOK' /\ VoidInv'
<1>0. PICK v \in Voids :
        \/ \E p \in Payments, k \in Keys \cup {None} : LoadVoid(v, p, k)
        \/ CheckVoidable(v) \/ CancelAtProvider(v) \/ WriteVoid(v)
        \/ EmitVoidTx(v) \/ EmitVoidIntent(v) \/ AbortVoid(v)
  BY DEF VoidNext
<1>1. void[v] \in VoidCall /\ VoidShape(v)
  BY DEF VoidInv, VoidTypeOK
<1>2. UNCHANGED tables => TablesInv' /\ Grows /\ Lawful /\ NoRefund
  BY TablesStutter
<1>3. UNCHANGED provider => ProviderTypeOK'
  BY DEF ProviderTypeOK, provider
<1>4. UNCHANGED outbox => OutboxTypeOK'
  BY DEF OutboxTypeOK
<1>5. Grows /\ VoidReturns(v) => VoidInv'
  <2>1. VoidIdle \in VoidCall /\ VoidIdle.pc = "idle"
    BY DEF VoidIdle, VoidCall
  <2> QED
    BY <2>1, VoidWritten DEF VoidReturns
<1>6. void[v].tx \in Payments => <<"void", void[v].tx>> \in Causes
  BY DEF Causes
<1>7. ASSUME NEW p \in Payments, NEW k \in Keys \cup {None}, LoadVoid(v, p, k)
      PROVE  TablesInv' /\ Grows /\ Lawful /\ NoRefund /\ ProviderTypeOK' /\ OutboxTypeOK' /\ VoidInv'
  <2> DEFINE new == [void[v] EXCEPT !.pc = "find", !.tx = p, !.key = k, !.seen = txs[p].status]
  <2>1. void' = [void EXCEPT ![v] = new] /\ UNCHANGED <<tables, provider, outbox>> /\ TxExists(p)
    BY <1>7 DEF LoadVoid
  <2>2. txs[p].status \in TransactionStatuses
    BY <2>1 DEF TablesInv, TablesTypeOK, TxRow, TxExists, Txs
  <2>3. new \in VoidCall /\ new.pc = "find" /\ new.tx = p
    BY <1>1, <2>2 DEF VoidCall
  <2>4. txs'[p].status # "absent"
    BY <2>1 DEF TxExists, tables
  <2> HIDE DEF new
  <2> QED
    BY <1>2, <1>3, <1>4, <2>1, <2>3, <2>4, VoidWritten
<1>8. CASE CheckVoidable(v)
  BY <1>2, <1>3, <1>4, <1>5, <1>8, VoidMoved DEF CheckVoidable
<1>9. CASE CancelAtProvider(v)
  <2>0. PICK a \in CancelAnswers :
          /\ void[v].pc = "cancel"
          /\ charge' = IF a.status = "cancelled" /\ charge[void[v].tx] = "open"
                       THEN [charge EXCEPT ![void[v].tx] = "cancelled"] ELSE charge
          /\ void' = [void EXCEPT ![v] = [void[v] EXCEPT !.pc = "write", !.result = a.status,
                                                         !.keepsRef = a.keeps]]
          /\ UNCHANGED <<tables, returned, outbox>>
    BY <1>9 DEF CancelAtProvider
  <2>a. a.status \in {"cancelled", "failed"} /\ a.keeps \in BOOLEAN
    <3>1. CASE a \in RefusedCancel
      <4>1. PICK keeps \in BOOLEAN : a = [status |-> "failed", keeps |-> keeps]
        BY <3>1 DEF RefusedCancel
      <4> QED
        BY <4>1
    <3>2. CASE a = ManualCancel
      <4>1. a.status = "cancelled"
        BY <3>2 DEF ManualCancel
      <4>2. a.keeps = TRUE
        BY <3>2, Zenon DEF ManualCancel
      <4> QED
        BY <4>1, <4>2
    <3>3. CASE a = FakeGatewayCancel
      <4>1. a.status = "cancelled"
        BY <3>3 DEF FakeGatewayCancel
      <4>2. a.keeps = FALSE
        BY <3>3, Zenon DEF FakeGatewayCancel
      <4> QED
        BY <4>1, <4>2
    <3> QED
      BY <3>1, <3>2, <3>3 DEF CancelAnswers
  <2>1. PICK answer \in {"cancelled", "failed"}, keeps \in BOOLEAN :
          /\ void[v].pc = "cancel"
          /\ charge' = IF answer = "cancelled" /\ charge[void[v].tx] = "open"
                       THEN [charge EXCEPT ![void[v].tx] = "cancelled"] ELSE charge
          /\ void' = [void EXCEPT ![v] = [void[v] EXCEPT !.pc = "write", !.result = answer,
                                                         !.keepsRef = keeps]]
          /\ UNCHANGED <<tables, returned, outbox>>
    BY <2>0, <2>a
  <2> DEFINE new == [void[v] EXCEPT !.pc = "write", !.result = answer, !.keepsRef = keeps]
  <2>2. new \in VoidCall /\ new.pc = "write" /\ new.tx = void[v].tx /\ new.result = answer
    BY <1>1 DEF VoidCall
  <2>3. new.tx \in Payments /\ txs'[new.tx].status # "absent"
    BY <1>1, <2>1, <2>2 DEF VoidShape, TxExists, tables
  <2>4. ProviderTypeOK'
    BY <1>1, <2>1 DEF ProviderTypeOK, ChargeStatuses
  <2>5. void' = [void EXCEPT ![v] = new]
    BY <2>1
  <2> HIDE DEF new
  <2> QED
    BY <1>2, <1>4, <2>1, <2>2, <2>3, <2>4, <2>5, VoidWritten
<1>10. CASE WriteVoid(v)
  <2> DEFINE p == void[v].tx
             cancelled == void[v].result = "cancelled"
             key == IF cancelled /\ void[v].key # None THEN void[v].key ELSE txs[p].key
             row == [txs[p] EXCEPT !.status = void[v].result, !.key = key,
                                   !.routable = txs[p].routable /\ void[v].keepsRef]
  <2>1. /\ void[v].pc = "write" /\ p \in Payments /\ p \in Txs /\ TxExists(p)
        /\ void[v].result \in {"cancelled", "failed"}
    BY <1>1, <1>10 DEF WriteVoid, VoidShape, VoidCall, Txs
  <2>2. txs[p] \in TxRow
    BY <2>1 DEF TablesInv, TablesTypeOK
  <2>3. /\ txs' = [txs EXCEPT ![p] = row]
        /\ UNCHANGED <<intents, overdue, credited, provider, outbox>>
        /\ IF cancelled THEN void' = [void EXCEPT ![v].pc = "emit_tx"] ELSE VoidReturns(v)
    <3>1. txs' = [txs EXCEPT ![p] = row]
      BY <1>10, Zenon DEF WriteVoid
    <3>2. /\ UNCHANGED <<intents, overdue, credited, provider, outbox>>
          /\ IF cancelled THEN void' = [void EXCEPT ![v].pc = "emit_tx"] ELSE VoidReturns(v)
      BY <1>10 DEF WriteVoid
    <3> QED
      BY <3>1, <3>2
  <2>4. key \in Keys \cup {None} /\ void[v].result \in TransactionStatuses \cup {"absent"}
    BY <1>1, <2>1, <2>2 DEF VoidCall, TxRow, TransactionStatuses
  <2>5. (txs[p].routable /\ void[v].keepsRef) \in BOOLEAN
    BY <1>1, <2>2 DEF VoidCall, TxRow
  <2> HIDE DEF key
  <2>6. row \in TxRow
    BY <2>2, <2>4, <2>5 DEF TxRow
  <2>7. /\ row.amount = txs[p].amount /\ row.intent = txs[p].intent
        /\ row.status = void[v].result
    BY <2>2 DEF TxRow
  <2> HIDE DEF row
  <2>8. TablesInv' /\ Grows /\ Lawful /\ NoRefund
    BY <2>1, <2>3, <2>6, <2>7, CloseTxKeeps DEF ConfirmableStatuses
  <2> QED
    BY <1>3, <1>4, <1>5, <2>1, <2>3, <2>8, VoidMoved
<1>11. CASE EmitVoidTx(v)
  <2>1. /\ void[v].pc = "emit_tx" /\ void' = [void EXCEPT ![v].pc = "emit_intent"]
        /\ EmitTransactionStatus(void[v].tx, "cancelled", <<"void", void[v].tx>>)
        /\ UNCHANGED <<tables, provider>> /\ void[v].tx \in Payments
    BY <1>1, <1>11 DEF EmitVoidTx, VoidShape
  <2>2. OutboxTypeOK'
    BY <1>6, <2>1, EmitTxKeeps DEF Txs
  <2> QED
    BY <1>2, <1>3, <2>1, <2>2, VoidMoved
<1>12. CASE EmitVoidIntent(v)
  <2> DEFINE i == txs[void[v].tx].intent
  <2>1. /\ EmitIntentStatus(i, intents[i].status, <<"void", void[v].tx>>)
        /\ VoidReturns(v) /\ UNCHANGED <<tables, provider>>
        /\ void[v].tx \in Payments /\ TxExists(void[v].tx)
    BY <1>1, <1>12 DEF EmitVoidIntent, VoidShape
  <2>2. i \in Intents /\ intents[i].status \in IntentStatuses
    BY <2>1 DEF TablesInv, RowsWellFormed, TablesTypeOK, IntentRow, Txs
  <2>3. OutboxTypeOK'
    BY <1>6, <2>1, <2>2, EmitIntentKeeps
  <2> QED
    BY <1>2, <1>3, <1>5, <2>1, <2>3
<1>13. CASE AbortVoid(v)
  BY <1>2, <1>3, <1>4, <1>5, <1>13 DEF AbortVoid
<1> QED
  BY <1>0, <1>7, <1>8, <1>9, <1>10, <1>11, <1>12, <1>13
-----------------------------------------------------------------------------
(***************************************************************************)
(* RefundPaymentTransaction                                                *)
(***************************************************************************)
(* Where a refund whose amount has been credited may stand.                *)
Credited == {"emit_tx", "emit_intent", "done", "error"}

RefundShape(r) ==
    /\ refund[r].pc # "idle" =>
         /\ refund[r].src \in Payments /\ TxExists(refund[r].src)
         /\ refund[r].amount \in Amounts
         /\ refund[r].intentStatus \in IntentStatuses
    /\ refund[r].pc \in {"refund", "apply", "settle", "emit_tx", "emit_intent"} => TxExists(r)
    /\ refund[r].pc = "settle" => refund[r].result \in {"failed", "pending"}
    /\ r \in credited => refund[r].pc \in Credited

RefundInv == RefundTypeOK /\ \A r \in Refunds : RefundShape(r)

(* No refund has been asked for.                                           *)
LEMMA RefundStart == TablesInit /\ RefundInit => RefundInv
  BY DEF TablesInit, RefundInit, RefundInv, RefundTypeOK, RefundCall, RefundShape

(* Other use cases disturb no refund call.                                 *)
LEMMA RefundStable ==
  ASSUME RefundInv, Grows, NoRefund, UNCHANGED refund
  PROVE  RefundInv'
  BY DEF RefundInv, RefundTypeOK, RefundShape, Grows, NoRefund, Txs

(* A step that writes a well-shaped row for one call.                      *)
LEMMA RefundWritten ==
  ASSUME RefundInv, Grows, NEW r \in Refunds, NEW new \in RefundCall,
         refund' = [refund EXCEPT ![r] = new],
         new.src \in Payments, txs'[new.src].status # "absent",
         new.amount \in Amounts, new.intentStatus \in IntentStatuses,
         new.pc \in {"refund", "apply", "settle", "emit_tx", "emit_intent"} =>
            txs'[r].status # "absent",
         new.pc = "settle" => new.result \in {"failed", "pending"},
         credited' \cap Refunds \subseteq credited \cup {r},
         r \in credited' => new.pc \in Credited
  PROVE  RefundInv'
<1>1. RefundTypeOK' /\ refund'[r] = new
  BY DEF RefundInv, RefundTypeOK
<1>2. ASSUME NEW q \in Refunds PROVE RefundShape(q)'
  <2>1. CASE q = r
    BY <1>1, <2>1 DEF RefundShape, TxExists
  <2>2. CASE q # r
    <3>1. refund'[q] = refund[q]
      BY <2>2 DEF RefundInv, RefundTypeOK
    <3> QED
      BY <2>2, <3>1 DEF RefundInv, RefundShape, Grows, Txs
  <2> QED
    BY <2>1, <2>2
<1> QED
  BY <1>1, <1>2 DEF RefundInv

(* A step that only moves a refund call on.                                *)
LEMMA RefundMoved ==
  ASSUME RefundInv, Grows, NEW r \in Refunds, NEW step \in RefundSteps \cup RefundEnds,
         RefundTo(r, step), refund[r].pc # "idle",
         step \in {"refund", "apply", "settle", "emit_tx", "emit_intent"} =>
            txs'[r].status # "absent",
         step # "settle",
         NoRefund, refund[r].pc \in Credited => step \in Credited
  PROVE  RefundInv'
<1> DEFINE new == [refund[r] EXCEPT !.pc = step]
<1>1. refund[r] \in RefundCall /\ RefundShape(r) /\ refund' = [refund EXCEPT ![r] = new]
  BY DEF RefundInv, RefundTypeOK, RefundTo
<1>2. /\ new \in RefundCall /\ new.pc = step /\ new.src = refund[r].src
      /\ new.amount = refund[r].amount /\ new.intentStatus = refund[r].intentStatus
  BY <1>1 DEF RefundCall
<1>3. /\ new.src \in Payments /\ txs'[new.src].status # "absent"
      /\ new.amount \in Amounts /\ new.intentStatus \in IntentStatuses
  BY <1>1, <1>2 DEF RefundShape, Grows, Txs, TxExists
<1>4. /\ credited' \cap Refunds \subseteq credited \cup {r}
      /\ r \in credited' => new.pc \in Credited
  BY <1>1, <1>2 DEF NoRefund, RefundShape
<1> HIDE DEF new
<1> QED
  BY <1>1, <1>2, <1>3, <1>4, RefundWritten

(* Every step of a refund preserves the tables and the outbox.             *)
LEMMA RefundKeeps ==
  ASSUME TablesInv, ProviderTypeOK, OutboxTypeOK, RefundInv, RefundNext
  PROVE  TablesInv' /\ Grows /\ Lawful /\ ProviderTypeOK' /\ OutboxTypeOK' /\ RefundInv'
<1>0. PICK r \in Refunds :
        \/ \E p \in Payments, a \in Amounts, k \in Keys \cup {None} : LoadSource(r, p, a, k)
        \/ FindRefund(r) \/ CheckRefundable(r) \/ InsertRefund(r)
        \/ RefundAtProvider(r) \/ RefundThrows(r)
        \/ ApplyRefund(r) \/ ApplyRefundRefused(r) \/ SettleRefund(r)
        \/ EmitRefundTx(r) \/ EmitRefundIntent(r) \/ AbortRefund(r)
  BY DEF RefundNext
<1>1. refund[r] \in RefundCall /\ RefundShape(r)
  BY DEF RefundInv, RefundTypeOK
<1>2. UNCHANGED tables => TablesInv' /\ Grows /\ Lawful /\ NoRefund
  BY TablesStutter
<1>3. UNCHANGED provider => ProviderTypeOK'
  BY DEF ProviderTypeOK, provider
<1>4. UNCHANGED outbox => OutboxTypeOK'
  BY DEF OutboxTypeOK
<1>5. r \in Txs /\ r \notin Payments /\ Amounts \subseteq Nat
  BY TablesAssumption DEF Txs
<1>6. <<"refund", r>> \in Causes
  BY DEF Causes
<1>7. UNCHANGED tables => txs' = txs /\ credited' = credited
  BY DEF tables
<1>8. ASSUME NEW p \in Payments, NEW a \in Amounts, NEW k \in Keys \cup {None},
             LoadSource(r, p, a, k)
      PROVE  TablesInv' /\ Grows /\ Lawful /\ ProviderTypeOK' /\ OutboxTypeOK' /\ RefundInv'
  <2> DEFINE pc == IF k = None THEN "check" ELSE "find"
             status == intents[txs[p].intent].status
             new == [refund[r] EXCEPT !.pc = pc, !.src = p, !.amount = a, !.key = k,
                                      !.source = txs[p].status, !.intentStatus = status]
  <2>1. /\ refund' = [refund EXCEPT ![r] = new] /\ UNCHANGED <<tables, provider, outbox>>
        /\ TxExists(p)
    BY <1>8 DEF LoadSource
  <2>2. txs[p].status \in TransactionStatuses /\ status \in IntentStatuses
    BY <2>1 DEF TablesInv, TablesTypeOK, RowsWellFormed, TxRow, IntentRow, TxExists, Txs
  <2>3. pc \in RefundSteps /\ pc \in {"check", "find"}
    BY DEF RefundSteps
  <2> HIDE DEF status, pc
  <2>4. /\ new \in RefundCall /\ new.pc = pc /\ new.src = p /\ new.amount = a
        /\ new.intentStatus = status
    BY <1>1, <1>5, <2>2, <2>3 DEF RefundCall
  <2>5. txs'[p].status # "absent"
    BY <1>7, <2>1 DEF TxExists
  <2>6. r \notin credited
    BY <1>1, <1>8 DEF LoadSource, RefundShape, Credited
  <2> HIDE DEF new
  <2> QED
    BY <1>2, <1>3, <1>4, <1>7, <2>1, <2>2, <2>3, <2>4, <2>5, <2>6, RefundWritten
<1>9. CASE FindRefund(r)
  <2>1. /\ refund[r].pc = "find" /\ UNCHANGED <<tables, provider, outbox>>
        /\ \E step \in {"check", "replayed", "conflict"} : RefundTo(r, step)
    BY <1>9 DEF FindRefund
  <2>2. PICK step \in {"check", "replayed", "conflict"} : RefundTo(r, step)
    BY <2>1
  <2> QED
    BY <1>2, <1>3, <1>4, <2>1, <2>2, RefundMoved DEF RefundSteps, RefundEnds, Credited
<1>10. CASE CheckRefundable(r)
  <2>1. /\ refund[r].pc = "check" /\ UNCHANGED <<tables, provider, outbox>>
        /\ \E step \in {"insert", "rejected"} : RefundTo(r, step)
    BY <1>10 DEF CheckRefundable
  <2>2. PICK step \in {"insert", "rejected"} : RefundTo(r, step)
    BY <2>1
  <2> QED
    BY <1>2, <1>3, <1>4, <2>1, <2>2, RefundMoved DEF RefundSteps, RefundEnds, Credited
<1>11. CASE InsertRefund(r)
  <2> DEFINE p == refund[r].src
             row == [status |-> "pending", amount |-> refund[r].amount,
                     intent |-> txs[p].intent, parent |-> p,
                     key |-> refund[r].key, routable |-> FALSE]
  <2>1. /\ refund[r].pc = "insert" /\ InsertTx(r, row) /\ RefundTo(r, "refund")
        /\ UNCHANGED <<provider, outbox>>
    BY <1>11 DEF InsertRefund
  <2>2. p \in Payments /\ TxExists(p) /\ refund[r].amount \in Amounts
    BY <1>1, <2>1 DEF RefundShape
  <2>3. txs[p].intent \in Intents /\ intents[txs[p].intent].status # "absent"
    BY <2>2 DEF TablesInv, RowsWellFormed, Txs
  <2>4. row \in TxRow
    BY <1>1, <1>5, <2>2, <2>3 DEF TxRow, TransactionStatuses, RefundCall
  <2>5. /\ row.status = "pending" /\ row.amount = refund[r].amount
        /\ row.intent = txs[p].intent
    OBVIOUS
  <2> HIDE DEF row
  <2>6. TablesInv' /\ Grows /\ Lawful /\ NoRefund
    BY <1>5, <2>1, <2>2, <2>3, <2>4, <2>5, InsertTxKeeps
  <2>7. txs'[r].status # "absent"
    BY <1>5, <2>1, <2>5 DEF InsertTx, TablesInv, TablesTypeOK
  <2> QED
    BY <1>3, <1>4, <2>1, <2>6, <2>7, RefundMoved DEF RefundSteps, Credited
<1>12. CASE RefundAtProvider(r)
  <2>1. PICK answer \in {"succeeded", "failed", "pending"} :
          /\ refund[r].pc = "refund"
          /\ returned' = IF answer = "succeeded"
                         THEN [returned EXCEPT ![refund[r].src] = @ + refund[r].amount]
                         ELSE returned
          /\ refund' = [refund EXCEPT ![r] =
               [refund[r] EXCEPT !.result = answer,
                                 !.pc = IF answer = "succeeded" THEN "apply" ELSE "settle"]]
          /\ UNCHANGED <<tables, charge, outbox>>
    BY <1>12 DEF RefundAtProvider, RefundAnswers, FakeGatewayRefund, ManualRefund
  <2> DEFINE pc == IF answer = "succeeded" THEN "apply" ELSE "settle"
             new == [refund[r] EXCEPT !.result = answer, !.pc = pc]
  <2>2. /\ refund[r].src \in Payments /\ TxExists(refund[r].src) /\ TxExists(r)
        /\ refund[r].amount \in Amounts /\ refund[r].intentStatus \in IntentStatuses
    BY <1>1, <2>1 DEF RefundShape
  <2>3. ProviderTypeOK'
    BY <1>5, <2>1, <2>2 DEF ProviderTypeOK
  <2>4. refund' = [refund EXCEPT ![r] = new]
    BY <2>1
  <2>5. pc \in RefundSteps /\ (pc = "settle" => answer \in {"failed", "pending"})
    BY DEF RefundSteps
  <2> HIDE DEF pc
  <2>6. /\ new \in RefundCall /\ new.pc = pc /\ new.src = refund[r].src /\ new.result = answer
        /\ new.amount = refund[r].amount /\ new.intentStatus = refund[r].intentStatus
    BY <1>1, <2>5 DEF RefundCall
  <2>7. txs'[r].status # "absent" /\ txs'[new.src].status # "absent"
    BY <1>7, <2>1, <2>2, <2>6 DEF TxExists
  <2>8. r \notin credited
    BY <1>1, <2>1 DEF RefundShape, Credited
  <2> HIDE DEF new
  <2> QED
    BY <1>2, <1>4, <1>7, <2>1, <2>2, <2>3, <2>4, <2>5, <2>6, <2>7, <2>8, RefundWritten
<1>13. CASE RefundThrows(r)
  <2>1. /\ refund[r].pc = "refund" /\ RefundTo(r, "error") /\ UNCHANGED <<tables, charge, outbox>>
        /\ returned' \in {returned, [returned EXCEPT ![refund[r].src] = @ + refund[r].amount]}
    BY <1>13 DEF RefundThrows
  <2>2. ProviderTypeOK'
    <3>1. refund[r].src \in Payments /\ refund[r].amount \in Nat
      BY <1>1, <1>5, <2>1 DEF RefundShape
    <3>2. [returned EXCEPT ![refund[r].src] = @ + refund[r].amount] \in [Payments -> Nat]
      BY <3>1 DEF ProviderTypeOK
    <3> QED
      BY <2>1, <3>2 DEF ProviderTypeOK
  <2> QED
    BY <1>2, <1>4, <2>1, <2>2, RefundMoved DEF RefundEnds, Credited
<1>14. CASE ApplyRefund(r)
  <2> DEFINE status == intents'[txs[r].intent].status
             new == [refund[r] EXCEPT !.pc = "emit_tx", !.intentStatus = status]
  <2>1. /\ refund[r].pc = "apply" /\ CreditRefund(r) /\ UNCHANGED <<provider, outbox>>
        /\ refund' = [refund EXCEPT ![r] = new]
    BY <1>14 DEF ApplyRefund
  <2>2. /\ refund[r].src \in Payments /\ TxExists(refund[r].src) /\ TxExists(r)
        /\ refund[r].amount \in Amounts /\ r \notin credited
    BY <1>1, <2>1 DEF RefundShape, Credited
  <2>3. TablesInv' /\ Grows /\ Lawful /\ status \in IntentStatuses
    BY <2>1, <2>2, CreditRefundKeeps
  <2> HIDE DEF status
  <2>4. /\ new \in RefundCall /\ new.pc = "emit_tx" /\ new.src = refund[r].src
        /\ new.amount = refund[r].amount /\ new.intentStatus = status
    BY <1>1, <2>3 DEF RefundCall, RefundSteps
  <2>5. txs'[r].status # "absent" /\ txs'[new.src].status # "absent"
    BY <1>5, <2>2, <2>3, <2>4 DEF TxExists, Grows, Txs
  <2>6. credited' \cap Refunds \subseteq credited \cup {r} /\ new.pc \in Credited
    BY <2>1, <2>4 DEF CreditRefund, Credited
  <2> HIDE DEF new
  <2> QED
    BY <1>3, <1>4, <2>1, <2>2, <2>3, <2>4, <2>5, <2>6, RefundWritten
<1>15. CASE ApplyRefundRefused(r)
  BY <1>2, <1>3, <1>4, <1>15, RefundMoved DEF ApplyRefundRefused, RefundEnds, Credited
<1>16. CASE SettleRefund(r)
  <2> DEFINE step == IF refund[r].result = "failed" THEN "provider_failed" ELSE "emit_tx"
  <2>1. /\ refund[r].pc = "settle" /\ SetTxStatus(r, refund[r].result)
        /\ RefundTo(r, step) /\ UNCHANGED <<provider, outbox>>
        /\ refund[r].result \in {"failed", "pending"} /\ TxExists(r)
    BY <1>1, <1>16 DEF SettleRefund, RefundShape
  <2>2. TablesInv' /\ Grows /\ Lawful /\ NoRefund
    BY <1>5, <2>1, SetTxStatusKeeps DEF TransactionStatuses
  <2>3. txs'[r].status # "absent"
    BY <1>5, <2>1, <2>2 DEF Grows, TxExists
  <2>4. step \in {"provider_failed", "emit_tx"}
    OBVIOUS
  <2> HIDE DEF step
  <2> QED
    BY <1>3, <1>4, <2>1, <2>2, <2>3, <2>4, RefundMoved DEF RefundSteps, RefundEnds, Credited
<1>17. CASE EmitRefundTx(r)
  <2>1. /\ refund[r].pc = "emit_tx" /\ RefundTo(r, "emit_intent") /\ UNCHANGED <<tables, provider>>
        /\ EmitTransactionStatus(r, refund[r].result, <<"refund", r>>) /\ TxExists(r)
    BY <1>1, <1>17 DEF EmitRefundTx, RefundShape
  <2>2. OutboxTypeOK'
    BY <1>5, <1>6, <2>1, EmitTxKeeps
  <2> QED
    BY <1>2, <1>3, <1>7, <2>1, <2>2, RefundMoved DEF RefundSteps, TxExists, Credited
<1>18. CASE EmitRefundIntent(r)
  <2>1. /\ refund[r].pc = "emit_intent" /\ RefundTo(r, "done") /\ UNCHANGED <<tables, provider>>
        /\ EmitIntentStatus(txs[r].intent, refund[r].intentStatus, <<"refund", r>>)
        /\ TxExists(r) /\ refund[r].intentStatus \in IntentStatuses
    BY <1>1, <1>18 DEF EmitRefundIntent, RefundShape
  <2>2. txs[r].intent \in Intents
    BY <1>5, <2>1 DEF TablesInv, RowsWellFormed
  <2>3. OutboxTypeOK'
    BY <1>6, <2>1, <2>2, EmitIntentKeeps
  <2> QED
    BY <1>2, <1>3, <2>1, <2>3, RefundMoved DEF RefundEnds, Credited
<1>19. CASE AbortRefund(r)
  BY <1>2, <1>3, <1>4, <1>19, RefundMoved DEF AbortRefund, RefundSteps, RefundEnds, Credited
<1> QED
  BY <1>0, <1>8, <1>9, <1>10, <1>11, <1>12, <1>13, <1>14, <1>15, <1>16, <1>17, <1>18, <1>19
-----------------------------------------------------------------------------
(***************************************************************************)
(* ExpireStalePaymentTransactions                                          *)
(***************************************************************************)
SweepShape(s) ==
    /\ \A t \in sweep[s].todo : TxExists(t)
    /\ sweep[s].pc = "write" => sweep[s].intent \in Intents

SweepInv == SweepTypeOK /\ \A s \in Sweeps : SweepShape(s)

(* No run of the worker is in progress.                                    *)
LEMMA SweepStart == SweepInit => SweepInv
  BY DEF SweepInit, SweepInv, SweepTypeOK, SweepRun, SweepIdle, SweepShape

(* Other use cases disturb no run.                                         *)
LEMMA SweepStable ==
  ASSUME SweepInv, Grows, UNCHANGED sweep
  PROVE  SweepInv'
<1>1. SweepTypeOK'
  BY DEF SweepInv, SweepTypeOK
<1>2. ASSUME NEW s \in Sweeps PROVE SweepShape(s)'
  <2>1. sweep[s].todo \subseteq Txs
    BY DEF SweepInv, SweepTypeOK, SweepRun
  <2> QED
    BY <2>1 DEF SweepInv, SweepShape, Grows
<1> QED
  BY <1>1, <1>2 DEF SweepInv

(* A step that writes a well-shaped row for one run.                       *)
LEMMA SweepWritten ==
  ASSUME SweepInv, Grows, NEW s \in Sweeps, NEW new \in SweepRun,
         sweep' = [sweep EXCEPT ![s] = new],
         \A t \in new.todo : TxExists(t),
         new.pc = "write" => new.intent \in Intents
  PROVE  SweepInv'
<1>1. SweepTypeOK' /\ sweep'[s] = new /\ new.todo \subseteq Txs
  BY DEF SweepInv, SweepTypeOK, SweepRun
<1>2. ASSUME NEW q \in Sweeps PROVE SweepShape(q)'
  <2>1. CASE q = s
    BY <1>1, <2>1 DEF SweepShape, Grows
  <2>2. CASE q # s
    <3>1. sweep'[q] = sweep[q] /\ sweep[q].todo \subseteq Txs
      BY <2>2 DEF SweepInv, SweepTypeOK, SweepRun
    <3> QED
      BY <3>1 DEF SweepInv, SweepShape, Grows
  <2> QED
    BY <2>1, <2>2
<1> QED
  BY <1>1, <1>2 DEF SweepInv

(* A query with LIMIT returns some of the rows, and no more than allowed.  *)
LEMMA LimitedIsSome ==
  ASSUME NEW rows, IsFiniteSet(rows), NEW n \in Nat, NEW some \in Limited(rows, n)
  PROVE  some \subseteq rows /\ n - Cardinality(some) \in Nat
<1>1. some \subseteq rows /\ Cardinality(some) = Min2(n, Cardinality(rows))
  BY DEF Limited, kSubset
<1>2. Cardinality(rows) \in Nat
  BY FS_CardinalityType
<1> QED
  BY <1>1, <1>2 DEF Min2

(* Every step of the worker preserves the tables.                          *)
LEMMA SweepKeeps ==
  ASSUME TablesInv, ProviderTypeOK, SweepInv, SweepNext
  PROVE  TablesInv' /\ Grows /\ Lawful /\ NoRefund /\ ProviderTypeOK' /\ SweepInv'
<1>0. PICK s \in Sweeps :
        \/ ListStaleTxs(s) \/ ExpireTx(s) \/ FinishStaleTxs(s)
        \/ ListStaleIntents(s) \/ ListIntentTxs(s) \/ FinishIntentTxs(s) \/ FinishIntents(s)
        \/ RecheckIntent(s) \/ WriteExpired(s) \/ FinishSweep(s) \/ AbortSweep(s)
  BY DEF SweepNext
<1>1. sweep[s] \in SweepRun /\ SweepShape(s)
  BY DEF SweepInv, SweepTypeOK
<1>2. UNCHANGED tables => TablesInv' /\ Grows /\ Lawful /\ NoRefund
  BY TablesStutter
<1>3. UNCHANGED provider => ProviderTypeOK'
  BY DEF ProviderTypeOK, provider
<1>4. SweepIdle \in SweepRun /\ SweepIdle.pc = "idle" /\ SweepIdle.todo = {}
  BY DEF SweepIdle, SweepRun
<1>5. ASSUME NEW step \in {"list_intents", "next_intent", "recheck"}, Grows,
             sweep' = [sweep EXCEPT ![s].pc = step]
      PROVE  SweepInv'
  <2> DEFINE new == [sweep[s] EXCEPT !.pc = step]
  <2>1. new \in SweepRun /\ new.pc = step /\ new.todo = sweep[s].todo
    BY <1>1 DEF SweepRun
  <2>2. sweep' = [sweep EXCEPT ![s] = new]
    BY <1>5
  <2> HIDE DEF new
  <2> QED
    BY <1>1, <1>5, <2>1, <2>2, SweepWritten DEF SweepShape
<1>6. CASE ListStaleTxs(s)
  <2>1. PICK rows \in Limited(StaleTxs, SweepLimit) :
          /\ sweep[s].pc = "idle"
          /\ sweep' = [sweep EXCEPT ![s] =
               [sweep[s] EXCEPT !.pc = "expire_tx", !.todo = rows, !.late = overdue,
                                !.room = SweepLimit - Cardinality(rows)]]
          /\ UNCHANGED <<tables, provider>>
    BY <1>6 DEF ListStaleTxs
  <2> DEFINE room == SweepLimit - Cardinality(rows)
             new == [sweep[s] EXCEPT !.pc = "expire_tx", !.todo = rows, !.late = overdue,
                                     !.room = room]
  <2>2. IsFiniteSet(StaleTxs)
    BY TablesAssumption, FS_Union, FS_Subset DEF StaleTxs, Txs
  <2>3. rows \subseteq StaleTxs /\ room \in Nat
    BY <2>2, LimitedIsSome, SweepAssumption
  <2>4. rows \subseteq Txs /\ \A t \in rows : TxExists(t)
    BY <2>3 DEF StaleTxs, TxExists, ConfirmableStatuses
  <2>5. overdue \subseteq Intents \cup Payments
    BY DEF TablesInv, TablesTypeOK
  <2> HIDE DEF room
  <2>6. new \in SweepRun /\ new.pc = "expire_tx" /\ new.todo = rows
    BY <1>1, <2>3, <2>4, <2>5 DEF SweepRun
  <2>7. sweep' = [sweep EXCEPT ![s] = new]
    BY <2>1 DEF room
  <2> HIDE DEF new
  <2> QED
    BY <1>2, <1>3, <2>1, <2>4, <2>6, <2>7, SweepWritten
<1>7. CASE ExpireTx(s)
  <2>1. PICK t \in sweep[s].todo :
          /\ SetTxStatus(t, "expired") /\ UNCHANGED provider
          /\ sweep[s].pc \in {"expire_tx", "expire_intent_tx"}
          /\ sweep' = [sweep EXCEPT ![s] =
               [sweep[s] EXCEPT !.todo = sweep[s].todo \ {t},
                                !.touched = sweep[s].touched \cup {txs[t].intent}]]
    BY <1>7 DEF ExpireTx
  <2> DEFINE new == [sweep[s] EXCEPT !.todo = sweep[s].todo \ {t},
                                     !.touched = sweep[s].touched \cup {txs[t].intent}]
  <2>2. t \in Txs /\ TxExists(t) /\ txs[t].intent \in Intents
    BY <1>1, <2>1 DEF SweepRun, SweepShape, TablesInv, RowsWellFormed
  <2>3. TablesInv' /\ Grows /\ Lawful /\ NoRefund
    BY <2>1, <2>2, SetTxStatusKeeps DEF TransactionStatuses, ConfirmableStatuses
  <2>4. new \in SweepRun /\ new.pc = sweep[s].pc /\ new.todo \subseteq sweep[s].todo
    BY <1>1, <2>2 DEF SweepRun
  <2> HIDE DEF new
  <2>5. sweep' = [sweep EXCEPT ![s] = new]
    BY <2>1 DEF new
  <2> QED
    BY <1>1, <1>3, <2>1, <2>3, <2>4, <2>5, SweepWritten DEF SweepShape
<1>8. CASE FinishStaleTxs(s)
  <2> DEFINE step == IF sweep[s].room > 0 THEN "list_intents" ELSE "recheck"
  <2>1. sweep' = [sweep EXCEPT ![s].pc = step] /\ UNCHANGED <<tables, provider>>
    BY <1>8 DEF FinishStaleTxs
  <2>2. step \in {"list_intents", "next_intent", "recheck"}
    OBVIOUS
  <2> HIDE DEF step
  <2> QED
    BY <1>2, <1>3, <1>5, <2>1, <2>2
<1>9. CASE ListStaleIntents(s)
  <2>1. PICK rows \in Limited(ExpiredActive(s), sweep[s].room) :
          /\ sweep' = [sweep EXCEPT ![s] = [sweep[s] EXCEPT !.pc = "next_intent", !.queue = rows]]
          /\ UNCHANGED <<tables, provider>>
    BY <1>9 DEF ListStaleIntents
  <2> DEFINE new == [sweep[s] EXCEPT !.pc = "next_intent", !.queue = rows]
  <2>2. rows \subseteq Intents
    BY DEF Limited, kSubset, ExpiredActive
  <2>3. new \in SweepRun /\ new.pc = "next_intent" /\ new.todo = sweep[s].todo
    BY <1>1, <2>2 DEF SweepRun
  <2>4. sweep' = [sweep EXCEPT ![s] = new]
    BY <2>1
  <2> HIDE DEF new
  <2> QED
    BY <1>1, <1>2, <1>3, <2>1, <2>3, <2>4, SweepWritten DEF SweepShape
<1>10. CASE ListIntentTxs(s)
  <2> DEFINE open(i) == {t \in Txs : txs[t].intent = i /\ txs[t].status \in ConfirmableStatuses}
  <2>1. PICK i \in sweep[s].queue :
          /\ sweep' = [sweep EXCEPT ![s] =
               [sweep[s] EXCEPT !.pc = "expire_intent_tx", !.queue = sweep[s].queue \ {i},
                                !.touched = sweep[s].touched \cup {i}, !.todo = open(i)]]
          /\ UNCHANGED <<tables, provider>>
    BY <1>10, Zenon DEF ListIntentTxs
  <2>2. i \in Intents
    BY <1>1, <2>1 DEF SweepRun
  <2>3. open(i) \subseteq Txs /\ \A t \in open(i) : TxExists(t)
    BY DEF TxExists, ConfirmableStatuses
  <2> HIDE DEF open
  <2> DEFINE new == [sweep[s] EXCEPT !.pc = "expire_intent_tx", !.queue = sweep[s].queue \ {i},
                                     !.touched = sweep[s].touched \cup {i}, !.todo = open(i)]
  <2>4. new \in SweepRun /\ new.pc = "expire_intent_tx" /\ new.todo = open(i)
    BY <1>1, <2>2, <2>3 DEF SweepRun
  <2>5. sweep' = [sweep EXCEPT ![s] = new] /\ UNCHANGED <<tables, provider>>
    BY <2>1
  <2> HIDE DEF new
  <2> QED
    BY <1>2, <1>3, <2>3, <2>4, <2>5, SweepWritten
<1>11. CASE FinishIntentTxs(s)
  BY <1>2, <1>3, <1>5, <1>11 DEF FinishIntentTxs
<1>12. CASE FinishIntents(s)
  BY <1>2, <1>3, <1>5, <1>12 DEF FinishIntents
<1>13. CASE RecheckIntent(s)
  <2>1. PICK i \in sweep[s].touched :
          /\ \/ sweep' = [sweep EXCEPT ![s] =
                  [sweep[s] EXCEPT !.pc = "write", !.intent = i,
                                   !.touched = sweep[s].touched \ {i}]]
             \/ sweep' = [sweep EXCEPT ![s] =
                  [sweep[s] EXCEPT !.touched = sweep[s].touched \ {i}]]
          /\ sweep[s].pc = "recheck" /\ UNCHANGED <<tables, provider>>
    BY <1>13 DEF RecheckIntent
  <2> DEFINE new1 == [sweep[s] EXCEPT !.pc = "write", !.intent = i,
                                      !.touched = sweep[s].touched \ {i}]
             new2 == [sweep[s] EXCEPT !.touched = sweep[s].touched \ {i}]
  <2>2. i \in Intents
    BY <1>1, <2>1 DEF SweepRun
  <2>3. new1 \in SweepRun /\ new1.todo = sweep[s].todo /\ new1.intent = i
    BY <1>1, <2>2 DEF SweepRun
  <2>4. new2 \in SweepRun /\ new2.todo = sweep[s].todo /\ new2.pc = "recheck"
    BY <1>1, <2>1 DEF SweepRun
  <2>5. sweep' = [sweep EXCEPT ![s] = new1] \/ sweep' = [sweep EXCEPT ![s] = new2]
    BY <2>1
  <2> HIDE DEF new1, new2
  <2> QED
    BY <1>1, <1>2, <1>3, <2>1, <2>2, <2>3, <2>4, <2>5, SweepWritten DEF SweepShape
<1>14. CASE WriteExpired(s)
  <2> DEFINE new == [sweep[s] EXCEPT !.pc = "recheck", !.intent = None]
  <2>1. /\ sweep' = [sweep EXCEPT ![s] = new] /\ UNCHANGED provider
        /\ SetIntentStatus(sweep[s].intent, "expired") /\ sweep[s].intent \in Intents
    BY <1>1, <1>14 DEF WriteExpired, SweepShape
  <2>2. TablesInv' /\ Grows /\ Lawful /\ NoRefund
    BY <2>1, ExpireIntentKeeps
  <2>3. new \in SweepRun /\ new.pc = "recheck" /\ new.todo = sweep[s].todo
    BY <1>1 DEF SweepRun
  <2> HIDE DEF new
  <2> QED
    BY <1>1, <1>3, <2>1, <2>2, <2>3, SweepWritten DEF SweepShape
<1>15. CASE FinishSweep(s)
  BY <1>2, <1>3, <1>4, <1>15, SweepWritten DEF FinishSweep
<1>16. CASE AbortSweep(s)
  BY <1>2, <1>3, <1>4, <1>16, SweepWritten DEF AbortSweep
<1> QED
  BY <1>0, <1>6, <1>7, <1>8, <1>9, <1>10, <1>11, <1>12, <1>13, <1>14, <1>15, <1>16
=============================================================================
