------------------------ MODULE ProviderWebhookProofs ------------------------
(***************************************************************************)
(* What every step of a webhook call preserves, and why no two calls ever  *)
(* work on one event.                                                      *)
(***************************************************************************)
EXTENDS ProviderWebhook, PaymentTablesProofs

(* Nothing is announced before it happens.                                 *)
LEMMA OutboxStart == OutboxInit => OutboxTypeOK
  BY DEF OutboxInit, OutboxTypeOK

(* What is announced of a transaction is an event.                         *)
LEMMA EmitTxKeeps ==
  ASSUME OutboxTypeOK, NEW t \in Txs, NEW status, NEW cause \in Causes,
         EmitTransactionStatus(t, status, cause)
  PROVE  OutboxTypeOK'
  BY DEF OutboxTypeOK, EmitTransactionStatus, Emit, AnnouncedTxStatuses, TransactionStatuses

(* What is announced of an intent is an event.                             *)
LEMMA EmitIntentKeeps ==
  ASSUME OutboxTypeOK, NEW i \in Intents, NEW status \in IntentStatuses, NEW cause \in Causes,
         EmitIntentStatus(i, status, cause)
  PROVE  OutboxTypeOK'
  BY DEF OutboxTypeOK, EmitIntentStatus, Emit, IntentStatuses
-----------------------------------------------------------------------------

(* An event that was received is about a payment.                          *)
EventShape(e) == inbox[e].status # "absent" => inbox[e].tx \in Payments

(* Steps at which the call has found its transaction.                      *)
Resolved == {"apply", "mark", "mark_only", "emit_tx", "emit_intent"}

HookShape(h) ==
    /\ hook[h].pc # "idle" => hook[h].ev \in Events /\ inbox[hook[h].ev].status # "absent"
    /\ hook[h].pc \in Resolved => TxExists(HookTx(h))

WebhookInv ==
    /\ WebhookTypeOK
    /\ \A e \in Events : EventShape(e)
    /\ \A h \in Hooks : HookShape(h)

(* No event has been received.                                             *)
LEMMA WebhookStart == WebhookInit => WebhookInv
  BY DEF WebhookInit, WebhookInv, WebhookTypeOK, EventRow, HookCall, HookIdle, EventShape,
     HookShape, Resolved

(* Other use cases disturb no event and no call.                           *)
LEMMA WebhookStable ==
  ASSUME WebhookInv, Grows, UNCHANGED webhookVars
  PROVE  WebhookInv'
<1>1. WebhookTypeOK' /\ (\A e \in Events : EventShape(e)')
  BY DEF WebhookInv, WebhookTypeOK, EventShape, webhookVars
<1>2. ASSUME NEW h \in Hooks PROVE HookShape(h)'
  <2>1. hook[h].pc \in Resolved => HookTx(h) \in Txs
    BY DEF WebhookInv, HookShape, EventShape, HookTx, Resolved, Txs
  <2> QED
    BY <2>1 DEF WebhookInv, HookShape, HookTx, webhookVars, Grows
<1> QED
  BY <1>1, <1>2 DEF WebhookInv

(* A step that writes a well-shaped row for one call, and perhaps a status *)
(* for an event.                                                           *)
LEMMA HookWritten ==
  ASSUME WebhookInv, Grows, NEW h \in Hooks, NEW new \in HookCall,
         hook' = [hook EXCEPT ![h] = new], inbox' \in [Events -> EventRow],
         \A e \in Events : inbox[e].status # "absent" =>
            inbox'[e].status # "absent" /\ inbox'[e].tx = inbox[e].tx,
         \A e \in Events : inbox'[e].status # "absent" => inbox'[e].tx \in Payments,
         new.pc # "idle" => new.ev \in Events /\ inbox'[new.ev].status # "absent",
         new.pc \in Resolved => txs'[inbox'[new.ev].tx].status # "absent"
  PROVE  WebhookInv'
<1>1. WebhookTypeOK' /\ hook'[h] = new /\ (\A e \in Events : EventShape(e)')
  BY DEF WebhookInv, WebhookTypeOK, EventShape
<1>2. ASSUME NEW g \in Hooks PROVE HookShape(g)'
  <2>1. CASE g = h
    BY <1>1, <2>1 DEF HookShape, HookTx, TxExists
  <2>2. CASE g # h
    <3>1. hook'[g] = hook[g]
      BY <2>2 DEF WebhookInv, WebhookTypeOK
    <3>2. hook[g].pc \in Resolved => HookTx(g) \in Txs /\ HookTx(g)' = HookTx(g)
      BY <3>1 DEF WebhookInv, HookShape, EventShape, HookTx, Resolved, Txs
    <3> QED
      BY <3>1, <3>2 DEF WebhookInv, HookShape, Grows
  <2> QED
    BY <2>1, <2>2
<1> QED
  BY <1>1, <1>2 DEF WebhookInv

(* An event keeps its payment whatever becomes of its status.              *)
LEMMA EventStatusWritten ==
  ASSUME WebhookInv, NEW e \in Events,
         NEW status \in {"pending", "processing", "processed", "failed"},
         inbox[e].status # "absent",
         SetEventStatus(e, status) \/ UNCHANGED inbox
  PROVE  /\ inbox' \in [Events -> EventRow]
         /\ \A d \in Events : inbox[d].status # "absent" =>
               inbox'[d].status # "absent" /\ inbox'[d].tx = inbox[d].tx
         /\ \A d \in Events : inbox'[d].status # "absent" => inbox'[d].tx \in Payments
  BY DEF WebhookInv, WebhookTypeOK, EventRow, EventShape, SetEventStatus

(* A call that moves on, or returns, with or without writing the status of *)
(* its event.                                                              *)
LEMMA HookMoved ==
  ASSUME WebhookInv, Grows, NEW h \in Hooks, hook[h].pc # "idle",
         UNCHANGED inbox \/ (\E status \in {"pending", "processing", "processed", "failed"} :
                                SetEventStatus(hook[h].ev, status)),
         \/ HookReturns(h)
         \/ \E pc \in {"resolve", "unknown", "fail"} : HookTo(h, pc)
         \/ hook[h].pc \in Resolved /\ \E pc \in Resolved : HookTo(h, pc)
         \/ /\ hook[h].pc \in Resolved
            /\ \E seen \in TransactionStatuses :
                 hook' = [hook EXCEPT ![h] = [hook[h] EXCEPT !.pc = "mark", !.seen = seen]]
  PROVE  WebhookInv'
<1> DEFINE e == hook[h].ev
<1>1. /\ hook[h] \in HookCall /\ e \in Events /\ inbox[e].status # "absent"
      /\ (hook[h].pc \in Resolved => TxExists(HookTx(h)) /\ HookTx(h) \in Txs)
  BY DEF WebhookInv, WebhookTypeOK, HookShape, EventShape, HookTx, Txs
<1>2. /\ inbox' \in [Events -> EventRow]
      /\ \A d \in Events : inbox[d].status # "absent" =>
            inbox'[d].status # "absent" /\ inbox'[d].tx = inbox[d].tx
      /\ \A d \in Events : inbox'[d].status # "absent" => inbox'[d].tx \in Payments
  BY <1>1, EventStatusWritten
<1>3. hook[h].pc \in Resolved => txs'[inbox'[e].tx].status # "absent"
  BY <1>1, <1>2 DEF Grows, TxExists, HookTx
<1>4. CASE HookReturns(h)
  <2>1. HookIdle \in HookCall /\ HookIdle.pc = "idle"
    BY DEF HookIdle, HookCall
  <2> QED
    BY <1>2, <1>4, <2>1, HookWritten DEF HookReturns, Resolved
<1>5. ASSUME NEW pc \in {"resolve", "unknown", "fail"} \cup Resolved, HookTo(h, pc),
             pc \in Resolved => hook[h].pc \in Resolved
      PROVE  WebhookInv'
  <2> DEFINE new == [hook[h] EXCEPT !.pc = pc]
  <2>1. new \in HookCall /\ new.pc = pc /\ new.ev = e
    BY <1>1 DEF HookCall, Resolved
  <2>2. hook' = [hook EXCEPT ![h] = new]
    BY <1>5 DEF HookTo
  <2> HIDE DEF new
  <2> QED
    BY <1>1, <1>2, <1>3, <1>5, <2>1, <2>2, HookWritten
<1>6. ASSUME NEW seen \in TransactionStatuses, hook[h].pc \in Resolved,
             hook' = [hook EXCEPT ![h] = [hook[h] EXCEPT !.pc = "mark", !.seen = seen]]
      PROVE  WebhookInv'
  <2> DEFINE new == [hook[h] EXCEPT !.pc = "mark", !.seen = seen]
  <2>1. new \in HookCall /\ new.pc = "mark" /\ new.ev = e
    BY <1>1 DEF HookCall
  <2>2. hook' = [hook EXCEPT ![h] = new] /\ txs'[inbox'[e].tx].status # "absent"
    BY <1>3, <1>6
  <2> HIDE DEF new
  <2> QED
    BY <1>1, <1>2, <2>1, <2>2, HookWritten
<1>7. {"resolve", "unknown", "fail"} \cap Resolved = {}
  BY DEF Resolved
<1> QED
  BY <1>4, <1>5, <1>6, <1>7

(* All that a webhook call writes in the tables: a credit, on the report   *)
(* of a success, or the closure of a transaction it has found.             *)
LEMMA WebhookWrites ==
  ASSUME TablesTypeOK, WebhookInv, WebhookNext
  PROVE  /\ UNCHANGED provider
         /\ \/ UNCHANGED tables
            \/ \E h \in Hooks :
                  /\ hook[h].pc = "apply" /\ HookTx(h) \in Payments /\ TxExists(HookTx(h))
                  /\ \/ hook[h].outcome = "succeeded" /\ CreditPayment(HookTx(h))
                     \/ \E status \in {"failed", "cancelled", "expired"} :
                           SetTxStatus(HookTx(h), status)
<1>0. PICK h \in Hooks :
        \/ \E e \in Events, outcome \in Outcomes :
             \/ \E p \in Payments : ReceiveEvent(h, e, p, outcome)
             \/ ReceiveAgain(h, e, outcome)
        \/ ClaimEvent(h) \/ ResolveEvent(h) \/ FailUnknown(h)
        \/ ApplySuccess(h) \/ ApplySuccessThrows(h) \/ SkipEvent(h) \/ ApplyClosure(h)
        \/ MarkProcessed(h) \/ EmitHookTx(h) \/ EmitHookIntent(h)
        \/ StatementThrows(h) \/ FailEvent(h) \/ AbortHook(h)
  BY DEF WebhookNext
<1>1. hook[h].pc = "apply" => HookTx(h) \in Payments /\ TxExists(HookTx(h))
  BY DEF WebhookInv, HookShape, EventShape, HookTx, Resolved
<1>2. CASE ApplySuccess(h)
  BY <1>1, <1>2 DEF ApplySuccess
<1>3. CASE ApplyClosure(h)
  BY <1>1, <1>3 DEF ApplyClosure
<1>4. CASE EmitHookTx(h) \/ EmitHookIntent(h)
  BY <1>4 DEF EmitHookTx, EmitHookIntent
<1>5. ASSUME NEW e \in Events, NEW outcome \in Outcomes,
             ReceiveAgain(h, e, outcome) \/ \E p \in Payments : ReceiveEvent(h, e, p, outcome)
      PROVE  UNCHANGED <<tables, provider>>
  BY <1>5 DEF ReceiveAgain, ReceiveEvent
<1>6. CASE ClaimEvent(h) \/ ResolveEvent(h) \/ FailUnknown(h) \/ ApplySuccessThrows(h)
           \/ SkipEvent(h) \/ MarkProcessed(h) \/ StatementThrows(h) \/ FailEvent(h)
           \/ AbortHook(h)
  BY <1>6 DEF ClaimEvent, ResolveEvent, FailUnknown, ApplySuccessThrows, SkipEvent,
     MarkProcessed, StatementThrows, FailEvent, AbortHook
<1> QED
  BY <1>0, <1>2, <1>3, <1>4, <1>5, <1>6

(* Events stay what they were received as.                                 *)
EventsStay ==
    \A e \in Events :
        /\ inbox[e].status # "absent" =>
             /\ inbox'[e].status # "absent"
             /\ inbox'[e].tx = inbox[e].tx /\ inbox'[e].outcome = inbox[e].outcome
        /\ inbox'[e].status # "absent" =>
             inbox[e].status # "absent" \/ inbox'[e].outcome \in Outcomes

(* An event is marked, by whomever.                                        *)
LEMMA EventMarked ==
  ASSUME WebhookInv, NEW e \in Events, inbox[e].status # "absent",
         NEW status \in {"pending", "processing", "processed", "failed"},
         SetEventStatus(e, status)
  PROVE  /\ EventsStay /\ inbox' \in [Events -> EventRow]
         /\ \A d \in Events : inbox'[d] = inbox[d] \/ (d = e /\ inbox'[d].status = status)
<1>1. /\ inbox' \in [Events -> EventRow]
      /\ \A d \in Events : /\ d # e => inbox'[d] = inbox[d]
                           /\ d = e => inbox'[d] = [inbox[e] EXCEPT !.status = status]
  BY DEF SetEventStatus, WebhookInv, WebhookTypeOK, EventRow
<1>2. inbox[e] \in EventRow
  BY DEF WebhookInv, WebhookTypeOK
<1>3. ASSUME NEW row, row = [inbox[e] EXCEPT !.status = status]
      PROVE  row.status = status /\ row.tx = inbox[e].tx /\ row.outcome = inbox[e].outcome
  BY <1>2, <1>3 DEF EventRow
<1>4. /\ inbox'[e].status = status /\ inbox'[e].tx = inbox[e].tx
      /\ inbox'[e].outcome = inbox[e].outcome
  BY <1>1, <1>3
<1> QED
  BY <1>1, <1>4 DEF EventsStay

(* A webhook call changes nothing but the status of an event it has.       *)
LEMMA EventsKept ==
  ASSUME WebhookInv, WebhookNext
  PROVE  EventsStay
<1>0. PICK h \in Hooks :
        \/ \E e \in Events, outcome \in Outcomes :
             \/ \E p \in Payments : ReceiveEvent(h, e, p, outcome)
             \/ ReceiveAgain(h, e, outcome)
        \/ ClaimEvent(h) \/ ResolveEvent(h) \/ FailUnknown(h)
        \/ ApplySuccess(h) \/ ApplySuccessThrows(h) \/ SkipEvent(h) \/ ApplyClosure(h)
        \/ MarkProcessed(h) \/ EmitHookTx(h) \/ EmitHookIntent(h)
        \/ StatementThrows(h) \/ FailEvent(h) \/ AbortHook(h)
  BY DEF WebhookNext
<1>1. CASE UNCHANGED inbox
  BY <1>1 DEF EventsStay
<1>2. ASSUME hook[h].pc # "idle",
             NEW status \in {"pending", "processing", "processed", "failed"},
             SetEventStatus(hook[h].ev, status)
      PROVE  EventsStay
  BY <1>2, EventMarked DEF WebhookInv, HookShape
<1>3. ASSUME NEW e \in Events, NEW outcome \in Outcomes, NEW p \in Payments,
             ReceiveEvent(h, e, p, outcome)
      PROVE  EventsStay
  <2>1. /\ inbox[e].status = "absent"
        /\ inbox' = [inbox EXCEPT ![e] = [status |-> "pending", tx |-> p, outcome |-> outcome]]
    BY <1>3 DEF ReceiveEvent
  <2>2. \A d \in Events : IF d = e THEN inbox'[d].outcome = outcome ELSE inbox'[d] = inbox[d]
    BY <2>1 DEF WebhookInv, WebhookTypeOK
  <2> QED
    BY <2>1, <2>2 DEF EventsStay
<1>4. ASSUME NEW e \in Events, NEW outcome \in Outcomes, ReceiveAgain(h, e, outcome)
      PROVE  EventsStay
  BY <1>1, <1>4 DEF ReceiveAgain
<1>5. CASE ClaimEvent(h)
  BY <1>1, <1>2, <1>5 DEF ClaimEvent
<1>6. CASE FailUnknown(h) \/ MarkProcessed(h) \/ FailEvent(h)
  BY <1>2, <1>6 DEF FailUnknown, MarkProcessed, FailEvent
<1>7. CASE ResolveEvent(h) \/ ApplySuccess(h) \/ ApplySuccessThrows(h) \/ SkipEvent(h)
           \/ ApplyClosure(h) \/ EmitHookTx(h) \/ EmitHookIntent(h) \/ StatementThrows(h)
           \/ AbortHook(h)
  BY <1>1, <1>7 DEF ResolveEvent, ApplySuccess, ApplySuccessThrows, SkipEvent, ApplyClosure,
     EmitHookTx, EmitHookIntent, StatementThrows, AbortHook
<1> QED
  BY <1>0, <1>3, <1>4, <1>5, <1>6, <1>7

(* Whatever its writes, a step of a webhook call that keeps the rows keeps *)
(* what the calls hold, and announces only events.                         *)
LEMMA WebhookMoves ==
  ASSUME TablesTypeOK, RowsWellFormed, OutboxTypeOK, WebhookInv, WebhookNext, Grows
  PROVE  OutboxTypeOK' /\ WebhookInv'
<1>0. PICK h \in Hooks :
        \/ \E e \in Events, outcome \in Outcomes :
             \/ \E p \in Payments : ReceiveEvent(h, e, p, outcome)
             \/ ReceiveAgain(h, e, outcome)
        \/ ClaimEvent(h) \/ ResolveEvent(h) \/ FailUnknown(h)
        \/ ApplySuccess(h) \/ ApplySuccessThrows(h) \/ SkipEvent(h) \/ ApplyClosure(h)
        \/ MarkProcessed(h) \/ EmitHookTx(h) \/ EmitHookIntent(h)
        \/ StatementThrows(h) \/ FailEvent(h) \/ AbortHook(h)
  BY DEF WebhookNext
<1>1. /\ hook[h] \in HookCall /\ HookShape(h) /\ WebhookTypeOK
      /\ \A e \in Events : EventShape(e)
  BY DEF WebhookInv, WebhookTypeOK
<1>2. hook[h].pc \in Resolved =>
        /\ HookTx(h) \in Payments /\ HookTx(h) \in Txs /\ TxExists(HookTx(h))
        /\ hook[h].ev \in Events /\ <<"provider", hook[h].ev>> \in Causes
        /\ txs[HookTx(h)].status \in TransactionStatuses
        /\ txs[HookTx(h)].intent \in Intents
        /\ intents[txs[HookTx(h)].intent].status \in IntentStatuses
  <2>1. SUFFICES ASSUME hook[h].pc \in Resolved
                 PROVE  /\ HookTx(h) \in Payments /\ TxExists(HookTx(h)) /\ hook[h].ev \in Events
    BY DEF Causes, Txs, TablesTypeOK, RowsWellFormed, TxRow, IntentRow, TxExists
  <2> QED
    BY <1>1, <2>1 DEF HookShape, EventShape, HookTx, Resolved
<1>5. UNCHANGED outbox => OutboxTypeOK'
  BY DEF OutboxTypeOK
<1>6. ASSUME NEW e \in Events, NEW outcome \in Outcomes, NEW p \in Payments,
             ReceiveEvent(h, e, p, outcome)
      PROVE  OutboxTypeOK' /\ WebhookInv'
  <2> DEFINE new == [pc |-> "claim", ev |-> e, outcome |-> outcome, seen |-> "none"]
             row == [status |-> "pending", tx |-> p, outcome |-> outcome]
  <2>1. /\ inbox[e].status = "absent" /\ inbox' = [inbox EXCEPT ![e] = row]
        /\ hook' = [hook EXCEPT ![h] = new] /\ UNCHANGED <<tables, provider, outbox>>
    BY <1>6 DEF ReceiveEvent, StartHook
  <2>2. new \in HookCall /\ new.pc = "claim" /\ new.ev = e /\ row \in EventRow
    BY DEF HookCall, EventRow
  <2>3. row.status = "pending" /\ row.tx = p
    OBVIOUS
  <2> HIDE DEF new, row
  <2>4. /\ inbox' \in [Events -> EventRow] /\ inbox'[e].status = "pending"
        /\ inbox'[e].tx = p /\ \A d \in Events : d # e => inbox'[d] = inbox[d]
    BY <1>1, <2>1, <2>2, <2>3 DEF WebhookTypeOK
  <2>5. /\ \A d \in Events : inbox[d].status # "absent" =>
              inbox'[d].status # "absent" /\ inbox'[d].tx = inbox[d].tx
        /\ \A d \in Events : inbox'[d].status # "absent" => inbox'[d].tx \in Payments
    BY <1>1, <2>1, <2>4 DEF EventShape
  <2> QED
    BY <1>5, <2>1, <2>2, <2>4, <2>5, HookWritten DEF Resolved
<1>7. ASSUME NEW e \in Events, NEW outcome \in Outcomes, ReceiveAgain(h, e, outcome)
      PROVE  OutboxTypeOK' /\ WebhookInv'
  <2> DEFINE new == [pc |-> "claim", ev |-> e, outcome |-> outcome, seen |-> "none"]
  <2>1. /\ inbox[e].status # "absent" /\ inbox' = inbox
        /\ hook' = [hook EXCEPT ![h] = new] /\ UNCHANGED <<tables, provider, outbox>>
    BY <1>7 DEF ReceiveAgain, StartHook
  <2>2. new \in HookCall /\ new.pc = "claim" /\ new.ev = e
    BY DEF HookCall
  <2> HIDE DEF new
  <2> QED
    BY <1>1, <1>5, <2>1, <2>2, HookWritten DEF Resolved, WebhookTypeOK, EventShape
<1>8. CASE ClaimEvent(h)
  BY <1>5, <1>8, HookMoved DEF ClaimEvent
<1>9. CASE ResolveEvent(h)
  <2> DEFINE p == HookTx(h)
             new == [hook[h] EXCEPT !.pc = "apply", !.seen = txs[p].status]
  <2>1. hook[h].pc = "resolve" /\ UNCHANGED <<tables, provider, inbox, outbox>>
    BY <1>9 DEF ResolveEvent
  <2>2. CASE ~(TxExists(p) /\ txs[p].routable)
    BY <1>5, <1>9, <2>1, <2>2, HookMoved DEF ResolveEvent
  <2>3. CASE TxExists(p) /\ txs[p].routable
    <3>1. hook' = [hook EXCEPT ![h] = new]
      BY <1>9, <2>3 DEF ResolveEvent
    <3>2. /\ hook[h].ev \in Events /\ inbox[hook[h].ev].status # "absent"
          /\ p \in Payments /\ p = inbox[hook[h].ev].tx
      BY <1>1, <2>1 DEF HookShape, EventShape, HookTx
    <3>3. txs[p].status \in TransactionStatuses /\ txs'[p].status # "absent"
      BY <2>1, <2>3, <3>2 DEF TxExists, TablesTypeOK, TxRow, Txs, tables
    <3>4. new \in HookCall /\ new.pc = "apply" /\ new.ev = hook[h].ev
      BY <1>1, <3>3 DEF HookCall
    <3> HIDE DEF new, p
    <3> QED
      BY <1>1, <1>5, <2>1, <3>1, <3>2, <3>3, <3>4, HookWritten
         DEF WebhookTypeOK, EventShape
  <2> QED
    BY <2>2, <2>3
<1>10. CASE FailUnknown(h)
  BY <1>5, <1>10, HookMoved DEF FailUnknown
<1>11. CASE ApplySuccess(h)
  <2>1. /\ hook[h].pc = "apply" /\ UNCHANGED <<provider, inbox, outbox>>
        /\ CreditPayment(HookTx(h)) \/ UNCHANGED tables
        /\ hook' = [hook EXCEPT ![h] = [hook[h] EXCEPT !.pc = "mark", !.seen = "succeeded"]]
    BY <1>11 DEF ApplySuccess
  <2>2. "succeeded" \in TransactionStatuses /\ "apply" \in Resolved
    BY DEF TransactionStatuses, Resolved
  <2> QED
    BY <1>5, <2>1, <2>2, HookMoved
<1>12. CASE ApplySuccessThrows(h)
  BY <1>5, <1>12, HookMoved DEF ApplySuccessThrows
<1>13. CASE SkipEvent(h)
  <2>1. /\ hook[h].pc \in Resolved /\ UNCHANGED <<tables, provider, inbox, outbox>>
        /\ hook[h].pc # "idle"
        /\ \E pc \in Resolved : HookTo(h, pc)
    BY <1>13 DEF SkipEvent, Resolved
  <2> QED
    BY <1>5, <2>1, HookMoved
<1>14. CASE ApplyClosure(h)
  <2> DEFINE outcome == hook[h].outcome
  <2>1. /\ hook[h].pc = "apply" /\ UNCHANGED <<provider, inbox, outbox>>
        /\ SetTxStatus(HookTx(h), outcome) /\ outcome \in {"failed", "cancelled", "expired"}
        /\ hook' = [hook EXCEPT ![h] = [hook[h] EXCEPT !.pc = "mark", !.seen = outcome]]
    BY <1>14 DEF ApplyClosure
  <2>2. outcome \in TransactionStatuses /\ "apply" \in Resolved
    BY <2>1 DEF TransactionStatuses, Resolved
  <2> QED
    BY <1>5, <2>1, <2>2, HookMoved
<1>15. CASE MarkProcessed(h)
  <2>1. /\ hook[h].pc \in Resolved /\ hook[h].pc # "idle" /\ "emit_tx" \in Resolved
        /\ SetEventStatus(hook[h].ev, "processed")
        /\ HookTo(h, "emit_tx") \/ HookReturns(h)
        /\ UNCHANGED <<tables, provider, outbox>>
    BY <1>15 DEF MarkProcessed, Resolved
  <2> QED
    BY <1>5, <2>1, HookMoved
<1>16. CASE EmitHookTx(h)
  <2>1. /\ hook[h].pc \in Resolved /\ hook[h].pc # "idle" /\ "emit_intent" \in Resolved
        /\ EmitTransactionStatus(HookTx(h), hook[h].seen, <<"provider", hook[h].ev>>)
        /\ HookTo(h, "emit_intent") /\ UNCHANGED <<tables, provider, inbox>>
    BY <1>16 DEF EmitHookTx, Resolved
  <2>2. OutboxTypeOK'
    BY <1>2, <2>1, EmitTxKeeps
  <2> QED
    BY <2>1, <2>2, HookMoved
<1>17. CASE EmitHookIntent(h)
  <2> DEFINE i == txs[HookTx(h)].intent
  <2>1. /\ hook[h].pc \in Resolved /\ hook[h].pc # "idle"
        /\ EmitIntentStatus(i, intents[i].status, <<"provider", hook[h].ev>>)
        /\ HookReturns(h) /\ UNCHANGED <<tables, provider, inbox>>
    BY <1>17 DEF EmitHookIntent, Resolved
  <2>2. OutboxTypeOK'
    BY <1>2, <2>1, EmitIntentKeeps
  <2> QED
    BY <2>1, <2>2, HookMoved
<1>18. CASE StatementThrows(h)
  BY <1>5, <1>18, HookMoved DEF StatementThrows
<1>19. CASE FailEvent(h)
  BY <1>5, <1>19, HookMoved DEF FailEvent
<1>20. CASE AbortHook(h)
  BY <1>5, <1>20, HookMoved DEF AbortHook
<1> QED
  BY <1>0, <1>6, <1>7, <1>8, <1>9, <1>10, <1>11, <1>12, <1>13, <1>14, <1>15, <1>16, <1>17,
     <1>18, <1>19, <1>20

(* Every step of a webhook call preserves the tables and the outbox.       *)
LEMMA WebhookKeeps ==
  ASSUME TablesInv, ProviderTypeOK, OutboxTypeOK, WebhookInv, WebhookNext
  PROVE  TablesInv' /\ Grows /\ Lawful /\ NoRefund /\ ProviderTypeOK' /\ OutboxTypeOK' /\ WebhookInv'
<1>1. TablesTypeOK /\ RowsWellFormed
  BY DEF TablesInv
<1>2. TablesInv' /\ Grows /\ Lawful /\ NoRefund
  <2>1. CASE UNCHANGED tables
    BY <2>1, TablesStutter
  <2>2. ASSUME NEW p \in Payments, CreditPayment(p)
        PROVE  TablesInv' /\ Grows /\ Lawful /\ NoRefund
    BY <2>2, CreditPaymentKeeps
  <2>3. ASSUME NEW p \in Payments, TxExists(p), NEW status \in {"failed", "cancelled", "expired"},
               SetTxStatus(p, status)
        PROVE  TablesInv' /\ Grows /\ Lawful /\ NoRefund
    <3>1. p \in Txs /\ status \in TransactionStatuses
      BY DEF Txs, TransactionStatuses
    <3> QED
      BY <2>3, <3>1, SetTxStatusKeeps DEF ConfirmableStatuses
  <2> QED
    BY <1>1, <2>1, <2>2, <2>3, WebhookWrites
<1>3. ProviderTypeOK'
  BY <1>1, WebhookWrites DEF ProviderTypeOK, provider
<1> QED
  BY <1>1, <1>2, <1>3, WebhookMoves
-----------------------------------------------------------------------------
(***************************************************************************)
(* What a success that is reported stands for.                             *)
(***************************************************************************)

(* Whatever reports a success does so because the provider captured the    *)
(* charge.                                                                 *)
CapturedEvent(e) ==
    inbox[e].status # "absent" /\ inbox[e].outcome = "succeeded" =>
       charge[inbox[e].tx] = "succeeded"

CapturedHook(h) ==
    hook[h].pc # "idle" /\ hook[h].outcome = "succeeded" => charge[HookTx(h)] = "succeeded"

ReportsInv == (\A e \in Events : CapturedEvent(e)) /\ (\A h \in Hooks : CapturedHook(h))

(* Nothing has been reported.                                              *)
LEMMA ReportsStart == WebhookInit => ReportsInv
  BY DEF WebhookInit, HookIdle, ReportsInv, CapturedEvent, CapturedHook

(* Captured charges stay captured, so that old reports stay true.          *)
LEMMA ReportsStable ==
  ASSUME ReportsInv, WebhookInv, UNCHANGED webhookVars,
         \A p \in Payments : charge[p] = "succeeded" => charge'[p] = "succeeded"
  PROVE  ReportsInv'
<1>1. inbox' = inbox /\ hook' = hook /\ \A h \in Hooks : HookTx(h)' = HookTx(h)
  BY DEF webhookVars, HookTx
<1>2. \A e \in Events : CapturedEvent(e)'
  BY <1>1 DEF ReportsInv, CapturedEvent, WebhookInv, EventShape
<1>3. ASSUME NEW h \in Hooks PROVE CapturedHook(h)'
  <2>1. hook[h].pc # "idle" => HookTx(h) \in Payments
    BY DEF WebhookInv, HookShape, EventShape, HookTx
  <2> QED
    BY <1>1, <2>1 DEF ReportsInv, CapturedHook
<1> QED
  BY <1>2, <1>3 DEF ReportsInv

(* Nor does it disturb the calls that another marks an event.              *)
LEMMA MarkedBeside ==
  ASSUME WebhookInv, ReportsInv, Grows, hook' = hook, NEW e \in Events,
         inbox[e].status # "absent",
         NEW status \in {"pending", "processing", "processed", "failed"},
         SetEventStatus(e, status),
         \A p \in Payments : charge[p] = "succeeded" => charge'[p] = "succeeded"
  PROVE  WebhookInv' /\ ReportsInv'
<1>1. /\ EventsStay /\ inbox' \in [Events -> EventRow]
      /\ \A d \in Events : inbox'[d] = inbox[d] \/ (d = e /\ inbox'[d].status = status)
  BY EventMarked
<1>2. ASSUME NEW d \in Events PROVE EventShape(d)' /\ CapturedEvent(d)'
  BY <1>1 DEF EventsStay, WebhookInv, ReportsInv, EventShape, CapturedEvent
<1>3. ASSUME NEW h \in Hooks PROVE HookShape(h)' /\ CapturedHook(h)'
  <2>1. CASE hook[h].pc = "idle"
    BY <2>1 DEF HookShape, CapturedHook, Resolved
  <2>2. CASE hook[h].pc # "idle"
    <3>1. PICK d \in Events : d = hook[h].ev /\ inbox[d].status # "absent"
      BY <2>2 DEF WebhookInv, HookShape
    <3>2. PICK p \in Payments : p = inbox[d].tx /\ p \in Txs
      BY <3>1 DEF WebhookInv, EventShape, Txs
    <3>3. inbox'[d].status # "absent" /\ inbox'[d].tx = p
      BY <1>1, <3>1, <3>2 DEF EventsStay
    <3> QED
      BY <3>1, <3>2, <3>3 DEF WebhookInv, ReportsInv, HookShape, CapturedHook, HookTx, Grows
  <2> QED
    BY <2>1, <2>2
<1> QED
  BY <1>1, <1>2, <1>3 DEF WebhookInv, WebhookTypeOK, ReportsInv

(* A step of a webhook call: what it reports was captured.                 *)
LEMMA CapturedByHook ==
  ASSUME ReportsInv, WebhookInv, WebhookTypeOK, UNCHANGED provider,
         NEW h \in Hooks, NEW new, hook' = [hook EXCEPT ![h] = new],
         \A e \in Events : inbox[e].status # "absent" =>
            inbox'[e].tx = inbox[e].tx /\ inbox'[e].outcome = inbox[e].outcome,
         \A e \in Events : inbox[e].status = "absent" => inbox'[e] = inbox[e] \/ CapturedEvent(e)',
         new.pc # "idle" /\ new.outcome = "succeeded" => charge[inbox'[new.ev].tx] = "succeeded"
  PROVE  ReportsInv'
<1>0. charge' = charge
  BY DEF provider
<1>2. \A e \in Events : CapturedEvent(e)'
  BY <1>0 DEF ReportsInv, CapturedEvent
<1>3. ASSUME NEW g \in Hooks PROVE CapturedHook(g)'
  <2>1. CASE g = h
    <3>1. hook'[g] = new
      BY <2>1 DEF WebhookTypeOK
    <3> QED
      BY <1>0, <3>1 DEF CapturedHook, HookTx
  <2>2. CASE g # h
    <3>1. hook'[g] = hook[g] /\ (hook[g].pc # "idle" => HookTx(g)' = HookTx(g))
      BY <2>2 DEF WebhookTypeOK, WebhookInv, HookShape, HookTx
    <3> QED
      BY <1>0, <3>1 DEF ReportsInv, CapturedHook
  <2> QED
    BY <2>1, <2>2
<1> QED
  BY <1>2, <1>3 DEF ReportsInv

(* Every step of a webhook call reports, and credits, only what was        *)
(* captured.                                                               *)
LEMMA CapturedByWebhookNext ==
  ASSUME ReportsInv, WebhookInv, TablesTypeOK, WebhookNext
  PROVE  /\ ReportsInv'
         /\ \A p \in Payments \cap credited' : p \in credited \/ charge[p] = "succeeded"
<1> DEFINE Goal ==
      /\ ReportsInv'
      /\ \A p \in Payments \cap credited' : p \in credited \/ charge[p] = "succeeded"
<1>0. PICK h \in Hooks :
        \/ \E e \in Events, outcome \in Outcomes :
             \/ \E p \in Payments : ReceiveEvent(h, e, p, outcome)
             \/ ReceiveAgain(h, e, outcome)
        \/ ClaimEvent(h) \/ ResolveEvent(h) \/ FailUnknown(h)
        \/ ApplySuccess(h) \/ ApplySuccessThrows(h) \/ SkipEvent(h) \/ ApplyClosure(h)
        \/ MarkProcessed(h) \/ EmitHookTx(h) \/ EmitHookIntent(h)
        \/ StatementThrows(h) \/ FailEvent(h) \/ AbortHook(h)
  BY DEF WebhookNext
<1>1. /\ WebhookTypeOK /\ hook[h] \in HookCall /\ HookShape(h) /\ CapturedHook(h)
      /\ \A e \in Events : EventShape(e) /\ CapturedEvent(e)
  BY DEF WebhookInv, WebhookTypeOK, ReportsInv
<1>2. UNCHANGED tables => credited' = credited
  BY DEF tables
<1>3. ASSUME hook[h].pc # "idle", UNCHANGED provider, NEW new \in HookCall,
             hook' = [hook EXCEPT ![h] = new],
             new.pc # "idle" => new.ev = hook[h].ev /\ new.outcome = hook[h].outcome,
             UNCHANGED inbox \/ \E status : SetEventStatus(hook[h].ev, status),
             \/ credited' = credited
             \/ hook[h].outcome = "succeeded" /\ credited' = credited \cup {HookTx(h)}
      PROVE  Goal
  <2>1. hook[h].ev \in Events /\ inbox[hook[h].ev].status # "absent"
    BY <1>1, <1>3 DEF HookShape
  <2>2. \A e \in Events : /\ inbox'[e].tx = inbox[e].tx /\ inbox'[e].outcome = inbox[e].outcome
                          /\ inbox[e].status = "absent" => inbox'[e] = inbox[e]
    <3>1. CASE UNCHANGED inbox
      BY <3>1
    <3>2. CASE \E status : SetEventStatus(hook[h].ev, status)
      <4>1. PICK status : inbox' = [inbox EXCEPT ![hook[h].ev].status = status]
        BY <3>2 DEF SetEventStatus
      <4>2. ASSUME NEW e \in Events
            PROVE  /\ inbox'[e].tx = inbox[e].tx /\ inbox'[e].outcome = inbox[e].outcome
                   /\ inbox[e].status = "absent" => inbox'[e] = inbox[e]
        BY <1>1, <2>1, <4>1 DEF WebhookTypeOK, EventRow
      <4> QED
        BY <4>2
    <3> QED
      BY <1>3, <3>1, <3>2
  <2>3. \A p \in Payments \cap credited' : p \in credited \/ charge[p] = "succeeded"
    BY <1>1, <1>3 DEF CapturedHook
  <2>4. new.pc # "idle" /\ new.outcome = "succeeded" => charge[inbox'[new.ev].tx] = "succeeded"
    BY <1>1, <1>3, <2>1, <2>2 DEF CapturedHook, HookTx
  <2> QED
    BY <1>1, <1>3, <2>2, <2>3, <2>4, CapturedByHook
<1>4. ASSUME NEW step, HookTo(h, step),
             step \in {"resolve", "unknown", "apply", "mark", "mark_only", "emit_tx",
                       "emit_intent", "fail"},
             hook[h].pc # "idle", UNCHANGED provider, credited' = credited,
             UNCHANGED inbox \/ \E status : SetEventStatus(hook[h].ev, status)
      PROVE  Goal
  <2> DEFINE new == [hook[h] EXCEPT !.pc = step]
  <2>1. /\ new \in HookCall /\ new.ev = hook[h].ev /\ new.outcome = hook[h].outcome
        /\ hook' = [hook EXCEPT ![h] = new]
    BY <1>1, <1>4 DEF HookCall, HookTo
  <2> HIDE DEF new
  <2> QED
    BY <1>3, <1>4, <2>1
<1>5. ASSUME HookReturns(h), hook[h].pc # "idle", UNCHANGED provider, credited' = credited,
             UNCHANGED inbox \/ \E status : SetEventStatus(hook[h].ev, status)
      PROVE  Goal
  <2>1. HookIdle \in HookCall /\ HookIdle.pc = "idle"
    BY DEF HookIdle, HookCall
  <2> QED
    BY <1>3, <1>5, <2>1 DEF HookReturns
<1>6. ASSUME NEW e \in Events, NEW outcome \in Outcomes, NEW p \in Payments,
             ReceiveEvent(h, e, p, outcome)
      PROVE  Goal
  <2> DEFINE new == [pc |-> "claim", ev |-> e, outcome |-> outcome, seen |-> "none"]
             row == [status |-> "pending", tx |-> p, outcome |-> outcome]
  <2>1. /\ hook' = [hook EXCEPT ![h] = new] /\ UNCHANGED provider /\ credited' = credited
        /\ inbox' = [inbox EXCEPT ![e] = row] /\ inbox[e].status = "absent"
        /\ Reportable(p, outcome)
    BY <1>2, <1>6 DEF ReceiveEvent, StartHook
  <2>2. outcome = "succeeded" => charge[p] = "succeeded"
    BY <2>1 DEF Reportable
  <2>3. inbox'[e] = row /\ charge' = charge /\ \A d \in Events : d # e => inbox'[d] = inbox[d]
    BY <1>1, <2>1 DEF WebhookTypeOK, provider
  <2>4. CapturedEvent(e)'
    BY <2>2, <2>3 DEF CapturedEvent
  <2>5. new.ev = e /\ new.outcome = outcome /\ inbox'[e].tx = p
    BY <2>3
  <2> HIDE DEF new, row
  <2> QED
    BY <1>1, <2>1, <2>2, <2>3, <2>4, <2>5, CapturedByHook
<1>7. ASSUME NEW e \in Events, NEW outcome \in Outcomes, ReceiveAgain(h, e, outcome)
      PROVE  Goal
  <2> DEFINE new == [pc |-> "claim", ev |-> e, outcome |-> outcome, seen |-> "none"]
  <2>1. /\ hook' = [hook EXCEPT ![h] = new] /\ UNCHANGED provider /\ credited' = credited
        /\ inbox' = inbox /\ inbox[e].status # "absent"
        /\ outcome = inbox[e].outcome \/ Reportable(inbox[e].tx, outcome)
    BY <1>2, <1>7 DEF ReceiveAgain, StartHook
  <2>2. outcome = "succeeded" => charge[inbox[e].tx] = "succeeded"
    BY <1>1, <2>1 DEF Reportable, CapturedEvent
  <2> QED
    BY <1>1, <2>1, <2>2, CapturedByHook
<1>8. CASE ClaimEvent(h)
  BY <1>2, <1>4, <1>5, <1>8 DEF ClaimEvent
<1>9. ASSUME NEW seen \in TransactionStatuses, NEW pc \in {"apply", "mark"},
             hook' = [hook EXCEPT ![h] = [hook[h] EXCEPT !.pc = pc, !.seen = seen]],
             hook[h].pc # "idle", UNCHANGED <<provider, inbox>>,
             \/ credited' = credited
             \/ hook[h].outcome = "succeeded" /\ credited' = credited \cup {HookTx(h)}
      PROVE  Goal
  <2> DEFINE new == [hook[h] EXCEPT !.pc = pc, !.seen = seen]
  <2>1. new \in HookCall /\ new.ev = hook[h].ev /\ new.outcome = hook[h].outcome
    BY <1>1 DEF HookCall
  <2>2. hook' = [hook EXCEPT ![h] = new]
    BY <1>9
  <2> HIDE DEF new
  <2> QED
    BY <1>3, <1>9, <2>1, <2>2
<1>10. CASE ResolveEvent(h)
  <2>1. hook[h].pc = "resolve" /\ UNCHANGED <<tables, provider, inbox>>
    BY <1>10 DEF ResolveEvent
  <2>2. CASE TxExists(HookTx(h)) /\ txs[HookTx(h)].routable
    <3>1. txs[HookTx(h)].status \in TransactionStatuses
      BY <1>1, <2>1, <2>2 DEF HookShape, EventShape, HookTx, TablesTypeOK, TxRow,
         TxExists, Txs
    <3>2. hook' = [hook EXCEPT ![h] = [hook[h] EXCEPT !.pc = "apply",
                                                      !.seen = txs[HookTx(h)].status]]
      BY <1>10, <2>2 DEF ResolveEvent
    <3> QED
      BY <1>2, <1>9, <2>1, <3>1, <3>2
  <2>3. CASE ~(TxExists(HookTx(h)) /\ txs[HookTx(h)].routable)
    BY <1>2, <1>4, <1>10, <2>1, <2>3 DEF ResolveEvent
  <2> QED
    BY <2>2, <2>3
<1>11. CASE FailUnknown(h)
  BY <1>2, <1>5, <1>11 DEF FailUnknown
<1>12. CASE ApplySuccess(h)
  <2>1. /\ hook[h].pc = "apply" /\ UNCHANGED <<provider, inbox>> /\ hook[h].outcome = "succeeded"
        /\ hook' = [hook EXCEPT ![h] = [hook[h] EXCEPT !.pc = "mark", !.seen = "succeeded"]]
        /\ credited' = credited \/ credited' = credited \cup {HookTx(h)}
    BY <1>2, <1>12 DEF ApplySuccess, CreditPayment
  <2> QED
    BY <1>9, <2>1 DEF TransactionStatuses
<1>13. CASE ApplySuccessThrows(h)
  BY <1>2, <1>4, <1>13 DEF ApplySuccessThrows
<1>14. CASE SkipEvent(h)
  <2>1. /\ hook[h].pc = "apply" /\ UNCHANGED <<tables, provider, inbox>>
        /\ HookTo(h, "mark") \/ HookTo(h, "mark_only")
    BY <1>14 DEF SkipEvent
  <2> QED
    BY <1>2, <1>4, <2>1
<1>15. CASE ApplyClosure(h)
  <2>1. /\ hook[h].pc = "apply" /\ UNCHANGED <<provider, inbox>> /\ credited' = credited
        /\ hook[h].outcome \in {"failed", "cancelled", "expired"}
        /\ hook' = [hook EXCEPT ![h] = [hook[h] EXCEPT !.pc = "mark", !.seen = hook[h].outcome]]
    BY <1>15 DEF ApplyClosure, SetTxStatus
  <2> QED
    BY <1>9, <2>1 DEF TransactionStatuses
<1>16. CASE MarkProcessed(h)
  BY <1>2, <1>4, <1>5, <1>16 DEF MarkProcessed
<1>17. CASE EmitHookTx(h)
  BY <1>2, <1>4, <1>17 DEF EmitHookTx
<1>18. CASE EmitHookIntent(h)
  BY <1>2, <1>5, <1>18 DEF EmitHookIntent
<1>19. CASE StatementThrows(h)
  BY <1>2, <1>4, <1>19 DEF StatementThrows
<1>20. CASE FailEvent(h)
  BY <1>2, <1>5, <1>20 DEF FailEvent
<1>21. CASE AbortHook(h)
  BY <1>2, <1>5, <1>21 DEF AbortHook
<1> QED
  BY <1>0, <1>6, <1>7, <1>8, <1>10, <1>11, <1>12, <1>13, <1>14, <1>15, <1>16, <1>17, <1>18,
     <1>19, <1>20, <1>21
-----------------------------------------------------------------------------
(***************************************************************************)
(* What a processed event stands for.                                      *)
(***************************************************************************)
Settling(outcome) == outcome \notin {"ignored", "requires_action"}

Shut(p) == TxExists(p) /\ txs[p].status \notin ConfirmableStatuses

(* What a processed event leaves of its transaction.                       *)
Applied(p) == TxExists(p) /\ (~InvoiceScopedIds => Shut(p))

AppliedEvent(e) == inbox[e].status = "processed" /\ Settling(inbox[e].outcome) =>
                      Applied(inbox[e].tx)

(* What a call that found its transaction has applied, or has read.        *)
AppliedHook(h) ==
    /\ ~InvoiceScopedIds /\ hook[h].pc # "idle" => hook[h].outcome = inbox[hook[h].ev].outcome
    /\ hook[h].pc = "apply" /\ hook[h].seen \in WebhookTerminal => Shut(HookTx(h))
    /\ hook[h].pc \in Resolved \ {"apply"} /\ Settling(inbox[hook[h].ev].outcome) =>
          Applied(HookTx(h))
    /\ hook[h].pc \in Resolved \ {"apply"} /\ Settling(hook[h].outcome) => Shut(HookTx(h))

AppliedInv == (\A e \in Events : AppliedEvent(e)) /\ (\A h \in Hooks : AppliedHook(h))

(* What is closed stays closed.                                            *)
LEMMA AppliedStays ==
  ASSUME Grows, StaysClosed, NEW p \in Payments
  PROVE  (Shut(p) => Shut(p)') /\ (Applied(p) => Applied(p)')
  BY DEF Grows, StaysClosed, Shut, Applied, TxExists, Txs

(* A step that marks no event processed before it is applied.              *)
LEMMA AppliedWritten ==
  ASSUME AppliedInv, WebhookInv, Grows, StaysClosed, EventsStay,
         \A h \in Hooks : hook'[h] = hook[h] \/ AppliedHook(h)',
         \A e \in Events : inbox'[e].status = "processed" =>
            inbox[e].status = "processed" \/ AppliedEvent(e)'
  PROVE  AppliedInv'
<1>1. ASSUME NEW e \in Events PROVE AppliedEvent(e)'
  <2>1. CASE inbox[e].status = "processed"
    <3>1. inbox[e].tx \in Payments
      BY <2>1 DEF WebhookInv, EventShape
    <3>2. inbox'[e].tx = inbox[e].tx /\ inbox'[e].outcome = inbox[e].outcome
      BY <2>1 DEF EventsStay
    <3>3. PICK p \in Payments : p = inbox[e].tx
      BY <3>1
    <3> QED
      BY <2>1, <3>2, <3>3, AppliedStays DEF AppliedInv, AppliedEvent
  <2>2. CASE inbox[e].status # "processed"
    BY <2>2 DEF AppliedEvent
  <2> QED
    BY <2>1, <2>2
<1>2. ASSUME NEW h \in Hooks, hook'[h] = hook[h] PROVE AppliedHook(h)'
  <2>1. CASE hook[h].pc = "idle"
    BY <1>2, <2>1 DEF AppliedHook, Resolved
  <2>2. CASE hook[h].pc # "idle"
    <3>1. PICK e \in Events : e = hook[h].ev /\ inbox[e].status # "absent"
      BY <2>2 DEF WebhookInv, HookShape
    <3>2. PICK p \in Payments : p = inbox[e].tx
      BY <3>1 DEF WebhookInv, EventShape
    <3>3. /\ hook'[h] = hook[h] /\ inbox'[e].tx = p /\ inbox'[e].outcome = inbox[e].outcome
      BY <1>2, <3>1, <3>2 DEF EventsStay
    <3> QED
      BY <3>1, <3>2, <3>3, AppliedStays DEF AppliedInv, AppliedHook, HookTx
  <2> QED
    BY <2>1, <2>2
<1> QED
  BY <1>1, <1>2 DEF AppliedInv

(* Every step of a webhook call applies an event before marking it.        *)
LEMMA AppliedNext ==
  ASSUME AppliedInv, WebhookInv, TablesTypeOK, Grows, StaysClosed, WebhookNext
  PROVE  AppliedInv'
<1>0. PICK h \in Hooks :
        \/ \E e \in Events, outcome \in Outcomes :
             \/ \E p \in Payments : ReceiveEvent(h, e, p, outcome)
             \/ ReceiveAgain(h, e, outcome)
        \/ ClaimEvent(h) \/ ResolveEvent(h) \/ FailUnknown(h)
        \/ ApplySuccess(h) \/ ApplySuccessThrows(h) \/ SkipEvent(h) \/ ApplyClosure(h)
        \/ MarkProcessed(h) \/ EmitHookTx(h) \/ EmitHookIntent(h)
        \/ StatementThrows(h) \/ FailEvent(h) \/ AbortHook(h)
  BY DEF WebhookNext
<1>1. /\ WebhookTypeOK /\ hook[h] \in HookCall /\ HookShape(h) /\ AppliedHook(h)
      /\ EventsStay /\ \A e \in Events : EventShape(e) /\ AppliedEvent(e)
  BY EventsKept DEF WebhookInv, WebhookTypeOK, AppliedInv
<1>2. ASSUME hook[h].pc = "idle", NEW e \in Events, NEW outcome \in Outcomes,
             StartHook(h, e, outcome), ~InvoiceScopedIds => inbox'[e].outcome = outcome,
             \A d \in Events : inbox'[d] = inbox[d] \/ (d = e /\ inbox[d].status = "absent"
                                                             /\ inbox'[d].status = "pending")
      PROVE  AppliedInv'
  <2>1. /\ hook'[h].pc = "claim" /\ hook'[h].ev = e /\ hook'[h].outcome = outcome
        /\ \A g \in Hooks : g # h => hook'[g] = hook[g]
    BY <1>1, <1>2 DEF StartHook, WebhookTypeOK
  <2>2. AppliedHook(h)'
    BY <1>2, <2>1 DEF AppliedHook, Resolved
  <2>3. /\ \A d \in Events : inbox[d].status # "absent" => inbox'[d] = inbox[d]
        /\ \A d \in Events : inbox'[d].status = "processed" => inbox[d].status = "processed"
    BY <1>2
  <2> QED
    BY <1>1, <2>1, <2>2, <2>3, AppliedWritten
<1>3. ASSUME hook[h].pc # "idle", NEW new \in HookCall, hook' = [hook EXCEPT ![h] = new],
             new.pc # "idle" => new.ev = hook[h].ev /\ new.outcome = hook[h].outcome,
             NEW status, UNCHANGED inbox \/ SetEventStatus(hook[h].ev, status),
             status = "processed" => hook[h].pc \in Resolved \ {"apply"},
             new.pc = "apply" /\ new.seen \in WebhookTerminal => Shut(HookTx(h)),
             new.pc \in Resolved \ {"apply"} /\ Settling(inbox[hook[h].ev].outcome) =>
                \/ hook[h].pc \in Resolved \ {"apply"}
                \/ txs'[HookTx(h)].status \notin ConfirmableStatuses \cup {"absent"}
                \/ Applied(HookTx(h)),
             new.pc \in Resolved \ {"apply"} /\ Settling(hook[h].outcome) =>
                \/ hook[h].pc \in Resolved \ {"apply"}
                \/ txs'[HookTx(h)].status \notin ConfirmableStatuses \cup {"absent"}
                \/ Shut(HookTx(h))
      PROVE  AppliedInv'
  <2>1. PICK e \in Events : e = hook[h].ev /\ inbox[e].status # "absent"
    BY <1>1, <1>3 DEF HookShape
  <2>2. PICK p \in Payments : p = inbox[e].tx /\ p = HookTx(h)
    BY <1>1, <2>1 DEF EventShape, HookTx
  <2>3. /\ \A d \in Events : inbox'[d].tx = inbox[d].tx /\ inbox'[d].outcome = inbox[d].outcome
        /\ \A d \in Events : inbox'[d].status = inbox[d].status \/ (d = e /\ inbox'[d].status = status)
    <3>1. CASE UNCHANGED inbox
      BY <3>1
    <3>2. CASE SetEventStatus(hook[h].ev, status)
      <4>1. inbox' = [inbox EXCEPT ![e].status = status]
        BY <2>1, <3>2 DEF SetEventStatus
      <4>2. ASSUME NEW d \in Events
            PROVE  /\ inbox'[d].tx = inbox[d].tx /\ inbox'[d].outcome = inbox[d].outcome
                   /\ inbox'[d].status = inbox[d].status \/ (d = e /\ inbox'[d].status = status)
        BY <1>1, <4>1 DEF WebhookTypeOK, EventRow
      <4> QED
        BY <4>2
    <3> QED
      BY <1>3, <3>1, <3>2
  <2>4. hook'[h] = new /\ \A g \in Hooks : g # h => hook'[g] = hook[g]
    BY <1>1, <1>3 DEF WebhookTypeOK
  <2>5. hook[h].pc \in Resolved \ {"apply"} /\ Settling(inbox[e].outcome) => Applied(p)
    BY <1>1, <2>1, <2>2 DEF AppliedHook
  <2>6. new.pc \in Resolved \ {"apply"} /\ Settling(inbox[e].outcome) => Applied(p)'
    <3>1. Applied(p) => Applied(p)'
      BY AppliedStays
    <3>2. txs'[p].status \notin ConfirmableStatuses \cup {"absent"} => Applied(p)'
      BY DEF Applied, Shut, TxExists
    <3> QED
      BY <1>3, <2>1, <2>2, <2>5, <3>1, <3>2
  <2>7. new.pc = "apply" /\ new.seen \in WebhookTerminal => Shut(p)'
    BY <1>3, <2>2, AppliedStays
  <2>11. new.pc \in Resolved \ {"apply"} /\ Settling(hook[h].outcome) => Shut(p)'
    <3>1. Shut(p) => Shut(p)'
      BY AppliedStays
    <3>2. txs'[p].status \notin ConfirmableStatuses \cup {"absent"} => Shut(p)'
      BY DEF Shut, TxExists
    <3> QED
      BY <1>1, <1>3, <2>2, <3>1, <3>2 DEF AppliedHook
  <2>8. ~InvoiceScopedIds /\ new.pc # "idle" => new.outcome = inbox[e].outcome
    BY <1>1, <1>3, <2>1 DEF AppliedHook
  <2>9. AppliedHook(h)'
    <3>1. CASE new.pc = "idle"
      BY <2>4, <3>1 DEF AppliedHook, Resolved
    <3>2. CASE new.pc # "idle"
      <4>1. new.ev = e /\ inbox'[e].tx = p /\ inbox'[e].outcome = inbox[e].outcome
        BY <1>3, <2>1, <2>2, <2>3, <3>2
      <4> QED
        BY <1>3, <2>4, <2>6, <2>7, <2>8, <2>11, <3>2, <4>1 DEF AppliedHook, HookTx
    <3> QED
      BY <3>1, <3>2
  <2>10. ASSUME NEW d \in Events, inbox'[d].status = "processed", inbox[d].status # "processed"
         PROVE  AppliedEvent(d)'
    <3>1. d = e /\ status = "processed"
      BY <2>3, <2>10
    <3>2. Settling(inbox[e].outcome) => Applied(p)'
      BY <1>3, <2>5, <3>1, AppliedStays
    <3> QED
      BY <2>2, <2>3, <3>1, <3>2 DEF AppliedEvent
  <2> QED
    BY <1>1, <2>3, <2>4, <2>9, <2>10, AppliedWritten
<1>4. ASSUME NEW step, HookTo(h, step), hook[h].pc # "idle",
             step \in {"resolve", "unknown", "mark", "mark_only", "emit_tx", "emit_intent", "fail"},
             NEW status, UNCHANGED inbox \/ SetEventStatus(hook[h].ev, status),
             status = "processed" => hook[h].pc \in Resolved \ {"apply"},
             step \in Resolved /\ Settling(inbox[hook[h].ev].outcome) =>
                hook[h].pc \in Resolved \ {"apply"} \/ Applied(HookTx(h)),
             step \in Resolved /\ Settling(hook[h].outcome) =>
                hook[h].pc \in Resolved \ {"apply"} \/ Shut(HookTx(h))
      PROVE  AppliedInv'
  <2> DEFINE new == [hook[h] EXCEPT !.pc = step]
  <2>1. /\ new \in HookCall /\ new.ev = hook[h].ev /\ new.outcome = hook[h].outcome
        /\ new.pc = step /\ hook' = [hook EXCEPT ![h] = new]
    BY <1>1, <1>4 DEF HookCall, HookTo
  <2> HIDE DEF new
  <2> QED
    BY <1>3, <1>4, <2>1
<1>5. ASSUME HookReturns(h), hook[h].pc # "idle",
             NEW status, UNCHANGED inbox \/ SetEventStatus(hook[h].ev, status),
             status = "processed" => hook[h].pc \in Resolved \ {"apply"}
      PROVE  AppliedInv'
  <2>1. HookIdle \in HookCall /\ HookIdle.pc = "idle"
    BY DEF HookIdle, HookCall
  <2> QED
    BY <1>3, <1>5, <2>1 DEF HookReturns, Resolved
<1>6. ASSUME NEW seen \in TransactionStatuses, NEW pc \in {"apply", "mark"},
             hook' = [hook EXCEPT ![h] = [hook[h] EXCEPT !.pc = pc, !.seen = seen]],
             hook[h].pc # "idle", UNCHANGED inbox,
             pc = "apply" /\ seen \in WebhookTerminal => Shut(HookTx(h)),
             pc = "mark" => txs'[HookTx(h)].status \notin ConfirmableStatuses \cup {"absent"}
      PROVE  AppliedInv'
  <2> DEFINE new == [hook[h] EXCEPT !.pc = pc, !.seen = seen]
  <2>1. /\ new \in HookCall /\ new.ev = hook[h].ev /\ new.outcome = hook[h].outcome
        /\ new.pc = pc /\ new.seen = seen
    BY <1>1 DEF HookCall
  <2>2. hook' = [hook EXCEPT ![h] = new] /\ "pending" # "processed"
    BY <1>6
  <2> HIDE DEF new
  <2> QED
    BY <1>3, <1>6, <2>1, <2>2 DEF Resolved
<1>7. hook[h].pc \in Resolved => /\ HookTx(h) \in Payments /\ HookTx(h) \in Txs
                                 /\ TxExists(HookTx(h))
  BY <1>1 DEF HookShape, EventShape, HookTx, Resolved, Txs
<1>8. ASSUME NEW e \in Events, NEW outcome \in Outcomes, NEW p \in Payments,
             ReceiveEvent(h, e, p, outcome)
      PROVE  AppliedInv'
  <2>1. /\ hook[h].pc = "idle" /\ StartHook(h, e, outcome) /\ inbox[e].status = "absent"
        /\ inbox' = [inbox EXCEPT ![e] = [status |-> "pending", tx |-> p, outcome |-> outcome]]
    BY <1>8 DEF ReceiveEvent, StartHook
  <2>2. /\ inbox'[e].outcome = outcome /\ inbox'[e].status = "pending"
        /\ \A d \in Events : d # e => inbox'[d] = inbox[d]
    BY <1>1, <2>1 DEF WebhookTypeOK
  <2> QED
    BY <1>2, <2>1, <2>2
<1>9. ASSUME NEW e \in Events, NEW outcome \in Outcomes, ReceiveAgain(h, e, outcome)
      PROVE  AppliedInv'
  BY <1>2, <1>9 DEF ReceiveAgain, StartHook
<1>10. CASE ClaimEvent(h)
  BY <1>4, <1>5, <1>10 DEF ClaimEvent, Resolved
<1>11. CASE ResolveEvent(h)
  <2>1. hook[h].pc = "resolve" /\ UNCHANGED inbox
    BY <1>11 DEF ResolveEvent
  <2>2. CASE TxExists(HookTx(h)) /\ txs[HookTx(h)].routable
    <3>1. HookTx(h) \in Txs
      BY <1>1, <2>1 DEF HookShape, EventShape, HookTx, Txs
    <3>2. txs[HookTx(h)].status \in TransactionStatuses
      BY <2>2, <3>1 DEF TablesTypeOK, TxRow, TxExists
    <3>3. hook' = [hook EXCEPT ![h] = [hook[h] EXCEPT !.pc = "apply",
                                                      !.seen = txs[HookTx(h)].status]]
      BY <1>11, <2>2 DEF ResolveEvent
    <3>4. txs[HookTx(h)].status \in WebhookTerminal => Shut(HookTx(h))
      BY <2>2 DEF WebhookTerminal, ConfirmableStatuses, Shut
    <3> QED
      BY <1>6, <2>1, <3>2, <3>3, <3>4
  <2>3. CASE ~(TxExists(HookTx(h)) /\ txs[HookTx(h)].routable)
    <3>1. HookTo(h, "unknown") /\ "pending" # "processed" /\ "unknown" \notin Resolved
      BY <1>11, <2>3 DEF ResolveEvent, Resolved
    <3> QED
      BY <1>4, <2>1, <3>1
  <2> QED
    BY <2>2, <2>3
<1>12. CASE FailUnknown(h)
  BY <1>5, <1>12 DEF FailUnknown
<1>13. CASE ApplySuccess(h)
  <2>1. /\ hook[h].pc = "apply" /\ UNCHANGED inbox
        /\ hook' = [hook EXCEPT ![h] = [hook[h] EXCEPT !.pc = "mark", !.seen = "succeeded"]]
        /\ CreditPayment(HookTx(h)) \/ (PaymentOutcome(HookTx(h)) = "already" /\ UNCHANGED tables)
    BY <1>13 DEF ApplySuccess
  <2>2. txs'[HookTx(h)].status = "succeeded"
    <3>1. HookTx(h) \in Txs
      BY <1>7, <2>1 DEF Resolved
    <3>2. CASE CreditPayment(HookTx(h))
      BY <3>1, <3>2 DEF CreditPayment, TablesTypeOK, TxRow
    <3>3. CASE PaymentOutcome(HookTx(h)) = "already" /\ UNCHANGED tables
      BY <3>3 DEF PaymentOutcome, tables
    <3> QED
      BY <2>1, <3>2, <3>3
  <2> QED
    BY <1>6, <2>1, <2>2 DEF TransactionStatuses, ConfirmableStatuses
<1>14. CASE ApplySuccessThrows(h)
  BY <1>4, <1>14 DEF ApplySuccessThrows, Resolved
<1>15. CASE SkipEvent(h)
  <2>1. /\ hook[h].pc = "apply" /\ UNCHANGED inbox
        /\ hook[h].outcome \in {"ignored", "requires_action"} \/ hook[h].seen \in WebhookTerminal
        /\ HookTo(h, "mark") \/ HookTo(h, "mark_only")
    BY <1>15 DEF SkipEvent
  <2>2. Settling(inbox[hook[h].ev].outcome) => Applied(HookTx(h))
    BY <1>1, <1>7, <2>1 DEF AppliedHook, Applied, Shut, Settling, Resolved
  <2>4. Settling(hook[h].outcome) => Shut(HookTx(h))
    BY <1>1, <2>1 DEF AppliedHook, Settling
  <2>3. "pending" # "processed"
    OBVIOUS
  <2> QED
    BY <1>4, <2>1, <2>2, <2>3, <2>4
<1>16. CASE ApplyClosure(h)
  <2>1. /\ hook[h].pc = "apply" /\ UNCHANGED inbox
        /\ hook[h].outcome \in {"failed", "cancelled", "expired"}
        /\ SetTxStatus(HookTx(h), hook[h].outcome)
        /\ hook' = [hook EXCEPT ![h] = [hook[h] EXCEPT !.pc = "mark", !.seen = hook[h].outcome]]
    BY <1>16 DEF ApplyClosure
  <2>2. txs'[HookTx(h)].status = hook[h].outcome
    BY <1>7, <2>1 DEF SetTxStatus, TablesTypeOK, TxRow, Resolved
  <2> QED
    BY <1>6, <2>1, <2>2 DEF TransactionStatuses, ConfirmableStatuses
<1>17. CASE MarkProcessed(h)
  <2>1. /\ hook[h].pc \in Resolved \ {"apply"} /\ hook[h].pc # "idle"
        /\ SetEventStatus(hook[h].ev, "processed")
        /\ HookTo(h, "emit_tx") \/ HookReturns(h)
    BY <1>17 DEF MarkProcessed, Resolved
  <2> QED
    BY <1>4, <1>5, <2>1
<1>18. CASE EmitHookTx(h)
  <2>1. /\ hook[h].pc \in Resolved \ {"apply"} /\ hook[h].pc # "idle" /\ UNCHANGED inbox
        /\ HookTo(h, "emit_intent") /\ "pending" # "processed"
    BY <1>18 DEF EmitHookTx, Resolved
  <2> QED
    BY <1>4, <2>1
<1>19. CASE EmitHookIntent(h)
  BY <1>5, <1>19 DEF EmitHookIntent
<1>20. CASE StatementThrows(h)
  <2>1. /\ hook[h].pc # "idle" /\ UNCHANGED inbox /\ HookTo(h, "fail")
        /\ "pending" # "processed" /\ "fail" \notin Resolved
    BY <1>20 DEF StatementThrows, Resolved
  <2> QED
    BY <1>4, <2>1
<1>21. CASE FailEvent(h)
  BY <1>5, <1>21 DEF FailEvent
<1>22. CASE AbortHook(h)
  BY <1>5, <1>22 DEF AbortHook
<1> QED
  BY <1>0, <1>8, <1>9, <1>10, <1>11, <1>12, <1>13, <1>14, <1>15, <1>16, <1>17, <1>18, <1>19,
     <1>20, <1>21, <1>22

(* Nothing has been applied.                                               *)
LEMMA AppliedStart == WebhookInit => AppliedInv
  BY DEF WebhookInit, HookIdle, AppliedInv, AppliedEvent, AppliedHook, Resolved

(* Other use cases leave applied events applied.                           *)
LEMMA AppliedStable ==
  ASSUME AppliedInv, WebhookInv, Grows, StaysClosed, UNCHANGED webhookVars
  PROVE  AppliedInv'
  BY AppliedWritten DEF webhookVars, EventsStay
=============================================================================
