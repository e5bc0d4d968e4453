------------------------ MODULE PaymentSystemProofs ------------------------
(***************************************************************************)
(* The theorems of the whole system.  Inv is inductive: what the tables    *)
(* satisfy, and what each call holds at each of its steps.  A step of one  *)
(* use case leaves the rows in place (Grows), which is all that the calls  *)
(* of the others rely on.  All of them assume OnlyPaymentsConfirmed: a     *)
(* refund that a developer confirms is credited as a payment.              *)
(***************************************************************************)
EXTENDS PaymentSystem, UseCaseProofs

Inv ==
    /\ TablesInv
    /\ ProviderTypeOK
    /\ OutboxTypeOK
    /\ GatewayInv
    /\ ConfirmInv
    /\ WebhookInv
    /\ RefundInv
    /\ VoidInv
    /\ SweepInv

(* The system starts empty.                                                *)
LEMMA InvInit == OnlyPaymentsConfirmed /\ Init => Inv
<1> SUFFICES ASSUME OnlyPaymentsConfirmed, Init PROVE Inv
  OBVIOUS
<1>1. ProviderTypeOK
  BY DEF Init, ProviderInit, ProviderTypeOK, ChargeStatuses
<1> QED
  BY <1>1, TablesStart, OutboxStart, GatewayStart, ConfirmStart, WebhookStart, RefundStart,
     VoidStart, SweepStart DEF Init, Inv

(* Intents are created, time passes, charges settle.                       *)
LEMMA EnvironmentKeeps ==
  ASSUME TablesInv, ProviderTypeOK, Environment
  PROVE  TablesInv' /\ Grows /\ Lawful /\ NoRefund /\ ProviderTypeOK'
<1>1. UNCHANGED provider => ProviderTypeOK'
  BY DEF ProviderTypeOK, provider
<1>2. CASE /\ \E i \in Intents, due \in Dues, partial \in BOOLEAN : CreateIntent(i, due, partial)
           /\ UNCHANGED provider
  BY <1>1, <1>2, CreateIntentKeeps
<1>3. CASE PassDeadline /\ UNCHANGED provider
  BY <1>1, <1>3, PassDeadlineKeeps
<1>4. CASE SettleCharge /\ UNCHANGED tables
  <2>1. ProviderTypeOK'
    BY <1>4 DEF SettleCharge, ProviderTypeOK, ChargeStatuses
  <2> QED
    BY <1>4, <2>1, TablesStutter
<1> QED
  BY <1>2, <1>3, <1>4 DEF Environment

(* Every step preserves Inv, keeps the rows, and is lawful.                *)
LEMMA InvNext ==
  ASSUME Inv, [Next]_vars
  PROVE  Inv' /\ Grows /\ Lawful
<1> USE DEF Inv
<1>0. TablesTypeOK
  BY DEF TablesInv
<1>1. UNCHANGED outbox => OutboxTypeOK'
  BY DEF OutboxTypeOK
<1>2. CASE Environment
           /\ UNCHANGED <<outbox, gatewayVars, confirm, webhookVars, refund, void, sweep>>
  BY <1>0, <1>1, <1>2, EnvironmentKeeps, GatewayStable, ConfirmStable, WebhookStable,
     RefundStable, VoidStable, SweepStable
<1>3. CASE GatewayNext /\ UNCHANGED <<outbox, confirm, webhookVars, refund, void, sweep>>
  BY <1>1, <1>3, GatewayKeeps, ConfirmStable, WebhookStable, RefundStable, VoidStable,
     SweepStable
<1>4. CASE ConfirmNext /\ UNCHANGED <<gatewayVars, webhookVars, refund, void, sweep>>
  BY <1>0, <1>4, ConfirmKeeps, GatewayStable, WebhookStable, RefundStable, VoidStable,
     SweepStable
<1>5. CASE WebhookNext /\ UNCHANGED <<gatewayVars, confirm, refund, void, sweep>>
  BY <1>0, <1>5, WebhookKeeps, GatewayStable, ConfirmStable, RefundStable, VoidStable,
     SweepStable
<1>6. CASE RefundNext /\ UNCHANGED <<gatewayVars, confirm, webhookVars, void, sweep>>
  BY <1>0, <1>6, RefundKeeps, GatewayStable, ConfirmStable, WebhookStable, VoidStable,
     SweepStable
<1>7. CASE VoidNext /\ UNCHANGED <<gatewayVars, confirm, webhookVars, refund, sweep>>
  BY <1>0, <1>7, VoidKeeps, GatewayStable, ConfirmStable, WebhookStable, RefundStable,
     SweepStable
<1>8. CASE SweepNext /\ UNCHANGED <<outbox, gatewayVars, confirm, webhookVars, refund, void>>
  BY <1>0, <1>1, <1>8, SweepKeeps, GatewayStable, ConfirmStable, WebhookStable, RefundStable,
     VoidStable
<1>9. CASE UNCHANGED vars
  <2>1. /\ UNCHANGED <<tables, outbox, gatewayVars, confirm, webhookVars, refund, void, sweep>>
        /\ ProviderTypeOK'
    BY <1>9 DEF vars, ProviderTypeOK, provider
  <2> QED
    BY <1>0, <1>1, <2>1, TablesStutter, GatewayStable, ConfirmStable, WebhookStable,
       RefundStable, VoidStable, SweepStable
<1> QED
  BY <1>2, <1>3, <1>4, <1>5, <1>6, <1>7, <1>8, <1>9 DEF Next

(* Inv holds in every state the system reaches, if only payments are       *)
(* confirmed by hand.                                                      *)
THEOREM InvHolds == OnlyPaymentsConfirmed /\ Spec => []Inv
  BY InvInit, InvNext, PTL DEF Spec

(* Every row, call and event always has its type: no use case ever stores  *)
(* a status, an amount or a reference the others cannot read.              *)
THEOREM TypeCorrect == OnlyPaymentsConfirmed /\ Spec => []TypeOK
<1>1. Inv => TypeOK
  BY DEF Inv, TypeOK, TablesInv, GatewayInv, ConfirmInv, WebhookInv, RefundInv, VoidInv, SweepInv
<1> QED
  BY <1>1, InvHolds, PTL

(* Whatever the number of concurrent calls, an intent's totals add up and  *)
(* stay within what is due and what was paid.                              *)
THEOREM AmountsAreConserved == OnlyPaymentsConfirmed /\ Spec => []AmountsConserved
<1>1. Inv => AmountsConserved
  BY DEF Inv, TablesInv
<1> QED
  BY <1>1, InvHolds, PTL

(* An intent that has not expired always has the status of its totals.     *)
THEOREM StatusFollowsTotals == OnlyPaymentsConfirmed /\ Spec => []StatusMatchesTotals
<1>1. Inv => StatusMatchesTotals
  BY DEF Inv, TablesInv
<1> QED
  BY <1>1, InvHolds, PTL

(* No transaction is succeeded without its amount in the totals, and none  *)
(* that is in the totals can be credited again.                            *)
THEOREM CreditsAreExact == OnlyPaymentsConfirmed /\ Spec => []CreditedExactly
<1>1. Inv => CreditedExactly
  BY DEF Inv, TablesInv
<1> QED
  BY <1>1, InvHolds, PTL

(* What an intent's row says was paid and given back is what its credited  *)
(* payments and refunds add up to: no confirmation, event, refund or crash *)
(* counts one twice or leaves one out, however many run at once.           *)
THEOREM TotalsAddUp == OnlyPaymentsConfirmed /\ Spec => []TotalsAreSums
<1>1. Inv => TotalsAreSums
  BY DEF Inv, TablesInv
<1> QED
  BY <1>1, InvHolds, PTL

(* A payment that is no longer open stays so, and one that was closed      *)
(* without success is never credited.                                      *)
THEOREM PaymentsSettleForGood == OnlyPaymentsConfirmed /\ Spec => SettledForGood
<1>1. Inv /\ [Next]_vars => [StaysClosed]_vars
  BY InvNext DEF Lawful
<1> QED
  BY <1>1, InvHolds, PTL DEF Spec, SettledForGood, StaysClosed

(* The tables implement the accounts: every step of every use case opens,  *)
(* pays or refunds one intent within its bounds, by a credit that was not  *)
(* counted before, or changes no total.                                    *)
THEOREM AccountsAreImplemented == OnlyPaymentsConfirmed /\ Spec => ImplementsAccount
<1>1. Init => Account!Init
  BY DEF Init, TablesInit, Account!Init
<1>2. Inv /\ [Next]_vars => [Account!Next]_(Account!accountVars)
  BY InvNext DEF Lawful
<1> QED
  BY <1>1, <1>2, InvHolds, PTL DEF Spec, ImplementsAccount, Account!Spec
-----------------------------------------------------------------------------
(***************************************************************************)
(* One worker per event.                                                   *)
(***************************************************************************)

(* A call that works on an event is alone, and the event is not claimable: *)
(* it is processing, or processed and still to be announced.               *)
Working(h) == hook[h].pc \notin {"idle", "claim"}

ClaimInv ==
    /\ OneWorkerPerEvent
    /\ \A h \in Hooks : Working(h) => inbox[hook[h].ev].status \in {"processing", "processed"}

(* A step of call h that takes no other call's event away, and starts to   *)
(* work only by claiming.                                                  *)
LEMMA ClaimKept ==
  ASSUME ClaimInv, WebhookTypeOK, NEW h \in Hooks, NEW new \in HookCall,
         hook' = [hook EXCEPT ![h] = new],
         \A g \in Hooks : g # h /\ Working(g) =>
            /\ inbox'[hook[g].ev] = inbox[hook[g].ev]
            /\ new.pc \notin {"idle", "claim"} => hook[g].ev # new.ev,
         new.pc \notin {"idle", "claim"} => inbox'[new.ev].status \in {"processing", "processed"}
  PROVE  ClaimInv'
<1>1. hook'[h] = new /\ \A g \in Hooks : g # h => hook'[g] = hook[g]
  BY DEF WebhookTypeOK
<1>2. OneWorkerPerEvent'
  <2> SUFFICES ASSUME NEW f \in Hooks, NEW g \in Hooks, f # g, hook'[f].ev = hook'[g].ev,
                      hook'[f].pc \notin {"idle", "claim"}, hook'[g].pc \notin {"idle", "claim"}
               PROVE  FALSE
    BY DEF OneWorkerPerEvent
  <2>1. CASE f # h /\ g # h
    BY <1>1, <2>1 DEF ClaimInv, OneWorkerPerEvent
  <2>2. CASE f = h
    BY <1>1, <2>2 DEF Working
  <2>3. CASE g = h
    BY <1>1, <2>3 DEF Working
  <2> QED
    BY <2>1, <2>2, <2>3
<1>3. ASSUME NEW g \in Hooks, Working(g)'
      PROVE  inbox'[hook'[g].ev].status \in {"processing", "processed"}
  BY <1>1, <1>3 DEF Working, ClaimInv
<1> QED
  BY <1>2, <1>3 DEF ClaimInv

(* What writing the status of an event leaves.                             *)
LEMMA EventStatusIs ==
  ASSUME WebhookTypeOK, NEW e \in Events, NEW status, SetEventStatus(e, status)
  PROVE  inbox'[e].status = status /\ \A d \in Events : d # e => inbox'[d] = inbox[d]
  BY DEF WebhookTypeOK, EventRow, SetEventStatus

(* A call that works on its event, and moves on or returns.                *)
LEMMA ClaimMoved ==
  ASSUME ClaimInv, WebhookInv, NEW h \in Hooks, Working(h),
         \/ /\ UNCHANGED inbox \/ SetEventStatus(hook[h].ev, "processed")
            /\ \/ \E pc \in {"unknown", "fail"} \cup Resolved : HookTo(h, pc)
               \/ \E pc \in Resolved, seen \in TransactionStatuses :
                    hook' = [hook EXCEPT ![h] = [hook[h] EXCEPT !.pc = pc, !.seen = seen]]
         \/ /\ UNCHANGED inbox \/ (\E status \in {"processed", "failed"} :
                                      SetEventStatus(hook[h].ev, status))
            /\ HookReturns(h)
  PROVE  ClaimInv'
<1> DEFINE e == hook[h].ev
<1>1. /\ WebhookTypeOK /\ hook[h] \in HookCall /\ e \in Events
      /\ inbox[e].status \in {"processing", "processed"}
  BY DEF WebhookInv, WebhookTypeOK, HookShape, Working, ClaimInv
<1>2. \A g \in Hooks : g # h /\ Working(g) => hook[g].ev # e /\ hook[g].ev \in Events
  BY DEF ClaimInv, OneWorkerPerEvent, Working, WebhookInv, HookShape
<1>3. ASSUME NEW new \in HookCall, hook' = [hook EXCEPT ![h] = new],
             \/ new.pc = "idle" /\ \E status \in {"processed", "failed"} : SetEventStatus(e, status)
             \/ UNCHANGED inbox \/ SetEventStatus(e, "processed"),
             new.ev = e \/ new.pc = "idle"
      PROVE  ClaimInv'
  <2>1. /\ \A d \in Events : d # e => inbox'[d] = inbox[d]
        /\ new.pc # "idle" => inbox'[e].status \in {"processing", "processed"}
    <3>1. CASE UNCHANGED inbox
      BY <1>1, <3>1
    <3>2. CASE SetEventStatus(e, "processed")
      BY <1>1, <3>2, EventStatusIs
    <3>3. CASE \E status \in {"processed", "failed"} : SetEventStatus(e, status)
      BY <1>1, <1>3, <3>1, <3>2, <3>3, EventStatusIs
    <3> QED
      BY <1>3, <3>1, <3>2, <3>3
  <2> HIDE DEF e
  <2>2. \A g \in Hooks : g # h /\ Working(g) =>
           /\ inbox'[hook[g].ev] = inbox[hook[g].ev]
           /\ new.pc \notin {"idle", "claim"} => hook[g].ev # new.ev
    BY <1>2, <1>3, <2>1
  <2>3. new.pc \notin {"idle", "claim"} => inbox'[new.ev].status \in {"processing", "processed"}
    BY <1>3, <2>1
  <2>4. WebhookTypeOK /\ hook' = [hook EXCEPT ![h] = new]
    BY <1>1, <1>3
  <2> QED
    BY <2>2, <2>3, <2>4, ClaimKept
<1>4. CASE HookReturns(h)
  <2>1. HookIdle \in HookCall /\ HookIdle.pc = "idle"
    BY DEF HookIdle, HookCall
  <2> QED
    BY <1>3, <1>4, <2>1 DEF HookReturns
<1>5. ASSUME NEW pc \in {"unknown", "fail"} \cup Resolved, HookTo(h, pc),
             UNCHANGED inbox \/ SetEventStatus(e, "processed")
      PROVE  ClaimInv'
  <2> DEFINE new == [hook[h] EXCEPT !.pc = pc]
  <2>1. new \in HookCall /\ new.ev = e /\ hook' = [hook EXCEPT ![h] = new]
    BY <1>1, <1>5 DEF HookCall, Resolved, HookTo
  <2> HIDE DEF new
  <2> QED
    BY <1>3, <1>5, <2>1
<1>6. ASSUME NEW pc \in Resolved, NEW seen \in TransactionStatuses,
             hook' = [hook EXCEPT ![h] = [hook[h] EXCEPT !.pc = pc, !.seen = seen]],
             UNCHANGED inbox \/ SetEventStatus(e, "processed")
      PROVE  ClaimInv'
  <2> DEFINE new == [hook[h] EXCEPT !.pc = pc, !.seen = seen]
  <2>1. new \in HookCall /\ new.ev = e
    BY <1>1 DEF HookCall, Resolved
  <2>2. hook' = [hook EXCEPT ![h] = new] /\ (UNCHANGED inbox \/ SetEventStatus(e, "processed"))
    BY <1>6
  <2> HIDE DEF new
  <2> QED
    BY <1>3, <2>1, <2>2
<1> QED
  BY <1>4, <1>5, <1>6

(* Every step of a webhook call respects the claims.                       *)
LEMMA ClaimNext ==
  ASSUME ClaimInv, WebhookInv, TablesInv, WebhookNext
  PROVE  ClaimInv'
<1>0. PICK h \in Hooks :
        \/ \E e \in Events, outcome \in Outcomes :
             \/ \E p \in Payments : ReceiveEvent(h, e, p, outcome)
             \/ ReceiveAgain(h, e, outcome)
        \/ ClaimEvent(h) \/ ResolveEvent(h) \/ FailUnknown(h)
        \/ ApplySuccess(h) \/ ApplySuccessThrows(h) \/ SkipEvent(h) \/ ApplyClosure(h)
        \/ MarkProcessed(h) \/ EmitHookTx(h) \/ EmitHookIntent(h)
        \/ StatementThrows(h) \/ FailEvent(h) \/ AbortHook(h)
  BY DEF WebhookNext
<1>1. /\ hook[h] \in HookCall /\ WebhookTypeOK
      /\ \A g \in Hooks : Working(g) =>
            /\ hook[g].ev \in Events
            /\ inbox[hook[g].ev].status \in {"processing", "processed"}
  BY DEF WebhookInv, WebhookTypeOK, HookShape, Working, ClaimInv
<1>2. ASSUME NEW e \in Events, NEW outcome \in Outcomes, NEW p \in Payments,
             ReceiveEvent(h, e, p, outcome)
      PROVE  ClaimInv'
  <2> DEFINE new == [pc |-> "claim", ev |-> e, outcome |-> outcome, seen |-> "none"]
  <2>1. /\ new \in HookCall /\ new.pc = "claim" /\ hook' = [hook EXCEPT ![h] = new]
        /\ \A d \in Events : inbox[d].status # "absent" => inbox'[d] = inbox[d]
    BY <1>1, <1>2 DEF ReceiveEvent, StartHook, HookCall, WebhookTypeOK
  <2> HIDE DEF new
  <2> QED
    BY <1>1, <2>1, ClaimKept
<1>3. ASSUME NEW e \in Events, NEW outcome \in Outcomes, ReceiveAgain(h, e, outcome)
      PROVE  ClaimInv'
  <2> DEFINE new == [pc |-> "claim", ev |-> e, outcome |-> outcome, seen |-> "none"]
  <2>1. /\ new \in HookCall /\ new.pc = "claim" /\ hook' = [hook EXCEPT ![h] = new]
        /\ inbox' = inbox
    BY <1>3 DEF ReceiveAgain, StartHook, HookCall
  <2> HIDE DEF new
  <2> QED
    BY <1>1, <2>1, ClaimKept
<1>4. CASE ClaimEvent(h)
  <2> DEFINE e == hook[h].ev
  <2>1. /\ e \in Events /\ HookIdle \in HookCall /\ HookIdle.pc = "idle"
    BY <1>4 DEF ClaimEvent, WebhookInv, HookShape, HookIdle, HookCall
  <2>2. CASE Claimable(e)
    <3> DEFINE new == [hook[h] EXCEPT !.pc = "resolve"]
    <3>1. /\ new \in HookCall /\ new.ev = e /\ hook' = [hook EXCEPT ![h] = new]
          /\ inbox'[e].status = "processing" /\ \A d \in Events : d # e => inbox'[d] = inbox[d]
      <4>1. new \in HookCall /\ new.ev = e
        BY <1>1 DEF HookCall
      <4>2. hook' = [hook EXCEPT ![h] = new] /\ SetEventStatus(e, "processing")
        BY <1>4, <2>2 DEF ClaimEvent, HookTo
      <4> QED
        BY <1>1, <2>1, <4>1, <4>2, EventStatusIs
    <3>2. \A g \in Hooks : Working(g) => hook[g].ev # e
      BY <1>1, <2>2 DEF Claimable
    <3>3. \A g \in Hooks : g # h /\ Working(g) =>
             inbox'[hook[g].ev] = inbox[hook[g].ev] /\ hook[g].ev # new.ev
      BY <1>1, <3>1, <3>2
    <3>4. inbox'[new.ev].status \in {"processing", "processed"}
      BY <3>1
    <3> HIDE DEF new
    <3> QED
      BY <1>1, <3>1, <3>3, <3>4, ClaimKept
  <2>3. CASE ~Claimable(e)
    <3>1. inbox' = inbox /\ hook' = [hook EXCEPT ![h] = HookIdle]
      BY <1>4, <2>3 DEF ClaimEvent, HookReturns
    <3> QED
      BY <1>1, <2>1, <3>1, ClaimKept
  <2> QED
    BY <2>2, <2>3
<1>5. CASE ResolveEvent(h)
  <2>1. Working(h) /\ hook[h].pc = "resolve" /\ UNCHANGED inbox
    BY <1>5 DEF ResolveEvent, Working
  <2>2. CASE HookTo(h, "unknown")
    BY <2>1, <2>2, ClaimMoved
  <2>3. CASE ~HookTo(h, "unknown")
    <3>1. /\ hook' = [hook EXCEPT ![h] = [hook[h] EXCEPT !.pc = "apply",
                                                        !.seen = txs[HookTx(h)].status]]
          /\ TxExists(HookTx(h)) /\ "apply" \in Resolved
      BY <1>5, <2>3 DEF ResolveEvent, Resolved
    <3>2. txs[HookTx(h)].status \in TransactionStatuses
      <4>1. HookTx(h) \in Txs
        BY <2>1 DEF WebhookInv, HookShape, EventShape, HookTx, Txs
      <4> QED
        BY <3>1, <4>1 DEF TxExists, TablesInv, TablesTypeOK, TxRow
    <3> QED
      BY <2>1, <3>1, <3>2, ClaimMoved
  <2> QED
    BY <2>2, <2>3
<1>6. CASE FailUnknown(h)
  BY <1>6, ClaimMoved DEF FailUnknown, Working
<1>7. CASE ApplySuccess(h)
  <2>1. /\ Working(h) /\ UNCHANGED inbox /\ "mark" \in Resolved /\ "succeeded" \in TransactionStatuses
        /\ hook' = [hook EXCEPT ![h] = [hook[h] EXCEPT !.pc = "mark", !.seen = "succeeded"]]
    BY <1>7 DEF ApplySuccess, Working, Resolved, TransactionStatuses
  <2> QED
    BY <2>1, ClaimMoved
<1>8. CASE ApplySuccessThrows(h)
  BY <1>8, ClaimMoved DEF ApplySuccessThrows, Working
<1>9. CASE SkipEvent(h)
  <2>1. Working(h) /\ UNCHANGED inbox /\ \E pc \in Resolved : HookTo(h, pc)
    BY <1>9 DEF SkipEvent, Working, Resolved
  <2> QED
    BY <2>1, ClaimMoved
<1>10. CASE ApplyClosure(h)
  <2>1. /\ Working(h) /\ UNCHANGED inbox /\ "mark" \in Resolved
        /\ hook[h].outcome \in TransactionStatuses
        /\ hook' = [hook EXCEPT ![h] = [hook[h] EXCEPT !.pc = "mark", !.seen = hook[h].outcome]]
    BY <1>10 DEF ApplyClosure, Working, Resolved, TransactionStatuses
  <2> QED
    BY <2>1, ClaimMoved
<1>11. CASE MarkProcessed(h)
  <2>1. /\ Working(h) /\ "emit_tx" \in Resolved /\ SetEventStatus(hook[h].ev, "processed")
        /\ HookTo(h, "emit_tx") \/ HookReturns(h)
    BY <1>11 DEF MarkProcessed, Working, Resolved
  <2> QED
    BY <2>1, ClaimMoved
<1>12. CASE EmitHookTx(h)
  <2>1. Working(h) /\ "emit_intent" \in Resolved /\ HookTo(h, "emit_intent") /\ UNCHANGED inbox
    BY <1>12 DEF EmitHookTx, Working, Resolved
  <2> QED
    BY <2>1, ClaimMoved
<1>13. CASE EmitHookIntent(h)
  BY <1>13, ClaimMoved DEF EmitHookIntent, Working
<1>14. CASE StatementThrows(h)
  BY <1>14, ClaimMoved DEF StatementThrows, Working
<1>15. CASE FailEvent(h)
  BY <1>15, ClaimMoved DEF FailEvent, Working
<1>16. CASE AbortHook(h)
  <2>1. CASE Working(h)
    BY <1>16, <2>1, ClaimMoved DEF AbortHook
  <2>2. CASE ~Working(h)
    <3>1. inbox' = inbox /\ hook' = [hook EXCEPT ![h] = HookIdle] /\ HookIdle \in HookCall
          /\ HookIdle.pc = "idle"
      BY <1>16 DEF AbortHook, HookReturns, HookIdle, HookCall
    <3> QED
      BY <1>1, <3>1, ClaimKept
  <2> QED
    BY <2>1, <2>2
<1> QED
  BY <1>0, <1>2, <1>3, <1>4, <1>5, <1>6, <1>7, <1>8, <1>9, <1>10, <1>11, <1>12, <1>13, <1>14,
     <1>15, <1>16

(* At most one webhook call works on an event, however many deliveries of  *)
(* it arrive: the claim excludes all but one.                              *)
THEOREM EventsHaveOneWorker == OnlyPaymentsConfirmed /\ Spec => []OneWorkerPerEvent
<1>1. Init => ClaimInv
  BY DEF Init, WebhookInit, HookIdle, ClaimInv, OneWorkerPerEvent, Working
<1>2. Inv /\ ClaimInv /\ [Next]_vars => ClaimInv'
  <2> SUFFICES ASSUME Inv, ClaimInv, [Next]_vars PROVE ClaimInv'
    OBVIOUS
  <2>1. CASE UNCHANGED webhookVars
    BY <2>1 DEF webhookVars, ClaimInv, OneWorkerPerEvent, Working
  <2>2. CASE WebhookNext
    BY <2>2, ClaimNext DEF Inv
  <2> QED
    BY <2>1, <2>2 DEF Next, vars
<1>3. ClaimInv => OneWorkerPerEvent
  BY DEF ClaimInv
<1> QED
  BY <1>1, <1>2, <1>3, InvHolds, PTL DEF Spec
-----------------------------------------------------------------------------
(***************************************************************************)
(* One charge per key.                                                     *)
(***************************************************************************)

(* Only a call that inserted its key reaches the provider, and an inserted *)
(* key is never free again.                                                *)
KeyInv ==
    /\ \A p \in Payments :
          /\ pay[p].pc = "idle" => pay[p].key = None
          /\ pay[p].pc \in {"idle", "find", "load", "reserve"} => charge[p] = "none"
    /\ \A k \in Keys : \A p \in ChargeHolders(k) : keys[k].status # "absent"
    /\ OneChargePerKey

Reaching == {"charge", "mark_failed", "insert", "apply", "complete"}

(* A step of call p that makes it the holder of no key, of the key it held *)
(* or of a key that was free.                                              *)
LEMMA HoldersKept ==
  ASSUME KeyInv, NEW p \in Payments,
         \A q \in Payments : q # p => pay'[q] = pay[q] /\ charge'[q] = charge[q],
         \A k \in Keys : keys[k].status # "absent" => keys'[k].status # "absent",
         pay'[p].pc = "idle" => pay'[p].key = None,
         pay'[p].pc \in {"idle", "find", "load", "reserve"} => charge'[p] = "none",
         \A k \in Keys : pay'[p].key = k /\ (charge'[p] # "none" \/ pay'[p].pc \in Reaching) =>
            \/ p \in ChargeHolders(k)
            \/ keys[k].status = "absent" /\ keys'[k].status # "absent"
  PROVE  KeyInv'
<1>1. ASSUME NEW q \in Payments
      PROVE  /\ pay'[q].pc = "idle" => pay'[q].key = None
             /\ pay'[q].pc \in {"idle", "find", "load", "reserve"} => charge'[q] = "none"
  BY <1>1 DEF KeyInv
<1>2. ASSUME NEW k \in Keys, NEW q \in ChargeHolders(k)'
      PROVE  \/ q \in ChargeHolders(k)
             \/ q = p /\ keys[k].status = "absent" /\ keys'[k].status # "absent"
  BY <1>2 DEF ChargeHolders, Reaching
<1>3. ASSUME NEW k \in Keys, NEW q \in ChargeHolders(k)'
      PROVE  keys'[k].status # "absent"
  BY <1>2, <1>3 DEF KeyInv
<1>4. ASSUME NEW k \in Keys, NEW q \in ChargeHolders(k)', NEW r \in ChargeHolders(k)'
      PROVE  q = r
  BY <1>2, <1>4 DEF KeyInv, OneChargePerKey
<1> QED
  BY <1>1, <1>3, <1>4 DEF KeyInv, OneChargePerKey

(* What moving a call on leaves.                                           *)
LEMMA GotoIs ==
  ASSUME GatewayTypeOK, NEW p \in Payments, NEW step, Goto(p, step)
  PROVE  /\ pay'[p].pc = step /\ pay'[p].key = pay[p].key
         /\ \A q \in Payments : q # p => pay'[q] = pay[q]
  BY DEF GatewayTypeOK, PayCall, Goto

(* A step that moves a call on and charges nothing.                        *)
LEMMA GotoHolds ==
  ASSUME KeyInv, GatewayTypeOK, NEW p \in Payments, NEW step, Goto(p, step),
         step # "idle", step \in {"find", "load", "reserve"} => charge[p] = "none",
         charge' = charge,
         \A k \in Keys : keys[k].status # "absent" => keys'[k].status # "absent",
         \/ step \notin Reaching
         \/ pay[p].pc \in Reaching \/ pay[p].key = None
         \/ keys[pay[p].key].status = "absent" /\ keys'[pay[p].key].status # "absent"
  PROVE  KeyInv'
<1>1. /\ pay'[p].pc = step /\ pay'[p].key = pay[p].key
      /\ \A q \in Payments : q # p => pay'[q] = pay[q]
  BY GotoIs
<1>2. \A k \in Keys : k # None
  BY TablesAssumption
<1> QED
  BY <1>1, <1>2, HoldersKept DEF ChargeHolders, Reaching

(* Every step of CreateGatewayPayment keeps the holders of keys apart.     *)
LEMMA KeyNext ==
  ASSUME KeyInv, GatewayInv, ProviderTypeOK, GatewayNext
  PROVE  KeyInv'
<1>0. PICK p \in Payments :
        \/ \E i \in Intents, a \in Amounts, k \in Keys \cup {None} : ReceivePayment(p, i, a, k)
        \/ FindKey(p) \/ AcceptPayment(p) \/ RejectPayment(p) \/ ReserveKey(p)
        \/ ChargeProvider(p) \/ ProviderThrows(p) \/ MarkKeyFailed(p)
        \/ InsertPayment(p) \/ ApplyPayment(p) \/ ApplyRefused(p)
        \/ CompleteKey(p) \/ AbortPayment(p)
  BY DEF GatewayNext
<1>1. /\ GatewayTypeOK /\ pay[p] \in PayCall /\ PayShape(p)
      /\ pay[p].pc \in {"idle", "find", "load", "reserve"} => charge[p] = "none"
  BY DEF GatewayInv, GatewayTypeOK, KeyInv
<1>2. UNCHANGED provider => charge' = charge
  BY DEF provider
<1>3. ASSUME NEW k \in Keys, Replay(p, k), UNCHANGED <<provider, keys>>, pay[p].pc # "idle"
      PROVE  KeyInv'
  <2>1. /\ pay'[p].pc = "replayed" /\ pay'[p].key = pay[p].key
        /\ \A q \in Payments : q # p => pay'[q] = pay[q]
    BY <1>1, <1>3 DEF Replay, GatewayTypeOK, PayCall
  <2> QED
    BY <1>2, <1>3, <2>1, HoldersKept DEF ChargeHolders, Reaching
<1>4. ASSUME NEW i \in Intents, NEW a \in Amounts, NEW k \in Keys \cup {None},
             ReceivePayment(p, i, a, k)
      PROVE  KeyInv'
  <2>1. /\ pay'[p].pc \in {"load", "find"} /\ charge[p] = "none"
        /\ \A q \in Payments : q # p => pay'[q] = pay[q]
    BY <1>1, <1>4 DEF ReceivePayment, GatewayTypeOK, PayCall
  <2> QED
    BY <1>2, <1>4, <2>1, HoldersKept DEF ReceivePayment, Reaching
<1>5. CASE FindKey(p)
  <2>1. /\ pay[p].pc = "find" /\ UNCHANGED <<provider, keys>> /\ pay[p].key \in Keys
        /\ keys[pay[p].key] \in KeyRow /\ charge[p] = "none"
    BY <1>1, <1>5 DEF FindKey, PayShape, GatewayTypeOK
  <2>2. \/ \E step \in {"load", "previously_failed", "conflict"} : Goto(p, step)
        \/ Replay(p, pay[p].key)
    BY <1>5, <2>1 DEF FindKey, KeyRow
  <2>3. CASE Replay(p, pay[p].key)
    BY <1>3, <2>1, <2>3
  <2>4. CASE \E step \in {"load", "previously_failed", "conflict"} : Goto(p, step)
    <3>1. PICK step \in {"load", "previously_failed", "conflict"} : Goto(p, step)
      BY <2>4
    <3> QED
      BY <1>1, <1>2, <2>1, <3>1, GotoHolds DEF Reaching
  <2> QED
    BY <2>2, <2>3, <2>4
<1>6. CASE AcceptPayment(p)
  <2> DEFINE step == IF pay[p].key = None THEN "charge" ELSE "reserve"
  <2>1. /\ pay[p].pc = "load" /\ UNCHANGED <<provider, keys>> /\ Goto(p, step)
        /\ charge[p] = "none"
    BY <1>1, <1>6 DEF AcceptPayment
  <2>2. step = "reserve" \/ (step = "charge" /\ pay[p].key = None)
    OBVIOUS
  <2> HIDE DEF step
  <2> QED
    BY <1>1, <1>2, <2>1, <2>2, GotoHolds DEF Reaching
<1>7. CASE RejectPayment(p)
  BY <1>1, <1>2, <1>7, GotoHolds DEF RejectPayment, Reaching
<1>8. CASE ReserveKey(p)
  <2> DEFINE k == pay[p].key
  <2>1. /\ pay[p].pc = "reserve" /\ UNCHANGED provider /\ k \in Keys /\ keys[k] \in KeyRow
    BY <1>1, <1>8 DEF ReserveKey, PayShape, GatewayTypeOK
  <2>2. CASE KeyIsFree(k)
    <3>1. /\ Goto(p, "charge") /\ keys[k].status = "absent" /\ keys'[k].status # "absent"
          /\ \A l \in Keys : keys[l].status # "absent" => keys'[l].status # "absent"
      BY <1>1, <1>8, <2>1, <2>2 DEF ReserveKey, KeyIsFree, GatewayTypeOK
    <3> QED
      BY <1>1, <1>2, <2>1, <3>1, GotoHolds DEF Reaching
  <2>3. CASE ~KeyIsFree(k)
    <3>1. /\ UNCHANGED keys
          /\ \/ \E step \in {"conflict", "in_progress", "previously_failed"} : Goto(p, step)
             \/ Replay(p, k)
      BY <1>8, <2>1, <2>3 DEF ReserveKey, KeyRow, KeyIsFree
    <3>2. CASE Replay(p, k)
      BY <1>3, <2>1, <3>1, <3>2
    <3>3. CASE \E step \in {"conflict", "in_progress", "previously_failed"} : Goto(p, step)
      <4>1. PICK step \in {"conflict", "in_progress", "previously_failed"} : Goto(p, step)
        BY <3>3
      <4> QED
        BY <1>1, <1>2, <2>1, <3>1, <4>1, GotoHolds DEF Reaching
    <3> QED
      BY <3>1, <3>2, <3>3
  <2> QED
    BY <2>2, <2>3
<1>9. CASE ChargeProvider(p)
  <2>1. /\ pay[p].pc = "charge" /\ UNCHANGED keys
        /\ pay'[p].pc = "insert" /\ pay'[p].key = pay[p].key
        /\ \A q \in Payments : q # p => pay'[q] = pay[q] /\ charge'[q] = charge[q]
    BY <1>1, <1>9 DEF ChargeProvider, ChargeAnswers, ManualCharge, FakeGatewayCharge,
          XenditCharge, GatewayTypeOK, PayCall, ProviderTypeOK
  <2> QED
    BY <2>1, HoldersKept DEF ChargeHolders, Reaching
<1>10. CASE ProviderThrows(p)
  <2> DEFINE step == IF pay[p].key = None THEN "provider_error" ELSE "mark_failed"
  <2>1. /\ pay[p].pc = "charge" /\ UNCHANGED keys /\ Goto(p, step)
        /\ \A q \in Payments : q # p => charge'[q] = charge[q]
    BY <1>10 DEF ProviderThrows, ProviderTypeOK
  <2>2. step \in {"provider_error", "mark_failed"}
    OBVIOUS
  <2> HIDE DEF step
  <2>3. /\ pay'[p].pc = step /\ pay'[p].key = pay[p].key
        /\ \A q \in Payments : q # p => pay'[q] = pay[q]
    BY <1>1, <2>1, GotoIs
  <2> QED
    BY <2>1, <2>2, <2>3, HoldersKept DEF ChargeHolders, Reaching
<1>11. CASE MarkKeyFailed(p)
  <2>1. /\ pay[p].pc = "mark_failed" /\ UNCHANGED provider /\ Goto(p, "provider_error")
        /\ \A k \in Keys : keys[k].status # "absent" => keys'[k].status # "absent"
    BY <1>1, <1>11 DEF MarkKeyFailed, GatewayTypeOK, KeyRow
  <2> QED
    BY <1>1, <1>2, <2>1, GotoHolds DEF Reaching
<1>12. CASE InsertPayment(p)
  <2> DEFINE step == CASE pay[p].result = "succeeded" -> "apply"
                       [] pay[p].result # "succeeded" /\ pay[p].key # None -> "complete"
                       [] pay[p].result # "succeeded" /\ pay[p].key = None -> "done"
  <2>1. pay[p].pc = "insert" /\ UNCHANGED <<provider, keys>> /\ Goto(p, step)
    BY <1>12 DEF InsertPayment
  <2>2. step \in {"apply", "complete", "done"}
    OBVIOUS
  <2> HIDE DEF step
  <2> QED
    BY <1>1, <1>2, <2>1, <2>2, GotoHolds DEF Reaching
<1>13. CASE ApplyPayment(p)
  <2> DEFINE step == IF pay[p].key = None THEN "done" ELSE "complete"
  <2>1. pay[p].pc = "apply" /\ UNCHANGED <<provider, keys>> /\ Goto(p, step)
    BY <1>13 DEF ApplyPayment
  <2>2. step \in {"complete", "done"}
    OBVIOUS
  <2> HIDE DEF step
  <2> QED
    BY <1>1, <1>2, <2>1, <2>2, GotoHolds DEF Reaching
<1>14. CASE ApplyRefused(p)
  BY <1>1, <1>2, <1>14, GotoHolds DEF ApplyRefused, Reaching
<1>15. CASE CompleteKey(p)
  <2>1. /\ pay[p].pc = "complete" /\ UNCHANGED provider /\ Goto(p, "done")
        /\ \A k \in Keys : keys[k].status # "absent" => keys'[k].status # "absent"
    BY <1>1, <1>15 DEF CompleteKey, GatewayTypeOK, KeyRow
  <2> QED
    BY <1>1, <1>2, <2>1, GotoHolds DEF Reaching
<1>16. CASE AbortPayment(p)
  BY <1>1, <1>2, <1>16, GotoHolds DEF AbortPayment, Reaching
<1> QED
  BY <1>0, <1>4, <1>5, <1>6, <1>7, <1>8, <1>9, <1>10, <1>11, <1>12, <1>13, <1>14, <1>15, <1>16

(* The other use cases never open a charge.                                *)
LEMMA ChargesStay ==
  ASSUME ProviderTypeOK, KeyInv, UNCHANGED gatewayVars,
         \A p \in Payments : charge'[p] = "none" <=> charge[p] = "none"
  PROVE  KeyInv'
<1>1. pay' = pay /\ keys' = keys
  BY DEF gatewayVars
<1>2. \A k \in Keys : ChargeHolders(k)' = ChargeHolders(k)
  BY <1>1 DEF ChargeHolders
<1> QED
  BY <1>1, <1>2 DEF KeyInv, OneChargePerKey

(* KeyInv holds in every state the system reaches.                         *)
LEMMA KeysHold == OnlyPaymentsConfirmed /\ Spec => []KeyInv
<1>1. Init => KeyInv
  BY TablesAssumption DEF Init, GatewayInit, ProviderInit, KeyInv, OneChargePerKey, ChargeHolders
<1>2. Inv /\ KeyInv /\ [Next]_vars => KeyInv'
  <2> SUFFICES ASSUME Inv, KeyInv, [Next]_vars PROVE KeyInv'
    OBVIOUS
  <2>1. CASE GatewayNext
    BY <2>1, KeyNext DEF Inv
  <2>2. CASE UNCHANGED gatewayVars /\ \A p \in Payments : charge'[p] = "none" <=> charge[p] = "none"
    BY <2>2, ChargesStay DEF Inv
  <2>3. CASE SettleCharge /\ UNCHANGED gatewayVars
    BY <2>2, <2>3 DEF SettleCharge, Inv, ProviderTypeOK
  <2>4. CASE VoidNext /\ UNCHANGED gatewayVars
    <3>1. PICK v \in Voids :
            \/ UNCHANGED charge
            \/ /\ charge[void[v].tx] = "open"
               /\ charge' = [charge EXCEPT ![void[v].tx] = "cancelled"]
      BY <2>4 DEF VoidNext, LoadVoid, CheckVoidable, CancelAtProvider, WriteVoid, EmitVoidTx,
         EmitVoidIntent, AbortVoid, provider
    <3> QED
      BY <2>2, <2>4, <3>1 DEF Inv, ProviderTypeOK
  <2>5. CASE UNCHANGED charge /\ UNCHANGED gatewayVars
    BY <2>2, <2>5
  <2>6. CASE ConfirmNext /\ UNCHANGED gatewayVars
    BY <2>5, <2>6 DEF ConfirmNext, LoadConfirm, ApplyConfirm, ConfirmWithoutEffect,
       EmitConfirmedTx, EmitConfirmedIntent, AbortConfirm, provider
  <2>7. CASE WebhookNext /\ UNCHANGED gatewayVars
    BY <2>5, <2>7 DEF WebhookNext, ReceiveEvent, ReceiveAgain, ClaimEvent, ResolveEvent,
       FailUnknown, ApplySuccess, ApplySuccessThrows, SkipEvent, ApplyClosure, MarkProcessed,
       EmitHookTx, EmitHookIntent, StatementThrows, FailEvent, AbortHook, provider
  <2>8. CASE RefundNext /\ UNCHANGED gatewayVars
    BY <2>5, <2>8 DEF RefundNext, LoadSource, FindRefund, CheckRefundable, InsertRefund,
       RefundAtProvider, RefundThrows, ApplyRefund, ApplyRefundRefused, SettleRefund,
       EmitRefundTx, EmitRefundIntent, AbortRefund, provider
  <2>9. CASE SweepNext /\ UNCHANGED gatewayVars
    BY <2>5, <2>9 DEF SweepNext, ListStaleTxs, ExpireTx, FinishStaleTxs, ListStaleIntents,
       ListIntentTxs, FinishIntentTxs, FinishIntents, RecheckIntent, WriteExpired, FinishSweep,
       AbortSweep, provider
  <2> QED
    BY <2>1, <2>3, <2>4, <2>5, <2>6, <2>7, <2>8, <2>9
       DEF Next, Environment, vars, provider, gatewayVars
<1> QED
  BY <1>1, <1>2, InvHolds, PTL DEF Spec

(* However many calls carry one key, and however they interleave or fail,  *)
(* at most one reaches the provider.                                       *)
THEOREM KeysChargeOnce == OnlyPaymentsConfirmed /\ Spec => []OneChargePerKey
<1>1. KeyInv => OneChargePerKey
  BY DEF KeyInv
<1> QED
  BY <1>1, KeysHold, PTL
-----------------------------------------------------------------------------
(***************************************************************************)
(* What a step never takes back: a credit, an amount paid or refunded, the *)
(* amount due of an intent.                                                *)
(***************************************************************************)

(* Totals and credits only grow, and what is due is set once.              *)
LEMMA CreditsStay ==
  ASSUME TablesTypeOK, Lawful
  PROVE  /\ credited \subseteq credited'
         /\ \A i \in Intents :
               /\ intents'[i].paid >= intents[i].paid
               /\ intents'[i].refunded >= intents[i].refunded
               /\ intents[i].due # 0 => intents'[i].due = intents[i].due
<1> DEFINE due == [i \in Intents |-> intents[i].due]
           paid == [i \in Intents |-> intents[i].paid]
           refunded == [i \in Intents |-> intents[i].refunded]
<1>0. /\ \A i \in Intents : intents[i].paid \in Nat /\ intents[i].refunded \in Nat
      /\ Amounts \subseteq Nat
  BY TablesAssumption DEF TablesTypeOK, IntentRow
<1>1. CASE Account!Next
  <2>1. PICK i \in Intents :
          \/ \E d \in Dues : Account!Open(i, d)
          \/ \E p \in Payments, a \in Amounts : Account!Pay(i, p, a)
          \/ \E r \in Refunds, a \in Amounts : Account!Refund(i, r, a)
    BY <1>1 DEF Account!Next
  <2>2. credited \subseteq credited'
    BY <2>1 DEF Account!Open, Account!Pay, Account!Refund
  <2>3. ASSUME NEW j \in Intents
        PROVE  /\ paid'[j] = paid[j] \/ \E a \in Amounts : paid'[j] = paid[j] + a
               /\ refunded'[j] = refunded[j] \/ \E a \in Amounts : refunded'[j] = refunded[j] + a
               /\ due[j] # 0 => due'[j] = due[j]
    <3>1. CASE \E d \in Dues : Account!Open(i, d)
      BY <3>1 DEF Account!Open
    <3>2. CASE \E p \in Payments, a \in Amounts : Account!Pay(i, p, a)
      BY <3>2 DEF Account!Pay
    <3>3. CASE \E r \in Refunds, a \in Amounts : Account!Refund(i, r, a)
      BY <3>3 DEF Account!Refund
    <3> QED
      BY <2>1, <3>1, <3>2, <3>3
  <2>4. ASSUME NEW j \in Intents
        PROVE  /\ paid[j] = intents[j].paid /\ paid'[j] = intents'[j].paid
               /\ refunded[j] = intents[j].refunded /\ refunded'[j] = intents'[j].refunded
               /\ due[j] = intents[j].due /\ due'[j] = intents'[j].due
    OBVIOUS
  <2> HIDE DEF due, paid, refunded
  <2> QED
    BY <1>0, <2>2, <2>3, <2>4
<1>2. CASE UNCHANGED Account!accountVars
  <2>1. due' = due /\ paid' = paid /\ refunded' = refunded /\ credited' = credited
    BY <1>2 DEF Account!accountVars
  <2>2. \A j \in Intents : /\ intents'[j].due = intents[j].due
                           /\ intents'[j].paid = intents[j].paid
                           /\ intents'[j].refunded = intents[j].refunded
    BY <2>1
  <2> QED
    BY <1>0, <2>1, <2>2
<1> QED
  BY <1>1, <1>2 DEF Lawful, StaysClosed
-----------------------------------------------------------------------------
(***************************************************************************)
(* What a completed key stands for.                                        *)
(***************************************************************************)

(* The row of call p is stored, for intent i and amount a.                 *)
Stored(p, i, a) == TxExists(p) /\ txs[p].intent = i /\ txs[p].amount = a

(* What a call under way has stored, and what its key says meanwhile.      *)
StoredCall(p) ==
    LET call == pay[p]
    IN  /\ call.pc \in {"apply", "complete"} => Stored(p, call.intent, call.amount)
        /\ call.pc = "complete" /\ call.result = "succeeded" => p \in credited
        /\ call.pc \in Reaching /\ call.key # None =>
              /\ keys[call.key].status = "processing"
              /\ keys[call.key].intent = call.intent
              /\ keys[call.key].amount = call.amount
        /\ call.pc = "replayed" =>
              /\ call.reply \in Payments /\ call.reply # p
              /\ Stored(call.reply, call.intent, call.amount)

(* A completed key names a call that ended well.                           *)
StoredKey(k) ==
    keys[k].status = "completed" =>
       LET p == keys[k].tx
       IN  /\ p \in Payments /\ pay[p].pc = "done"
           /\ Stored(p, keys[k].intent, keys[k].amount)
           /\ pay[p].result = "succeeded" => p \in credited

StoredInv == (\A p \in Payments : StoredCall(p)) /\ (\A k \in Keys : StoredKey(k))

(* What is stored stays stored.                                            *)
LEMMA StoredStays ==
  ASSUME Grows, NEW p \in Payments, NEW i, NEW a, Stored(p, i, a)
  PROVE  txs'[p].status # "absent" /\ txs'[p].intent = i /\ txs'[p].amount = a
  BY DEF Grows, Stored, TxExists, Txs

(* A step of call p alone, on a key that no other call holds.              *)
LEMMA StoredWritten ==
  ASSUME StoredInv, Grows, credited \subseteq credited',
         NEW p \in Payments, pay[p].pc # "done", StoredCall(p)',
         \A q \in Payments : q # p => pay'[q] = pay[q],
         \A k \in Keys : keys'[k] # keys[k] =>
            StoredKey(k)' /\ \A q \in Payments : pay[q].key = k /\ pay[q].pc \in Reaching => q = p,
         \A q \in Payments : pay[q].key \in Keys \cup {None}
  PROVE  StoredInv'
<1>1. ASSUME NEW q \in Payments, q # p PROVE StoredCall(q)'
  <2>1. pay'[q] = pay[q] /\ StoredCall(q)
    BY <1>1 DEF StoredInv
  <2>2. pay[q].pc \in {"apply", "complete"} => Stored(q, pay[q].intent, pay[q].amount)'
    BY <2>1, StoredStays DEF StoredCall, Stored, TxExists
  <2>3. pay[q].pc = "replayed" => Stored(pay[q].reply, pay[q].intent, pay[q].amount)'
    BY <2>1, StoredStays DEF StoredCall, Stored, TxExists
  <2>4. pay[q].pc \in Reaching /\ pay[q].key # None => keys'[pay[q].key] = keys[pay[q].key]
    BY <1>1
  <2> QED
    BY <2>1, <2>2, <2>3, <2>4 DEF StoredCall, Stored, TxExists
<1>2. ASSUME NEW k \in Keys PROVE StoredKey(k)'
  <2>1. CASE keys'[k] # keys[k]
    BY <2>1
  <2>2. CASE keys'[k] = keys[k] /\ keys[k].status = "completed"
    <3> DEFINE q == keys[k].tx
    <3>1. /\ q \in Payments /\ pay[q].pc = "done" /\ Stored(q, keys[k].intent, keys[k].amount)
          /\ pay[q].result = "succeeded" => q \in credited
      BY <2>2 DEF StoredInv, StoredKey
    <3>2. pay'[q] = pay[q]
      BY <3>1
    <3>3. Stored(q, keys[k].intent, keys[k].amount)'
      BY <2>2, <3>1, StoredStays DEF Stored, TxExists
    <3> QED
      BY <2>2, <3>1, <3>2, <3>3 DEF StoredKey
  <2> QED
    BY <2>1, <2>2 DEF StoredKey
<1> QED
  BY <1>1, <1>2 DEF StoredInv

(* The other use cases take nothing of it back.                            *)
LEMMA StoredStable ==
  ASSUME StoredInv, Grows, credited \subseteq credited', UNCHANGED gatewayVars
  PROVE  StoredInv'
<1>0. pay' = pay /\ keys' = keys
  BY DEF gatewayVars
<1>1. ASSUME NEW p \in Payments PROVE StoredCall(p)'
  <2>1. StoredCall(p)
    BY DEF StoredInv
  <2>2. /\ pay[p].pc \in {"apply", "complete"} => Stored(p, pay[p].intent, pay[p].amount)'
        /\ pay[p].pc = "replayed" => Stored(pay[p].reply, pay[p].intent, pay[p].amount)'
    BY <1>0, <2>1, StoredStays DEF StoredCall, Stored, TxExists
  <2> QED
    BY <1>0, <2>1, <2>2 DEF StoredCall, Stored, TxExists
<1>2. ASSUME NEW k \in Keys PROVE StoredKey(k)'
  <2>1. StoredKey(k)
    BY DEF StoredInv
  <2>2. keys[k].status = "completed" => Stored(keys[k].tx, keys[k].intent, keys[k].amount)'
    BY <1>0, <2>1, StoredStays DEF StoredKey, Stored, TxExists
  <2> QED
    BY <1>0, <2>1, <2>2 DEF StoredKey
<1> QED
  BY <1>1, <1>2 DEF StoredInv

(* A step that only moves a call on, and writes no key.                    *)
LEMMA StoredMoved ==
  ASSUME StoredInv, GatewayTypeOK, Grows, credited \subseteq credited', UNCHANGED keys,
         NEW p \in Payments, NEW step, Goto(p, step), pay[p].pc # "done", step # "replayed",
         step \in {"apply", "complete"} => Stored(p, pay[p].intent, pay[p].amount)',
         step = "complete" /\ pay[p].result = "succeeded" => p \in credited',
         step \in Reaching => pay[p].pc \in Reaching \/ pay[p].key = None
  PROVE  StoredInv'
<1>1. /\ pay'[p] = [pay[p] EXCEPT !.pc = step] /\ pay[p] \in PayCall
      /\ \A q \in Payments : q # p => pay'[q] = pay[q]
      /\ \A q \in Payments : pay[q].key \in Keys \cup {None}
  BY DEF Goto, GatewayTypeOK, PayCall
<1>2. /\ pay'[p].pc = step /\ pay'[p].intent = pay[p].intent /\ pay'[p].amount = pay[p].amount
      /\ pay'[p].key = pay[p].key /\ pay'[p].result = pay[p].result
  BY <1>1 DEF PayCall
<1>3. StoredCall(p)'
  BY <1>2 DEF StoredInv, StoredCall, Stored, TxExists
<1> QED
  BY <1>1, <1>3, StoredWritten

(* A call that returns the response stored with a completed key.           *)
LEMMA StoredReplayed ==
  ASSUME StoredInv, GatewayTypeOK, UNCHANGED <<tables, keys>>, Grows,
         NEW p \in Payments, NEW k \in Keys, Replay(p, k), pay[p].pc \in {"find", "reserve"},
         keys[k].status = "completed", SameRequest(p, k)
  PROVE  StoredInv'
<1>1. /\ pay'[p].pc = "replayed" /\ pay'[p].reply = keys[k].tx
      /\ pay'[p].intent = pay[p].intent /\ pay'[p].amount = pay[p].amount
      /\ \A q \in Payments : q # p => pay'[q] = pay[q]
      /\ \A q \in Payments : pay[q].key \in Keys \cup {None}
  BY DEF Replay, GatewayTypeOK, PayCall
<1>2. /\ keys[k].tx \in Payments /\ keys[k].tx # p
      /\ Stored(keys[k].tx, pay[p].intent, pay[p].amount)
  BY DEF StoredInv, StoredKey, SameRequest
<1>3. credited' = credited /\ txs' = txs
  BY DEF tables
<1>4. StoredCall(p)'
  BY <1>1, <1>2, <1>3 DEF StoredCall, Reaching, Stored, TxExists
<1> QED
  BY <1>1, <1>3, <1>4, StoredWritten

(* Every step of CreateGatewayPayment keeps keys and rows together.        *)
LEMMA StoredNext ==
  ASSUME StoredInv, KeyInv, GatewayInv, TablesInv, TablesInv', Grows,
         credited \subseteq credited', GatewayNext
  PROVE  StoredInv'
<1>0. PICK p \in Payments :
        \/ \E i \in Intents, a \in Amounts, k \in Keys \cup {None} : ReceivePayment(p, i, a, k)
        \/ FindKey(p) \/ AcceptPayment(p) \/ RejectPayment(p) \/ ReserveKey(p)
        \/ ChargeProvider(p) \/ ProviderThrows(p) \/ MarkKeyFailed(p)
        \/ InsertPayment(p) \/ ApplyPayment(p) \/ ApplyRefused(p)
        \/ CompleteKey(p) \/ AbortPayment(p)
  BY DEF GatewayNext
<1>1. /\ GatewayTypeOK /\ pay[p] \in PayCall /\ PayShape(p) /\ StoredCall(p) /\ p \in Txs
      /\ \A q \in Payments : pay[q].key \in Keys \cup {None}
  BY DEF GatewayInv, GatewayTypeOK, StoredInv, Txs, PayCall
<1>2. None \notin Keys /\ TablesTypeOK
  BY TablesAssumption DEF TablesInv
<1>3. ASSUME NEW k \in Keys, pay[p].key = k, pay[p].pc \in Reaching,
             NEW q \in Payments, pay[q].key = k, pay[q].pc \in Reaching
      PROVE  q = p
  BY <1>3 DEF KeyInv, OneChargePerKey, ChargeHolders, Reaching
<1>4. ASSUME NEW i \in Intents, NEW a \in Amounts, NEW k \in Keys \cup {None},
             ReceivePayment(p, i, a, k)
      PROVE  StoredInv'
  <2>1. /\ pay'[p].pc \in {"load", "find"} /\ pay[p].pc = "idle" /\ UNCHANGED keys
        /\ \A q \in Payments : q # p => pay'[q] = pay[q]
    BY <1>1, <1>4 DEF ReceivePayment, GatewayTypeOK, PayCall
  <2>2. StoredCall(p)'
    BY <2>1 DEF StoredCall, Reaching
  <2> QED
    BY <1>1, <2>1, <2>2, StoredWritten
<1>5. CASE FindKey(p)
  <2>1. /\ pay[p].pc = "find" /\ UNCHANGED <<tables, keys>> /\ pay[p].key \in Keys
        /\ keys[pay[p].key] \in KeyRow
    BY <1>1, <1>5 DEF FindKey, PayShape, GatewayTypeOK
  <2>2. \/ \E step \in {"load", "previously_failed", "conflict"} : Goto(p, step)
        \/ /\ Replay(p, pay[p].key) /\ keys[pay[p].key].status = "completed"
           /\ SameRequest(p, pay[p].key)
    BY <1>5, <2>1 DEF FindKey, KeyRow
  <2>3. CASE \E step \in {"load", "previously_failed", "conflict"} : Goto(p, step)
    <3>1. PICK step \in {"load", "previously_failed", "conflict"} : Goto(p, step)
      BY <2>3
    <3> QED
      BY <1>1, <2>1, <3>1, StoredMoved DEF Reaching
  <2> QED
    BY <1>1, <2>1, <2>2, <2>3, StoredReplayed
<1>6. CASE AcceptPayment(p)
  <2> DEFINE step == IF pay[p].key = None THEN "charge" ELSE "reserve"
  <2>1. pay[p].pc = "load" /\ UNCHANGED keys /\ Goto(p, step)
    BY <1>6 DEF AcceptPayment
  <2>2. step = "reserve" \/ (step = "charge" /\ pay[p].key = None)
    OBVIOUS
  <2> HIDE DEF step
  <2> QED
    BY <1>1, <2>1, <2>2, StoredMoved DEF Reaching
<1>7. CASE RejectPayment(p)
  BY <1>1, <1>7, StoredMoved DEF RejectPayment, Reaching
<1>8. CASE ReserveKey(p)
  <2>1. PICK k \in Keys : /\ k = pay[p].key /\ keys[k] \in KeyRow
                          /\ pay[p].pc = "reserve" /\ UNCHANGED <<tables, provider>>
    BY <1>1, <1>8 DEF ReserveKey, PayShape, GatewayTypeOK
  <2>2. CASE KeyIsFree(k)
    <3>1. /\ keys' = [keys EXCEPT ![k] = [status |-> "processing", intent |-> pay[p].intent,
                                          amount |-> pay[p].amount, tx |-> None]]
          /\ Goto(p, "charge") /\ keys[k].status = "absent"
      BY <1>8, <2>1, <2>2 DEF ReserveKey, KeyIsFree
    <3>2. /\ pay'[p].pc = "charge" /\ pay'[p].key = k
          /\ pay'[p].intent = pay[p].intent /\ pay'[p].amount = pay[p].amount
          /\ \A q \in Payments : q # p => pay'[q] = pay[q]
      BY <1>1, <2>1, <3>1 DEF Goto, GatewayTypeOK, PayCall
    <3>3. /\ keys'[k].status = "processing" /\ keys'[k].intent = pay[p].intent
          /\ keys'[k].amount = pay[p].amount
          /\ \A l \in Keys : l # k => keys'[l] = keys[l]
      BY <1>1, <2>1, <3>1 DEF GatewayTypeOK
    <3>4. StoredCall(p)' /\ StoredKey(k)'
      BY <3>2, <3>3 DEF StoredCall, StoredKey
    <3>5. \A q \in Payments : pay[q].key = k => pay[q].pc \notin Reaching
      BY <2>1, <3>1 DEF KeyInv, ChargeHolders, Reaching
    <3> QED
      BY <1>1, <2>1, <3>2, <3>3, <3>4, <3>5, StoredWritten
  <2>3. CASE ~KeyIsFree(k)
    <3>1. /\ UNCHANGED keys
          /\ \/ \E step \in {"conflict", "in_progress", "previously_failed"} : Goto(p, step)
             \/ Replay(p, k) /\ keys[k].status = "completed" /\ SameRequest(p, k)
      BY <1>8, <2>1, <2>3 DEF ReserveKey, KeyRow, KeyIsFree
    <3>2. CASE \E step \in {"conflict", "in_progress", "previously_failed"} : Goto(p, step)
      <4>1. PICK step \in {"conflict", "in_progress", "previously_failed"} : Goto(p, step)
        BY <3>2
      <4> QED
        BY <1>1, <2>1, <3>1, <4>1, StoredMoved DEF Reaching
    <3> QED
      BY <1>1, <2>1, <3>1, <3>2, StoredReplayed
  <2> QED
    BY <2>2, <2>3
<1>9. CASE ChargeProvider(p)
  <2>1. /\ pay[p].pc = "charge" /\ UNCHANGED keys
        /\ pay'[p].pc = "insert" /\ pay'[p].key = pay[p].key
        /\ pay'[p].intent = pay[p].intent /\ pay'[p].amount = pay[p].amount
        /\ \A q \in Payments : q # p => pay'[q] = pay[q]
    BY <1>1, <1>9 DEF ChargeProvider, GatewayTypeOK, PayCall
  <2>2. StoredCall(p)'
    BY <1>1, <2>1 DEF StoredCall, Reaching
  <2> QED
    BY <1>1, <2>1, <2>2, StoredWritten
<1>10. CASE ProviderThrows(p)
  <2> DEFINE step == IF pay[p].key = None THEN "provider_error" ELSE "mark_failed"
  <2>1. pay[p].pc = "charge" /\ UNCHANGED keys /\ Goto(p, step)
    BY <1>10 DEF ProviderThrows
  <2>2. step \in {"provider_error", "mark_failed"}
    OBVIOUS
  <2> HIDE DEF step
  <2> QED
    BY <1>1, <2>1, <2>2, StoredMoved DEF Reaching
<1>11. CASE MarkKeyFailed(p)
  <2>1. PICK k \in Keys :
        /\ k = pay[p].key /\ pay[p].pc = "mark_failed" /\ Goto(p, "provider_error")
        /\ keys' = [keys EXCEPT ![k].status = "failed"]
    BY <1>1, <1>11 DEF MarkKeyFailed, PayShape
  <2>2. pay'[p].pc = "provider_error" /\ \A q \in Payments : q # p => pay'[q] = pay[q]
    BY <1>1, <2>1, GotoIs
  <2>3. /\ keys'[k].status = "failed" /\ \A l \in Keys : l # k => keys'[l] = keys[l]
    BY <1>1, <2>1 DEF GatewayTypeOK, KeyRow
  <2>4. StoredCall(p)' /\ StoredKey(k)'
    BY <2>2, <2>3 DEF StoredCall, StoredKey, Reaching
  <2>5. \A q \in Payments : pay[q].key = k /\ pay[q].pc \in Reaching => q = p
    BY <1>3, <2>1 DEF Reaching
  <2> QED
    BY <1>1, <2>1, <2>2, <2>3, <2>4, <2>5, StoredWritten
<1>12. CASE InsertPayment(p)
  <2> DEFINE row == [status |-> InitialStatus(p), amount |-> pay[p].amount,
                     intent |-> pay[p].intent, parent |-> None, key |-> pay[p].key,
                     routable |-> TRUE]
             step == CASE pay[p].result = "succeeded" -> "apply"
                       [] pay[p].result # "succeeded" /\ pay[p].key # None -> "complete"
                       [] pay[p].result # "succeeded" /\ pay[p].key = None -> "done"
  <2>1. pay[p].pc = "insert" /\ InsertTx(p, row) /\ Goto(p, step) /\ UNCHANGED keys
    BY <1>12 DEF InsertPayment
  <2>2. row.status # "absent" /\ row.intent = pay[p].intent /\ row.amount = pay[p].amount
    BY <1>1, <2>1 DEF InitialStatus, PayShape, PayCall
  <2>3. step \in {"apply", "complete", "done"} /\ (step = "complete" => pay[p].result # "succeeded")
    OBVIOUS
  <2> HIDE DEF row, step
  <2>4. Stored(p, pay[p].intent, pay[p].amount)'
    <3>1. txs'[p] = row
      BY <1>1, <1>2, <2>1 DEF InsertTx, TablesTypeOK
    <3>2. pay'[p].intent = pay[p].intent /\ pay'[p].amount = pay[p].amount
      BY <1>1, <2>1 DEF Goto, GatewayTypeOK, PayCall
    <3> QED
      BY <2>2, <3>1, <3>2 DEF Stored, TxExists
  <2> QED
    BY <1>1, <2>1, <2>3, <2>4, StoredMoved DEF Reaching
<1>13. CASE ApplyPayment(p)
  <2> DEFINE step == IF pay[p].key = None THEN "done" ELSE "complete"
  <2>1. /\ pay[p].pc = "apply" /\ UNCHANGED keys /\ Goto(p, step)
        /\ Stored(p, pay[p].intent, pay[p].amount)
        /\ CreditPayment(p) \/ (PaymentOutcome(p) = "already" /\ UNCHANGED tables)
    BY <1>1, <1>13 DEF ApplyPayment, StoredCall
  <2>2. p \in credited'
    <3>1. CASE CreditPayment(p)
      BY <3>1 DEF CreditPayment
    <3>2. CASE PaymentOutcome(p) = "already" /\ UNCHANGED tables
      BY <1>1, <3>2 DEF PaymentOutcome, tables, TablesInv, CreditedExactly
    <3> QED
      BY <2>1, <3>1, <3>2
  <2>3. step \in {"complete", "done"}
    OBVIOUS
  <2> HIDE DEF step
  <2>4. Stored(p, pay[p].intent, pay[p].amount)'
    <3>1. pay'[p].intent = pay[p].intent /\ pay'[p].amount = pay[p].amount
      BY <1>1, <2>1 DEF Goto, GatewayTypeOK, PayCall
    <3> QED
      BY <2>1, <3>1, StoredStays DEF Stored, TxExists
  <2> QED
    BY <1>1, <2>1, <2>2, <2>3, <2>4, StoredMoved DEF Reaching
<1>14. CASE ApplyRefused(p)
  BY <1>1, <1>14, StoredMoved DEF ApplyRefused, Reaching
<1>15. CASE CompleteKey(p)
  <2>1. PICK k \in Keys :
        /\ k = pay[p].key /\ pay[p].pc = "complete" /\ Goto(p, "done") /\ UNCHANGED tables
        /\ keys' = [keys EXCEPT ![k] = [@ EXCEPT !.status = "completed", !.tx = p]]
    BY <1>1, <1>15 DEF CompleteKey, PayShape
  <2>2. /\ pay'[p].pc = "done" /\ pay'[p].result = pay[p].result
        /\ \A q \in Payments : q # p => pay'[q] = pay[q]
    BY <1>1, <2>1 DEF Goto, GatewayTypeOK, PayCall
  <2>3. /\ keys'[k].tx = p /\ keys'[k].intent = keys[k].intent /\ keys'[k].amount = keys[k].amount
        /\ \A l \in Keys : l # k => keys'[l] = keys[l]
    BY <1>1, <2>1 DEF GatewayTypeOK, KeyRow
  <2>4. /\ keys[k].intent = pay[p].intent /\ keys[k].amount = pay[p].amount
        /\ Stored(p, pay[p].intent, pay[p].amount)
        /\ pay[p].result = "succeeded" => p \in credited
    BY <1>1, <1>2, <2>1 DEF StoredCall, Reaching
  <2>5. StoredCall(p)' /\ StoredKey(k)'
    BY <2>1, <2>2, <2>3, <2>4 DEF StoredCall, StoredKey, Reaching, Stored, TxExists, tables
  <2>6. \A q \in Payments : pay[q].key = k /\ pay[q].pc \in Reaching => q = p
    BY <1>3, <2>1 DEF Reaching
  <2> QED
    BY <1>1, <2>1, <2>2, <2>3, <2>5, <2>6, StoredWritten
<1>16. CASE AbortPayment(p)
  BY <1>1, <1>16, StoredMoved DEF AbortPayment, PaySteps, Reaching
<1> QED
  BY <1>0, <1>4, <1>5, <1>6, <1>7, <1>8, <1>9, <1>10, <1>11, <1>12, <1>13, <1>14, <1>15, <1>16

(* A completed key always names the stored transaction its parameters      *)
(* asked for, credited if the provider had answered success, and a replay  *)
(* returns it: whatever the crashes, retries and concurrent calls.         *)
THEOREM CompletedKeysAreStored == OnlyPaymentsConfirmed /\ Spec => []CompletedKeyIsStored
<1>1. Init => StoredInv
  BY DEF Init, GatewayInit, StoredInv, StoredCall, StoredKey, Reaching
<1>2. Inv /\ KeyInv /\ StoredInv /\ [Next]_vars => StoredInv'
  <2> SUFFICES ASSUME Inv, KeyInv, StoredInv, [Next]_vars PROVE StoredInv'
    OBVIOUS
  <2>1. /\ Inv' /\ Grows /\ credited \subseteq credited'
        /\ TablesInv /\ TablesInv' /\ GatewayInv
    BY InvNext, CreditsStay DEF Inv, TablesInv
  <2>2. CASE GatewayNext
    BY <2>1, <2>2, StoredNext
  <2>3. CASE UNCHANGED gatewayVars
    BY <2>1, <2>3, StoredStable
  <2> QED
    BY <2>2, <2>3 DEF Next, vars
<1>3. StoredInv => CompletedKeyIsStored
  BY DEF StoredInv, StoredKey, StoredCall, Stored, CompletedKeyIsStored
<1> QED
  BY <1>1, <1>2, <1>3, InvHolds, KeysHold, PTL DEF Spec
-----------------------------------------------------------------------------
(***************************************************************************)
(* Credits are money the provider holds.                                   *)
(***************************************************************************)

(* Whatever reports a success, or is about to credit one, does so because  *)
(* the provider captured the charge; and nobody confirms by hand.          *)
CapturedCall(p) ==
    /\ pay[p].pc \in {"idle", "find", "load", "reserve", "charge"} => charge[p] = "none"
    /\ pay[p].pc = "insert" /\ pay[p].result = "succeeded" => charge[p] = "succeeded"
    /\ pay[p].pc = "apply" => charge[p] = "succeeded"
    /\ p \in credited => charge[p] = "succeeded"

CapturedInv ==
    /\ \A c \in Confirms : confirm[c].pc = "idle"
    /\ \A p \in Payments : CapturedCall(p)
    /\ ReportsInv

(* A step that settles no charge twice, opens none, and credits no payment.*)
LEMMA CapturedStable ==
  ASSUME CapturedInv, WebhookInv, UNCHANGED <<pay, webhookVars, confirm>>,
         \A p \in Payments : charge[p] \in {"none", "succeeded"} => charge'[p] = charge[p],
         credited' \cap Payments = credited \cap Payments
  PROVE  CapturedInv'
<1>1. ReportsInv'
  BY ReportsStable DEF CapturedInv
<1>2. \A p \in Payments : CapturedCall(p)'
  BY DEF CapturedInv, CapturedCall
<1> QED
  BY <1>1, <1>2 DEF CapturedInv

(* A step of call p alone.                                                 *)
LEMMA CapturedByGateway ==
  ASSUME CapturedInv, WebhookInv, UNCHANGED <<webhookVars, confirm>>, NEW p \in Payments,
         \A q \in Payments : q # p => pay'[q] = pay[q] /\ charge'[q] = charge[q],
         charge[p] = "succeeded" => charge'[p] = "succeeded",
         credited' \cap Payments \subseteq credited \cup {p},
         CapturedCall(p)'
  PROVE  CapturedInv'
<1>1. ReportsInv'
  BY ReportsStable DEF CapturedInv
<1>2. \A q \in Payments : CapturedCall(q)'
  BY DEF CapturedInv, CapturedCall
<1> QED
  BY <1>1, <1>2 DEF CapturedInv

(* Every step of CreateGatewayPayment credits only what was captured.      *)
LEMMA CapturedByGatewayNext ==
  ASSUME CapturedInv, GatewayInv, WebhookInv, TablesInv, ProviderTypeOK, GatewayNext,
         UNCHANGED <<webhookVars, confirm>>
  PROVE  CapturedInv'
<1>0. PICK p \in Payments :
        \/ \E i \in Intents, a \in Amounts, k \in Keys \cup {None} : ReceivePayment(p, i, a, k)
        \/ FindKey(p) \/ AcceptPayment(p) \/ RejectPayment(p) \/ ReserveKey(p)
        \/ ChargeProvider(p) \/ ProviderThrows(p) \/ MarkKeyFailed(p)
        \/ InsertPayment(p) \/ ApplyPayment(p) \/ ApplyRefused(p)
        \/ CompleteKey(p) \/ AbortPayment(p)
  BY DEF GatewayNext
<1>1. /\ GatewayTypeOK /\ pay[p] \in PayCall /\ PayShape(p) /\ CapturedCall(p)
      /\ pay[p].key \in Keys => keys[pay[p].key] \in KeyRow
      /\ TablesTypeOK /\ p \in Txs
  BY DEF GatewayInv, GatewayTypeOK, CapturedInv, TablesInv, Txs
<1>2. UNCHANGED tables => credited' = credited
  BY DEF tables
<1>3. ASSUME UNCHANGED provider, credited' = credited, NEW step, Goto(p, step),
             step \in {"idle", "find", "load", "reserve", "charge"} =>
                pay[p].pc \in {"idle", "find", "load", "reserve", "charge"},
             step # "insert",
             step = "apply" => pay[p].pc = "insert" /\ pay[p].result = "succeeded"
      PROVE  CapturedInv'
  <2>1. /\ pay'[p].pc = step /\ pay'[p].result = pay[p].result /\ charge' = charge
        /\ \A q \in Payments : q # p => pay'[q] = pay[q]
    BY <1>1, <1>3 DEF Goto, GatewayTypeOK, PayCall, provider
  <2>2. CapturedCall(p)'
    BY <1>1, <1>3, <2>1 DEF CapturedCall
  <2> QED
    BY <1>3, <2>1, <2>2, CapturedByGateway
<1>4. ASSUME NEW k \in Keys, Replay(p, k), UNCHANGED <<provider, tables>>
      PROVE  CapturedInv'
  <2>1. /\ pay'[p].pc = "replayed" /\ charge' = charge
        /\ \A q \in Payments : q # p => pay'[q] = pay[q]
    BY <1>1, <1>4 DEF Replay, GatewayTypeOK, PayCall, provider
  <2>2. CapturedCall(p)'
    BY <1>1, <1>2, <1>4, <2>1 DEF CapturedCall
  <2> QED
    BY <1>2, <1>4, <2>1, <2>2, CapturedByGateway
<1>5. ASSUME NEW i \in Intents, NEW a \in Amounts, NEW k \in Keys \cup {None},
             ReceivePayment(p, i, a, k)
      PROVE  CapturedInv'
  <2>1. /\ pay[p].pc = "idle" /\ pay'[p].pc \in {"load", "find"} /\ charge' = charge
        /\ credited' = credited /\ \A q \in Payments : q # p => pay'[q] = pay[q]
    BY <1>1, <1>5 DEF ReceivePayment, GatewayTypeOK, PayCall, provider, tables
  <2>2. CapturedCall(p)'
    BY <1>1, <2>1 DEF CapturedCall
  <2> QED
    BY <2>1, <2>2, CapturedByGateway
<1>6. CASE FindKey(p)
  <2>1. /\ pay[p].pc = "find" /\ UNCHANGED <<tables, provider>> /\ pay[p].key \in Keys
        /\ keys[pay[p].key] \in KeyRow
    BY <1>1, <1>6 DEF FindKey, PayShape
  <2>2. \/ \E step \in {"load", "previously_failed", "conflict"} : Goto(p, step)
        \/ Replay(p, pay[p].key)
    BY <1>6, <2>1 DEF FindKey, KeyRow
  <2> QED
    BY <1>2, <1>3, <1>4, <2>1, <2>2
<1>7. CASE AcceptPayment(p)
  <2> DEFINE step == IF pay[p].key = None THEN "charge" ELSE "reserve"
  <2>1. pay[p].pc = "load" /\ UNCHANGED <<tables, provider>> /\ Goto(p, step)
    BY <1>7 DEF AcceptPayment
  <2>2. step \in {"charge", "reserve"}
    OBVIOUS
  <2> HIDE DEF step
  <2> QED
    BY <1>2, <1>3, <2>1, <2>2
<1>8. CASE RejectPayment(p)
  BY <1>2, <1>3, <1>8 DEF RejectPayment
<1>9. CASE ReserveKey(p)
  <2>1. /\ pay[p].pc = "reserve" /\ UNCHANGED <<tables, provider>> /\ pay[p].key \in Keys
        /\ keys[pay[p].key] \in KeyRow
    BY <1>1, <1>9 DEF ReserveKey, PayShape
  <2>2. \/ \E step \in {"charge", "previously_failed", "in_progress", "conflict"} : Goto(p, step)
        \/ Replay(p, pay[p].key)
    BY <1>9, <2>1 DEF ReserveKey, KeyRow, KeyIsFree
  <2> QED
    BY <1>2, <1>3, <1>4, <2>1, <2>2
<1>10. CASE ChargeProvider(p)
  <2>1. PICK answer \in {"requires_action", "failed", "succeeded"} :
          /\ pay[p].pc = "charge"
          /\ charge' = [charge EXCEPT ![p] = IF answer = "requires_action"
                                             THEN "open" ELSE answer]
          /\ pay' = [pay EXCEPT ![p] = [pay[p] EXCEPT !.pc = "insert", !.result = answer]]
          /\ UNCHANGED <<tables, returned, keys>>
    BY <1>10 DEF ChargeProvider, ChargeAnswers, ManualCharge, FakeGatewayCharge, XenditCharge
  <2>2. /\ pay'[p].pc = "insert" /\ pay'[p].result = answer
        /\ answer = "succeeded" => charge'[p] = "succeeded"
        /\ charge[p] = "none"
        /\ \A q \in Payments : q # p => pay'[q] = pay[q] /\ charge'[q] = charge[q]
    BY <1>1, <2>1 DEF GatewayTypeOK, PayCall, ProviderTypeOK, CapturedCall
  <2>3. CapturedCall(p)'
    BY <1>1, <1>2, <2>1, <2>2 DEF CapturedCall
  <2> QED
    BY <1>2, <2>1, <2>2, <2>3, CapturedByGateway
<1>11. CASE ProviderThrows(p)
  <2> DEFINE step == IF pay[p].key = None THEN "provider_error" ELSE "mark_failed"
  <2>1. /\ pay[p].pc = "charge" /\ UNCHANGED tables /\ Goto(p, step) /\ charge[p] = "none"
        /\ \A q \in Payments : q # p => charge'[q] = charge[q]
    BY <1>1, <1>11 DEF ProviderThrows, ProviderTypeOK, CapturedCall
  <2>2. step \in {"provider_error", "mark_failed"}
    OBVIOUS
  <2> HIDE DEF step
  <2>3. pay'[p].pc = step /\ \A q \in Payments : q # p => pay'[q] = pay[q]
    BY <1>1, <2>1, GotoIs
  <2>4. CapturedCall(p)'
    BY <1>1, <1>2, <2>1, <2>2, <2>3 DEF CapturedCall
  <2> QED
    BY <1>2, <2>1, <2>3, <2>4, CapturedByGateway
<1>12. CASE MarkKeyFailed(p)
  BY <1>2, <1>3, <1>12 DEF MarkKeyFailed
<1>13. CASE InsertPayment(p)
  <2> DEFINE step == CASE pay[p].result = "succeeded" -> "apply"
                       [] pay[p].result # "succeeded" /\ pay[p].key # None -> "complete"
                       [] pay[p].result # "succeeded" /\ pay[p].key = None -> "done"
  <2>1. pay[p].pc = "insert" /\ credited' = credited /\ UNCHANGED provider /\ Goto(p, step)
    BY <1>13 DEF InsertPayment, InsertTx
  <2>2. step \in {"apply", "complete", "done"} /\ (step = "apply" => pay[p].result = "succeeded")
    OBVIOUS
  <2> HIDE DEF step
  <2> QED
    BY <1>3, <2>1, <2>2
<1>14. CASE ApplyPayment(p)
  <2> DEFINE step == IF pay[p].key = None THEN "done" ELSE "complete"
  <2>1. /\ pay[p].pc = "apply" /\ UNCHANGED provider /\ Goto(p, step)
        /\ CreditPayment(p) \/ UNCHANGED tables
    BY <1>14 DEF ApplyPayment
  <2>2. step \in {"complete", "done"}
    OBVIOUS
  <2> HIDE DEF step
  <2>3. credited' \subseteq credited \cup {p}
    BY <1>2, <2>1 DEF CreditPayment
  <2>4. pay'[p].pc = step /\ \A q \in Payments : q # p => pay'[q] = pay[q]
    BY <1>1, <2>1, GotoIs
  <2>5. charge' = charge /\ charge[p] = "succeeded"
    BY <1>1, <2>1 DEF provider, CapturedCall
  <2>6. CapturedCall(p)'
    BY <2>2, <2>4, <2>5 DEF CapturedCall
  <2> QED
    BY <2>3, <2>4, <2>5, <2>6, CapturedByGateway
<1>15. CASE ApplyRefused(p)
  BY <1>2, <1>3, <1>15 DEF ApplyRefused
<1>16. CASE CompleteKey(p)
  BY <1>2, <1>3, <1>16 DEF CompleteKey
<1>17. CASE AbortPayment(p)
  BY <1>2, <1>3, <1>17 DEF AbortPayment
<1> QED
  BY <1>0, <1>5, <1>6, <1>7, <1>8, <1>9, <1>10, <1>11, <1>12, <1>13, <1>14, <1>15, <1>16, <1>17

(* In production every payment in an intent's totals is one whose charge   *)
(* the provider captured: no call, event, crash or replay credits another. *)
THEOREM CreditsAreCaptured == OnlyPaymentsConfirmed /\ Spec => []CreditedOnlyIfCaptured
<1>1. Init /\ Production => CapturedInv
  BY ReportsStart DEF Init, TablesInit, ProviderInit, GatewayInit, ConfirmInit, ConfirmIdle,
     CapturedInv, CapturedCall
<1>2. Production /\ Inv /\ CapturedInv /\ [Next]_vars => CapturedInv'
  <2> SUFFICES ASSUME Production, Inv, CapturedInv, [Next]_vars PROVE CapturedInv'
    OBVIOUS
  <2>0. /\ TablesInv /\ ProviderTypeOK /\ GatewayInv /\ WebhookInv /\ VoidInv
        /\ Payments \cap Refunds = {}
    BY TablesAssumption DEF Inv
  <2> DEFINE Others == UNCHANGED <<gatewayVars, webhookVars, confirm>>
             Steady == /\ \A p \in Payments : charge[p] \in {"none", "succeeded"} =>
                                                charge'[p] = charge[p]
                       /\ credited' \cap Payments = credited \cap Payments
  <2>1. Others /\ Steady => CapturedInv'
    BY <2>0, CapturedStable DEF gatewayVars
  <2>2. CASE Environment /\ Others
    <3>1. CASE UNCHANGED provider /\ credited' = credited
      BY <2>1, <2>2, <3>1 DEF provider
    <3>2. CASE SettleCharge /\ UNCHANGED tables
      <4>1. Steady
        BY <2>0, <3>2 DEF SettleCharge, tables, ProviderTypeOK
      <4> QED
        BY <2>1, <2>2, <4>1
    <3> QED
      BY <2>2, <3>1, <3>2 DEF Environment, CreateIntent, PassDeadline
  <2>3. CASE GatewayNext /\ UNCHANGED <<webhookVars, confirm>>
    BY <2>0, <2>3, CapturedByGatewayNext
  <2>4. CASE WebhookNext /\ UNCHANGED <<gatewayVars, confirm>>
    <3>1. ReportsInv' /\ \A p \in Payments \cap credited' : p \in credited \/ charge[p] = "succeeded"
      BY <2>0, <2>4, CapturedByWebhookNext DEF CapturedInv, TablesInv
    <3>2. charge' = charge /\ confirm' = confirm /\ pay' = pay
      BY <2>0, <2>4, WebhookWrites DEF TablesInv, provider, gatewayVars
    <3>3. \A p \in Payments : CapturedCall(p)'
      BY <3>1, <3>2 DEF CapturedInv, CapturedCall
    <3> QED
      BY <3>1, <3>2, <3>3 DEF CapturedInv
  <2>5. CASE ConfirmNext
    <3>1. FALSE
      BY <2>5 DEF ConfirmNext, CapturedInv, LoadConfirm, ConfirmAllowed, ApplyConfirm,
         ConfirmWithoutEffect, EmitConfirmedTx, EmitConfirmedIntent, AbortConfirm
    <3> QED
      BY <3>1
  <2>6. CASE RefundNext /\ Others
    <3>1. PICK r \in Refunds : charge' = charge /\ (credited' = credited \/ credited' = credited \cup {r})
      BY <2>6 DEF RefundNext, LoadSource, FindRefund, CheckRefundable, InsertRefund,
         RefundAtProvider, RefundThrows, ApplyRefund, ApplyRefundRefused, SettleRefund,
         EmitRefundTx, EmitRefundIntent, AbortRefund, provider, tables, InsertTx, SetTxStatus,
         CreditRefund
    <3>2. Steady
      BY <2>0, <3>1
    <3> QED
      BY <2>1, <2>6, <3>2
  <2>7. CASE VoidNext /\ Others
    <3>1. PICK v \in Voids :
            /\ credited' = credited
            /\ \/ charge' = charge
               \/ /\ charge[void[v].tx] = "open"
                  /\ charge' = [charge EXCEPT ![void[v].tx] = "cancelled"]
      BY <2>7 DEF VoidNext, LoadVoid, CheckVoidable, CancelAtProvider, WriteVoid, EmitVoidTx,
         EmitVoidIntent, AbortVoid, provider, tables
    <3>2. Steady
      BY <2>0, <3>1 DEF ProviderTypeOK
    <3> QED
      BY <2>1, <2>7, <3>2
  <2>8. CASE SweepNext /\ Others
    <3>1. charge' = charge /\ credited' = credited
      BY <2>8 DEF SweepNext, ListStaleTxs, ExpireTx, FinishStaleTxs, ListStaleIntents,
         ListIntentTxs, FinishIntentTxs, FinishIntents, RecheckIntent, WriteExpired, FinishSweep,
         AbortSweep, provider, tables, SetTxStatus, SetIntentStatus
    <3> QED
      BY <2>1, <2>8, <3>1
  <2>9. CASE UNCHANGED vars
    BY <2>1, <2>9 DEF vars, tables, provider
  <2> HIDE DEF Others
  <2> QED
    BY <2>2, <2>3, <2>4, <2>5, <2>6, <2>7, <2>8, <2>9 DEF Next, Others
<1>3. CapturedInv => CreditedOnlyIfCaptured
  BY DEF CapturedInv, CapturedCall, CreditedOnlyIfCaptured
<1>4. ~Production => CreditedOnlyIfCaptured
  BY DEF CreditedOnlyIfCaptured
<1>5. CASE Production
  BY <1>1, <1>2, <1>3, <1>5, InvHolds, PTL DEF Spec
<1>6. CASE ~Production
  BY <1>4, <1>6, PTL
<1> QED
  BY <1>5, <1>6
-----------------------------------------------------------------------------
(***************************************************************************)
(* What a processed event stands for.                                      *)
(***************************************************************************)
(* An event whose stored payload tells how a charge settled is processed   *)
(* only with its transaction stored and, where ids are an event's own and  *)
(* not an invoice's, closed, and it stays so: however deliveries, other    *)
(* use cases and crashes interleave.  A call past its application has      *)
(* done what its own payload says.                                         *)
THEOREM EventsStayApplied == OnlyPaymentsConfirmed /\ Spec => []AppliedInv
<1>1. Init => AppliedInv
  BY AppliedStart DEF Init
<1>2. Inv /\ AppliedInv /\ [Next]_vars => AppliedInv'
  <2> SUFFICES ASSUME Inv, AppliedInv, [Next]_vars PROVE AppliedInv'
    OBVIOUS
  <2>1. Grows /\ StaysClosed /\ TablesTypeOK /\ WebhookInv
    BY InvNext DEF Inv, TablesInv, Lawful
  <2>2. CASE WebhookNext
    BY <2>1, <2>2, AppliedNext
  <2>3. CASE UNCHANGED webhookVars
    BY <2>1, <2>3, AppliedStable
  <2> QED
    BY <2>2, <2>3 DEF Next, vars
<1> QED
  BY <1>1, <1>2, InvHolds, PTL DEF Spec

(* The steps that mark an event processed: a call's, past its application. *)
ProcessedStep ==
    \A e \in Events :
        inbox[e].status # "processed" /\ inbox'[e].status = "processed" =>
           \E h \in Hooks :
              /\ hook[h].ev = e /\ hook'[h] # hook[h]
              /\ hook[h].outcome \notin {"ignored", "requires_action"} =>
                   txs[inbox[e].tx].status \notin ConfirmableStatuses \cup {"absent"}

(* No step but MarkProcessed makes an event processed.                     *)
LEMMA OnlyMarkProcesses ==
  ASSUME WebhookInv, WebhookNext, NEW e \in Events,
         inbox[e].status # "processed", inbox'[e].status = "processed"
  PROVE  \E h \in Hooks : MarkProcessed(h) /\ hook[h].ev = e
<1>1. PICK h \in Hooks :
        \/ \E d \in Events, outcome \in Outcomes :
             \/ \E p \in Payments : ReceiveEvent(h, d, p, outcome)
             \/ ReceiveAgain(h, d, outcome)
        \/ ClaimEvent(h) \/ ResolveEvent(h) \/ FailUnknown(h)
        \/ ApplySuccess(h) \/ ApplySuccessThrows(h) \/ SkipEvent(h) \/ ApplyClosure(h)
        \/ MarkProcessed(h) \/ EmitHookTx(h) \/ EmitHookIntent(h)
        \/ StatementThrows(h) \/ FailEvent(h) \/ AbortHook(h)
  BY DEF WebhookNext
<1>2. inbox \in [Events -> EventRow]
  BY DEF WebhookInv, WebhookTypeOK
<1>3. ASSUME NEW status \in {"processing", "failed"} PROVE ~SetEventStatus(hook[h].ev, status)
  BY <1>2 DEF SetEventStatus, EventRow
<1>4. inbox' # inbox
  OBVIOUS
<1>5. ASSUME NEW d \in Events, NEW outcome \in Outcomes, NEW p \in Payments
      PROVE  ~ReceiveEvent(h, d, p, outcome)
  BY <1>2 DEF ReceiveEvent
<1>6. MarkProcessed(h)
  BY <1>1, <1>3, <1>4, <1>5 DEF ReceiveAgain, ClaimEvent, ResolveEvent, FailUnknown,
     ApplySuccess, ApplySuccessThrows, SkipEvent, ApplyClosure, EmitHookTx, EmitHookIntent,
     StatementThrows, FailEvent, AbortHook
<1>7. hook[h].ev = e
  BY <1>2, <1>6 DEF MarkProcessed, SetEventStatus, EventRow
<1> QED
  BY <1>6, <1>7

(* A webhook call marks its event processed only once its transaction is   *)
(* stored and, if the payload it was given tells how the charge settled,   *)
(* closed: however deliveries, other use cases and crashes interleave.     *)
THEOREM ProcessedEventsAreApplied == OnlyPaymentsConfirmed /\ Spec => ProcessedEventIsApplied
<1>1. Inv /\ AppliedInv /\ [Next]_vars => [ProcessedStep]_vars
  <2> SUFFICES ASSUME Inv, AppliedInv, [Next]_vars, NEW e \in Events,
                      inbox[e].status # "processed", inbox'[e].status = "processed"
               PROVE  \E h \in Hooks :
                         /\ hook[h].ev = e /\ hook'[h] # hook[h]
                         /\ hook[h].outcome \notin {"ignored", "requires_action"} =>
                              txs[inbox[e].tx].status \notin ConfirmableStatuses \cup {"absent"}
    BY DEF ProcessedStep
  <2>1. WebhookNext /\ WebhookInv
    BY DEF Next, vars, webhookVars, Inv
  <2>2. PICK h \in Hooks : MarkProcessed(h) /\ hook[h].ev = e
    BY <2>1, OnlyMarkProcesses
  <2>3. hook[h].pc \in {"mark", "mark_only"}
    BY <2>2 DEF MarkProcessed
  <2>4. hook'[h] # hook[h]
    BY <2>1, <2>2, <2>3 DEF MarkProcessed, HookTo, HookReturns, HookIdle, WebhookInv,
       WebhookTypeOK, HookCall
  <2>5. hook[h].outcome \notin {"ignored", "requires_action"} => Shut(inbox[e].tx)
    BY <2>2, <2>3 DEF AppliedInv, AppliedHook, Settling, HookTx, Resolved
  <2> QED
    BY <2>2, <2>4, <2>5 DEF Shut, TxExists
<1> QED
  BY <1>1, InvHolds, EventsStayApplied, PTL DEF Spec, ProcessedEventIsApplied, ProcessedStep
-----------------------------------------------------------------------------
(***************************************************************************)
(* What is announced is true.                                              *)
(***************************************************************************)

(* What status s says of x: nothing that a later step could take back.     *)
HoldsOf(x, s) ==
    /\ s = "succeeded" => x \in credited
    /\ s \in {"paid", "partially_paid"} => x \in Intents /\ intents[x].paid > 0
    /\ s = "paid" => intents[x].paid >= intents[x].due
    /\ s = "refunded" /\ x \in Intents => intents[x].refunded > 0
    /\ s # "overpaid"

(* A call that is about to announce what it credited, or the status of the *)
(* intent that it holds.                                                   *)
ConfirmFact(c) ==
    confirm[c].pc \in {"emit_tx", "emit_intent"} =>
       /\ confirm[c].tx \in credited
       /\ HoldsOf(txs[confirm[c].tx].intent, confirm[c].intentStatus)

HookFact(h) == hook[h].pc # "idle" /\ hook[h].seen = "succeeded" => HookTx(h) \in credited

RefundFact(r) ==
    /\ refund[r].pc # "idle" => HoldsOf(txs[refund[r].src].intent, refund[r].intentStatus)
    /\ refund[r].pc \in {"refund", "apply", "settle", "emit_tx", "emit_intent"} =>
          txs[r].intent = txs[refund[r].src].intent
    /\ refund[r].pc = "emit_tx" /\ refund[r].result = "succeeded" => r \in credited

OutboxFact == \A event \in outbox : HoldsOf(event.about, event.status)

AnnouncedInv ==
    /\ OutboxFact
    /\ \A c \in Confirms : ConfirmFact(c)
    /\ \A h \in Hooks : HookFact(h)
    /\ \A r \in Refunds : RefundFact(r)

(* A status of which a lasting fact holds.                                 *)
LEMMA HoldsStays ==
  ASSUME TablesInv, TablesInv', Lawful, NEW x, NEW s, HoldsOf(x, s)
  PROVE  HoldsOf(x, s)'
<1>1. /\ credited \subseteq credited'
      /\ \A i \in Intents : /\ intents'[i].paid >= intents[i].paid
                            /\ intents'[i].refunded >= intents[i].refunded
                            /\ intents[i].due # 0 => intents'[i].due = intents[i].due
  BY CreditsStay DEF TablesInv
<1>2. CASE x \in Intents
  <2>1. /\ intents[x].paid \in Nat /\ intents[x].refunded \in Nat /\ intents[x].due \in Nat
        /\ intents'[x].paid \in Nat /\ intents'[x].refunded \in Nat
        /\ intents[x].paid <= intents[x].due
    BY <1>2 DEF TablesInv, TablesTypeOK, IntentRow, AmountsConserved
  <2> QED
    BY <1>1, <1>2, <2>1 DEF HoldsOf
<1>3. CASE x \notin Intents
  BY <1>1, <1>3 DEF HoldsOf
<1> QED
  BY <1>2, <1>3

(* The status of an intent that exists says what its totals are, now and   *)
(* after a step.                                                           *)
LEMMA StatusHolds ==
  ASSUME TablesInv, TablesInv', NEW i \in Intents
  PROVE  /\ intents[i].status # "absent" => HoldsOf(i, intents[i].status)
         /\ intents'[i].status # "absent" => HoldsOf(i, intents[i].status)'
<1>1. ASSUME NEW row \in IntentRow, row.status # "absent",
             row.status \notin {"absent", "expired"} =>
                \/ row.status = "requires_payment" /\ row.paid = 0
                \/ row.status = "refunded" /\ row.paid > 0 /\ row.refunded = row.paid
                \/ /\ row.paid > row.refunded
                   /\ row.status = IF row.paid < row.due THEN "partially_paid" ELSE "paid"
      PROVE  /\ row.status # "succeeded" /\ row.status # "overpaid"
             /\ row.status \in {"paid", "partially_paid"} => row.paid > 0
             /\ row.status = "paid" => row.paid >= row.due
             /\ row.status = "refunded" => row.refunded > 0
  <2>1. row.paid \in Nat /\ row.refunded \in Nat /\ row.due \in Nat
    BY DEF IntentRow
  <2> QED
    BY <1>1, <2>1
<1>2. intents[i] \in IntentRow /\ intents'[i] \in IntentRow
  BY DEF TablesInv, TablesTypeOK
<1>3. intents[i].status # "absent" => HoldsOf(i, intents[i].status)
  BY <1>1, <1>2 DEF TablesInv, StatusMatchesTotals, HoldsOf
<1>4. intents'[i].status # "absent" => HoldsOf(i, intents[i].status)'
  BY <1>1, <1>2 DEF TablesInv, StatusMatchesTotals, HoldsOf
<1> QED
  BY <1>3, <1>4

(* A transaction is announced as succeeded when it is credited.            *)
LEMMA EmitsTx ==
  ASSUME OutboxFact, TablesInv, TablesInv', Lawful, NEW t \in Txs, NEW status, NEW cause,
         EmitTransactionStatus(t, status, cause),
         status = "succeeded" => t \in credited
  PROVE  OutboxFact'
<1>1. \A event \in outbox : HoldsOf(event.about, event.status)'
  BY HoldsStays DEF OutboxFact
<1>2. t \notin Intents
  BY TablesAssumption DEF Txs
<1>3. status \in AnnouncedTxStatuses => HoldsOf(t, status)
  BY <1>2 DEF HoldsOf, AnnouncedTxStatuses
<1>4. status \in AnnouncedTxStatuses => HoldsOf(t, status)'
  BY <1>3, HoldsStays
<1> QED
  BY <1>1, <1>4 DEF OutboxFact, EmitTransactionStatus, Emit

(* An intent is announced with a status that holds of it.                  *)
LEMMA EmitsIntent ==
  ASSUME OutboxFact, TablesInv, TablesInv', Lawful, NEW i, NEW status, NEW cause,
         EmitIntentStatus(i, status, cause), HoldsOf(i, status)
  PROVE  OutboxFact'
<1>1. \A event \in outbox : HoldsOf(event.about, event.status)'
  BY HoldsStays DEF OutboxFact
<1>2. HoldsOf(i, status)' /\ status # "overpaid"
  BY HoldsStays DEF HoldsOf
<1> QED
  BY <1>1, <1>2 DEF OutboxFact, EmitIntentStatus, Emit

(* What the calls hold stays true while they hold it.                      *)
LEMMA FactsStay ==
  ASSUME AnnouncedInv, Inv, Inv', Grows, Lawful
  PROVE  /\ outbox' = outbox => OutboxFact'
         /\ \A c \in Confirms : confirm'[c] = confirm[c] => ConfirmFact(c)'
         /\ \A h \in Hooks : /\ hook'[h] = hook[h]
                             /\ hook[h].pc # "idle" => HookTx(h)' = HookTx(h)
                             => HookFact(h)'
         /\ \A r \in Refunds : refund'[r] = refund[r] => RefundFact(r)'
<1>0. /\ TablesInv /\ TablesInv' /\ ConfirmInv /\ RefundInv
      /\ credited \subseteq credited'
  BY CreditsStay DEF Inv, TablesInv
<1>1. outbox' = outbox => OutboxFact'
  BY <1>0, HoldsStays DEF AnnouncedInv, OutboxFact
<1>2. ASSUME NEW c \in Confirms, confirm'[c] = confirm[c] PROVE ConfirmFact(c)'
  <2>1. CASE confirm[c].pc \in {"emit_tx", "emit_intent"}
    <3>1. PICK t \in Payments : t = confirm[c].tx /\ TxExists(t)
      BY <1>0, <2>1 DEF ConfirmInv, ConfirmShape
    <3>2. PICK i, s : i = txs[t].intent /\ s = confirm[c].intentStatus
      OBVIOUS
    <3>3. t \in credited /\ HoldsOf(i, s)
      BY <2>1, <3>1, <3>2 DEF AnnouncedInv, ConfirmFact
    <3>4. txs'[t].intent = i /\ HoldsOf(i, s)'
      BY <1>0, <3>1, <3>2, <3>3, HoldsStays DEF Grows, Txs
    <3> QED
      BY <1>0, <1>2, <3>1, <3>2, <3>3, <3>4 DEF ConfirmFact
  <2> QED
    BY <1>2, <2>1 DEF ConfirmFact
<1>3. ASSUME NEW h \in Hooks, hook'[h] = hook[h], hook[h].pc # "idle" => HookTx(h)' = HookTx(h)
      PROVE  HookFact(h)'
  BY <1>0, <1>3 DEF AnnouncedInv, HookFact
<1>4. ASSUME NEW r \in Refunds, refund'[r] = refund[r] PROVE RefundFact(r)'
  <2>1. CASE refund[r].pc # "idle"
    <3>1. PICK p \in Payments : p = refund[r].src /\ TxExists(p)
      BY <1>0, <2>1 DEF RefundInv, RefundShape
    <3>2. PICK i, s : i = txs[p].intent /\ s = refund[r].intentStatus
      OBVIOUS
    <3>3. HoldsOf(i, s)
      BY <2>1, <3>1, <3>2 DEF AnnouncedInv, RefundFact
    <3>4. txs'[p].intent = i /\ HoldsOf(i, s)'
      BY <1>0, <3>1, <3>2, <3>3, HoldsStays DEF Grows, Txs
    <3>5. refund[r].pc \in {"refund", "apply", "settle", "emit_tx", "emit_intent"} =>
             TxExists(r) /\ txs'[r].intent = txs[r].intent /\ txs[r].intent = i
      BY <1>0, <2>1, <3>1, <3>2 DEF RefundInv, RefundShape, AnnouncedInv, RefundFact, Grows, Txs
    <3>6. refund[r].pc = "emit_tx" /\ refund[r].result = "succeeded" => r \in credited'
      BY <1>0 DEF AnnouncedInv, RefundFact
    <3> QED
      BY <1>4, <3>1, <3>2, <3>4, <3>5, <3>6 DEF RefundFact
  <2> QED
    BY <1>4, <2>1 DEF RefundFact
<1> QED
  BY <1>1, <1>2, <1>3, <1>4

(* One lemma per use case: its steps leave what the other calls will       *)
(* announce as true as it was.                                             *)
LEMMA AnnouncedByConfirm ==
  ASSUME AnnouncedInv, Inv, Inv', Grows, Lawful, ConfirmNext, UNCHANGED <<webhookVars, refund>>
  PROVE  AnnouncedInv'
<1>0. PICK c \in Confirms :
        \/ \E p \in ConfirmTargets : LoadConfirm(c, p)
        \/ ApplyConfirm(c) \/ ConfirmWithoutEffect(c)
        \/ EmitConfirmedTx(c) \/ EmitConfirmedIntent(c) \/ AbortConfirm(c)
  BY DEF ConfirmNext
<1>1. /\ TablesInv /\ TablesInv' /\ confirm[c] \in ConfirmCall /\ ConfirmShape(c)
      /\ ConfirmTypeOK /\ ConfirmFact(c) /\ OutboxFact /\ TablesTypeOK
  BY DEF Inv, ConfirmInv, ConfirmTypeOK, AnnouncedInv, TablesInv
<1>2. (\A h \in Hooks : HookFact(h)') /\ (\A r \in Refunds : RefundFact(r)')
  BY FactsStay DEF webhookVars, HookTx
<1>3. ASSUME NEW new, confirm' = [confirm EXCEPT ![c] = new], ConfirmFact(c)', OutboxFact'
      PROVE  AnnouncedInv'
  <2>1. \A d \in Confirms : d # c => confirm'[d] = confirm[d]
    BY <1>1, <1>3 DEF ConfirmTypeOK
  <2> QED
    BY <1>2, <1>3, <2>1, FactsStay DEF AnnouncedInv
<1>4. UNCHANGED outbox => OutboxFact'
  BY FactsStay
<1>5. confirm' = [confirm EXCEPT ![c] = ConfirmIdle] => ConfirmFact(c)'
  BY <1>1 DEF ConfirmFact, ConfirmTypeOK, ConfirmIdle
<1>6. ASSUME NEW p \in ConfirmTargets, LoadConfirm(c, p) PROVE AnnouncedInv'
  <2> DEFINE new == [confirm[c] EXCEPT !.pc = "apply", !.tx = p]
  <2>1. confirm' = [confirm EXCEPT ![c] = new] /\ UNCHANGED outbox
    BY <1>6 DEF LoadConfirm
  <2>2. confirm'[c].pc = "apply"
    BY <1>1, <2>1 DEF ConfirmTypeOK, ConfirmCall
  <2>3. ConfirmFact(c)'
    BY <2>2 DEF ConfirmFact
  <2> HIDE DEF new
  <2> QED
    BY <1>3, <1>4, <2>1, <2>3
<1>7. CASE ApplyConfirm(c)
  <2> DEFINE new == [confirm[c] EXCEPT !.pc = "emit_tx",
                       !.intentStatus = intents'[txs[confirm[c].tx].intent].status]
  <2>1. /\ confirm[c].pc = "apply" /\ CreditPayment(confirm[c].tx) /\ UNCHANGED outbox
        /\ confirm' = [confirm EXCEPT ![c] = new]
    BY <1>7 DEF ApplyConfirm
  <2>2. PICK t \in Payments : t = confirm[c].tx /\ TxExists(t) /\ t \in Txs
    BY <1>1, <2>1 DEF ConfirmShape, Txs
  <2>3. PICK i \in Intents : i = txs[t].intent /\ txs'[t].intent = i /\ intents'[i].status # "absent"
    BY <1>1, <2>2 DEF Grows, TablesInv, RowsWellFormed
  <2>4. HoldsOf(i, intents[i].status)'
    BY <1>1, <2>3, StatusHolds
  <2>5. confirm'[c].tx = t /\ confirm'[c].intentStatus = intents'[i].status /\ t \in credited'
    BY <1>1, <2>1, <2>2, <2>3 DEF ConfirmTypeOK, ConfirmCall, CreditPayment
  <2>6. ConfirmFact(c)'
    BY <2>3, <2>4, <2>5 DEF ConfirmFact
  <2> HIDE DEF new
  <2> QED
    BY <1>3, <1>4, <2>1, <2>6
<1>8. CASE ConfirmWithoutEffect(c)
  BY <1>3, <1>4, <1>5, <1>8 DEF ConfirmWithoutEffect
<1>9. CASE EmitConfirmedTx(c)
  <2> DEFINE new == [confirm[c] EXCEPT !.pc = "emit_intent"]
  <2>1. /\ confirm[c].pc = "emit_tx" /\ UNCHANGED tables
        /\ EmitTransactionStatus(confirm[c].tx, "succeeded", <<"confirm", None>>)
        /\ confirm' = [confirm EXCEPT ![c] = new]
    BY <1>9 DEF EmitConfirmedTx
  <2>2. PICK t \in Txs : t = confirm[c].tx /\ t \in credited
    BY <1>1, <2>1 DEF ConfirmShape, ConfirmFact, Txs
  <2>3. OutboxFact'
    BY <1>1, <2>1, <2>2, EmitsTx
  <2>4. /\ confirm'[c].tx = confirm[c].tx /\ confirm'[c].intentStatus = confirm[c].intentStatus
        /\ txs' = txs /\ intents' = intents /\ credited' = credited
    BY <1>1, <2>1 DEF ConfirmTypeOK, ConfirmCall, tables
  <2>5. ConfirmFact(c)'
    BY <1>1, <2>1, <2>4 DEF ConfirmFact, HoldsOf
  <2> HIDE DEF new
  <2> QED
    BY <1>3, <2>1, <2>3, <2>5
<1>10. CASE EmitConfirmedIntent(c)
  <2>1. /\ confirm[c].pc = "emit_intent" /\ confirm' = [confirm EXCEPT ![c] = ConfirmIdle]
        /\ EmitIntentStatus(txs[confirm[c].tx].intent, confirm[c].intentStatus, <<"confirm", None>>)
    BY <1>10 DEF EmitConfirmedIntent
  <2>2. PICK i, s : i = txs[confirm[c].tx].intent /\ s = confirm[c].intentStatus
    OBVIOUS
  <2>3. HoldsOf(i, s)
    BY <1>1, <2>1, <2>2 DEF ConfirmFact
  <2>4. OutboxFact'
    BY <1>1, <2>1, <2>2, <2>3, EmitsIntent
  <2> QED
    BY <1>3, <1>5, <2>1, <2>4
<1>11. CASE AbortConfirm(c)
  BY <1>3, <1>4, <1>5, <1>11 DEF AbortConfirm
<1> QED
  BY <1>0, <1>6, <1>7, <1>8, <1>9, <1>10, <1>11

(* A void announces a cancellation, and the intent as it stands.           *)
LEMMA AnnouncedByVoid ==
  ASSUME AnnouncedInv, Inv, Inv', Grows, Lawful, VoidNext,
         UNCHANGED <<confirm, webhookVars, refund>>
  PROVE  AnnouncedInv'
<1>1. /\ TablesInv /\ TablesInv' /\ OutboxFact
      /\ \A v \in Voids : VoidShape(v)
  BY DEF Inv, VoidInv, AnnouncedInv
<1>2. OutboxFact' => AnnouncedInv'
  BY FactsStay DEF webhookVars, HookTx, AnnouncedInv
<1>3. PICK v \in Voids :
        \/ UNCHANGED outbox
        \/ void[v].pc = "emit_tx"
           /\ EmitTransactionStatus(void[v].tx, "cancelled", <<"void", void[v].tx>>)
        \/ EmitVoidIntent(v)
  BY DEF VoidNext, LoadVoid, CheckVoidable, CancelAtProvider, WriteVoid, EmitVoidTx, AbortVoid
<1>4. CASE UNCHANGED outbox
  BY <1>2, <1>4, FactsStay
<1>5. CASE /\ void[v].pc = "emit_tx"
           /\ EmitTransactionStatus(void[v].tx, "cancelled", <<"void", void[v].tx>>)
  <2>1. void[v].tx \in Txs
    BY <1>1, <1>5 DEF VoidShape, Txs
  <2>2. PICK t \in Txs : t = void[v].tx
    BY <2>1
  <2> QED
    BY <1>1, <1>2, <1>5, <2>2, EmitsTx
<1>6. CASE EmitVoidIntent(v)
  <2>1. /\ void[v].pc = "emit_intent" /\ void[v].tx \in Txs /\ TxExists(void[v].tx)
        /\ EmitIntentStatus(txs[void[v].tx].intent, intents[txs[void[v].tx].intent].status,
                            <<"void", void[v].tx>>)
    BY <1>1, <1>6 DEF EmitVoidIntent, VoidShape, Txs
  <2>2. PICK i \in Intents : i = txs[void[v].tx].intent /\ intents[i].status # "absent"
    BY <1>1, <2>1 DEF TablesInv, RowsWellFormed
  <2>3. HoldsOf(i, intents[i].status)
    BY <1>1, <2>2, StatusHolds
  <2>4. PICK s : s = intents[i].status
    OBVIOUS
  <2> QED
    BY <1>1, <1>2, <2>1, <2>2, <2>3, <2>4, EmitsIntent
<1> QED
  BY <1>3, <1>4, <1>5, <1>6

(* A refund call announces what it credited, and the intent it has read.   *)
LEMMA AnnouncedByRefund ==
  ASSUME AnnouncedInv, Inv, Inv', Grows, Lawful, RefundNext, UNCHANGED <<confirm, webhookVars>>
  PROVE  AnnouncedInv'
<1>0. PICK r \in Refunds :
        \/ \E p \in Payments, a \in Amounts, k \in Keys \cup {None} : LoadSource(r, p, a, k)
        \/ FindRefund(r) \/ CheckRefundable(r) \/ InsertRefund(r)
        \/ RefundAtProvider(r) \/ RefundThrows(r)
        \/ ApplyRefund(r) \/ ApplyRefundRefused(r) \/ SettleRefund(r)
        \/ EmitRefundTx(r) \/ EmitRefundIntent(r) \/ AbortRefund(r)
  BY DEF RefundNext
<1>1. /\ TablesInv /\ TablesInv' /\ refund[r] \in RefundCall /\ RefundShape(r)
      /\ RefundTypeOK /\ RefundFact(r) /\ OutboxFact /\ TablesTypeOK /\ r \in Txs
  BY DEF Inv, RefundInv, RefundTypeOK, AnnouncedInv, TablesInv, Txs
<1>2. (\A h \in Hooks : HookFact(h)') /\ (\A c \in Confirms : ConfirmFact(c)')
  BY FactsStay DEF webhookVars, HookTx
<1>3. ASSUME NEW new, refund' = [refund EXCEPT ![r] = new], RefundFact(r)', OutboxFact'
      PROVE  AnnouncedInv'
  <2>1. \A q \in Refunds : q # r => refund'[q] = refund[q]
    BY <1>1, <1>3 DEF RefundTypeOK
  <2> QED
    BY <1>2, <1>3, <2>1, FactsStay DEF AnnouncedInv
<1>4. UNCHANGED outbox => OutboxFact'
  BY FactsStay
<1>5. ASSUME NEW new \in RefundCall, refund' = [refund EXCEPT ![r] = new], OutboxFact',
             new.src \in Payments, TxExists(new.src),
             HoldsOf(txs[new.src].intent, new.intentStatus),
             new.pc \in {"refund", "apply", "settle", "emit_tx", "emit_intent"} =>
                txs'[r].intent = txs[new.src].intent,
             new.pc = "emit_tx" /\ new.result = "succeeded" => r \in credited'
      PROVE  AnnouncedInv'
  <2>1. PICK i, s : i = txs[new.src].intent /\ s = new.intentStatus
    OBVIOUS
  <2>2. txs'[new.src].intent = i /\ HoldsOf(i, s)'
    BY <1>1, <1>5, <2>1, HoldsStays DEF Grows, Txs
  <2>3. refund'[r] = new
    BY <1>1, <1>5 DEF RefundTypeOK
  <2>4. RefundFact(r)'
    BY <1>5, <2>1, <2>2, <2>3 DEF RefundFact
  <2> QED
    BY <1>3, <1>5, <2>4
<1>6. ASSUME NEW step \in RefundSteps \cup RefundEnds, RefundTo(r, step), refund[r].pc # "idle",
             OutboxFact',
             step \in {"refund", "apply", "settle", "emit_tx", "emit_intent"} =>
                txs'[r].intent = txs[refund[r].src].intent,
             step = "emit_tx" /\ refund[r].result = "succeeded" => r \in credited'
      PROVE  AnnouncedInv'
  <2> DEFINE new == [refund[r] EXCEPT !.pc = step]
  <2>1. /\ new \in RefundCall /\ new.pc = step /\ new.src = refund[r].src
        /\ new.intentStatus = refund[r].intentStatus /\ new.result = refund[r].result
        /\ refund' = [refund EXCEPT ![r] = new]
    BY <1>1, <1>6 DEF RefundCall, RefundTo
  <2>2. /\ refund[r].src \in Payments /\ TxExists(refund[r].src)
        /\ HoldsOf(txs[refund[r].src].intent, refund[r].intentStatus)
    BY <1>1, <1>6 DEF RefundShape, RefundFact
  <2> HIDE DEF new
  <2> QED
    BY <1>5, <1>6, <2>1, <2>2
<1>7. ASSUME NEW p \in Payments, NEW a \in Amounts, NEW k \in Keys \cup {None},
             LoadSource(r, p, a, k)
      PROVE  AnnouncedInv'
  <2> DEFINE new == [refund[r] EXCEPT !.pc = IF k = None THEN "check" ELSE "find",
                                      !.src = p, !.amount = a, !.key = k,
                                      !.source = txs[p].status,
                                      !.intentStatus = intents[txs[p].intent].status]
  <2>1. /\ refund' = [refund EXCEPT ![r] = new] /\ UNCHANGED outbox /\ TxExists(p)
    BY <1>7 DEF LoadSource
  <2>2. PICK i \in Intents : i = txs[p].intent /\ intents[i].status # "absent"
    BY <1>1, <2>1 DEF TablesInv, RowsWellFormed, Txs
  <2>3. HoldsOf(i, intents[i].status)
    BY <1>1, <2>2, StatusHolds
  <2>4. /\ new.pc \in {"check", "find"} /\ new.src = p /\ new.intentStatus = intents[i].status
    BY <1>1, <2>2 DEF RefundCall
  <2>5. refund'[r] = new
    BY <1>1, <2>1 DEF RefundTypeOK
  <2> HIDE DEF new
  <2>6. PICK s : s = intents[i].status
    OBVIOUS
  <2>7. txs'[p].intent = i /\ HoldsOf(i, s)'
    BY <1>1, <2>1, <2>2, <2>3, <2>6, HoldsStays DEF Grows, Txs
  <2>8. RefundFact(r)'
    BY <2>4, <2>5, <2>6, <2>7 DEF RefundFact
  <2> QED
    BY <1>3, <1>4, <2>1, <2>8
<1>8. CASE FindRefund(r)
  <2>1. /\ refund[r].pc = "find" /\ UNCHANGED outbox
        /\ \E step \in {"check", "replayed", "conflict"} : RefundTo(r, step)
    BY <1>8 DEF FindRefund
  <2> QED
    BY <1>4, <1>6, <2>1 DEF RefundSteps, RefundEnds
<1>9. CASE CheckRefundable(r)
  <2>1. /\ refund[r].pc = "check" /\ UNCHANGED outbox
        /\ \E step \in {"insert", "rejected"} : RefundTo(r, step)
    BY <1>9 DEF CheckRefundable
  <2> QED
    BY <1>4, <1>6, <2>1 DEF RefundSteps, RefundEnds
<1>10. CASE InsertRefund(r)
  <2> DEFINE row == [status |-> "pending", amount |-> refund[r].amount,
                     intent |-> txs[refund[r].src].intent, parent |-> refund[r].src,
                     key |-> refund[r].key, routable |-> FALSE]
  <2>1. /\ refund[r].pc = "insert" /\ RefundTo(r, "refund") /\ UNCHANGED outbox
        /\ txs' = [txs EXCEPT ![r] = row]
    BY <1>10 DEF InsertRefund, InsertTx
  <2>2. txs'[r].intent = txs[refund[r].src].intent
    BY <1>1, <2>1 DEF TablesTypeOK
  <2> HIDE DEF row
  <2> QED
    BY <1>4, <1>6, <2>1, <2>2 DEF RefundSteps
<1>11. CASE RefundAtProvider(r)
  <2>1. PICK answer \in RefundAnswers :
          /\ refund[r].pc = "refund" /\ UNCHANGED <<tables, outbox>>
          /\ refund' = [refund EXCEPT ![r] =
               [refund[r] EXCEPT !.result = answer,
                                 !.pc = IF answer = "succeeded" THEN "apply" ELSE "settle"]]
    BY <1>11 DEF RefundAtProvider
  <2> DEFINE new == [refund[r] EXCEPT !.result = answer,
                                      !.pc = IF answer = "succeeded" THEN "apply" ELSE "settle"]
  <2>2. /\ new \in RefundCall /\ new.pc \in {"apply", "settle"} /\ new.src = refund[r].src
        /\ new.intentStatus = refund[r].intentStatus
    <3>1. answer \in {"none", "succeeded", "failed", "pending"}
      BY DEF RefundAnswers, FakeGatewayRefund, ManualRefund
    <3>2. refund[r] \in RefundCall
      BY <1>1
    <3>3. "apply" \in RefundSteps /\ "settle" \in RefundSteps
      BY DEF RefundSteps
    <3>4. [refund[r] EXCEPT !.result = answer, !.pc = "apply"] \in RefundCall
      BY <3>1, <3>2, <3>3 DEF RefundCall
    <3>5. [refund[r] EXCEPT !.result = answer, !.pc = "settle"] \in RefundCall
      BY <3>1, <3>2, <3>3 DEF RefundCall
    <3>6. new \in RefundCall
      BY <3>4, <3>5
    <3> QED
      BY <3>2, <3>6 DEF RefundCall
  <2>3. /\ refund[r].src \in Payments /\ TxExists(refund[r].src)
        /\ HoldsOf(txs[refund[r].src].intent, refund[r].intentStatus)
        /\ txs'[r].intent = txs[refund[r].src].intent
    BY <1>1, <2>1 DEF RefundShape, RefundFact, tables
  <2>4. refund' = [refund EXCEPT ![r] = new]
    BY <2>1
  <2> HIDE DEF new
  <2> QED
    BY <1>4, <1>5, <2>1, <2>2, <2>3, <2>4
<1>12. CASE RefundThrows(r)
  BY <1>4, <1>6, <1>12 DEF RefundThrows, RefundEnds
<1>13. CASE ApplyRefund(r)
  <2> DEFINE new == [refund[r] EXCEPT !.pc = "emit_tx",
                                      !.intentStatus = intents'[txs[r].intent].status]
  <2>1. /\ refund[r].pc = "apply" /\ CreditRefund(r) /\ UNCHANGED outbox
        /\ refund' = [refund EXCEPT ![r] = new]
    BY <1>13 DEF ApplyRefund
  <2>2. PICK p \in Payments : p = refund[r].src /\ TxExists(p) /\ p \in Txs
    BY <1>1, <2>1 DEF RefundShape, Txs
  <2>3. PICK i \in Intents : /\ i = txs[p].intent /\ txs'[p].intent = i /\ txs[r].intent = i
                            /\ txs'[r].intent = i /\ intents'[i].status # "absent"
    BY <1>1, <2>1, <2>2 DEF Grows, TablesInv, RowsWellFormed, RefundFact, RefundShape
  <2>4. HoldsOf(i, intents[i].status)'
    BY <1>1, <2>3, StatusHolds
  <2>5. /\ refund'[r].src = p /\ refund'[r].intentStatus = intents'[i].status
        /\ refund'[r].pc = "emit_tx" /\ r \in credited'
    BY <1>1, <2>1, <2>2, <2>3 DEF RefundTypeOK, RefundCall, CreditRefund
  <2>6. RefundFact(r)'
    BY <2>3, <2>4, <2>5 DEF RefundFact
  <2> HIDE DEF new
  <2> QED
    BY <1>3, <1>4, <2>1, <2>6
<1>14. CASE ApplyRefundRefused(r)
  BY <1>4, <1>6, <1>14 DEF ApplyRefundRefused, RefundEnds
<1>15. CASE SettleRefund(r)
  <2>1. /\ refund[r].pc = "settle" /\ UNCHANGED outbox /\ refund[r].result # "succeeded"
        /\ \E step \in {"provider_failed", "emit_tx"} : RefundTo(r, step)
    BY <1>1, <1>15 DEF SettleRefund, RefundShape
  <2>2. txs'[r].intent = txs[refund[r].src].intent
    BY <1>1, <2>1 DEF RefundShape, RefundFact, Grows
  <2> QED
    BY <1>4, <1>6, <2>1, <2>2 DEF RefundSteps, RefundEnds
<1>16. CASE EmitRefundTx(r)
  <2>1. /\ refund[r].pc = "emit_tx" /\ RefundTo(r, "emit_intent") /\ UNCHANGED tables
        /\ EmitTransactionStatus(r, refund[r].result, <<"refund", r>>)
    BY <1>16 DEF EmitRefundTx
  <2>2. refund[r].result = "succeeded" => r \in credited
    BY <1>1, <2>1 DEF RefundFact
  <2>3. PICK s : s = refund[r].result
    OBVIOUS
  <2>4. OutboxFact'
    BY <1>1, <2>1, <2>2, <2>3, EmitsTx
  <2>5. txs'[r].intent = txs[refund[r].src].intent
    BY <1>1, <2>1 DEF RefundFact, tables
  <2> QED
    BY <1>6, <2>1, <2>4, <2>5 DEF RefundSteps
<1>17. CASE EmitRefundIntent(r)
  <2>1. /\ refund[r].pc = "emit_intent" /\ RefundTo(r, "done") /\ UNCHANGED tables
        /\ EmitIntentStatus(txs[r].intent, refund[r].intentStatus, <<"refund", r>>)
    BY <1>17 DEF EmitRefundIntent
  <2>2. PICK i, s : i = txs[r].intent /\ s = refund[r].intentStatus
    OBVIOUS
  <2>3. HoldsOf(i, s)
    BY <1>1, <2>1, <2>2 DEF RefundFact
  <2>4. OutboxFact'
    BY <1>1, <2>1, <2>2, <2>3, EmitsIntent
  <2> QED
    BY <1>6, <2>1, <2>4 DEF RefundEnds
<1>18. CASE AbortRefund(r)
  BY <1>4, <1>6, <1>18 DEF AbortRefund, RefundSteps, RefundEnds
<1> QED
  BY <1>0, <1>7, <1>8, <1>9, <1>10, <1>11, <1>12, <1>13, <1>14, <1>15, <1>16, <1>17, <1>18

(* A webhook call announces what it applied, or read as succeeded.         *)
LEMMA AnnouncedByWebhook ==
  ASSUME AnnouncedInv, Inv, Inv', Grows, Lawful, WebhookNext, UNCHANGED <<confirm, refund>>
  PROVE  AnnouncedInv'
<1>0. PICK h \in Hooks :
        \/ \E e \in Events, outcome \in Outcomes :
             \/ \E p \in Payments : ReceiveEvent(h, e, p, outcome)
             \/ ReceiveAgain(h, e, outcome)
        \/ ClaimEvent(h) \/ ResolveEvent(h) \/ FailUnknown(h)
        \/ ApplySuccess(h) \/ ApplySuccessThrows(h) \/ SkipEvent(h) \/ ApplyClosure(h)
        \/ MarkProcessed(h) \/ EmitHookTx(h) \/ EmitHookIntent(h)
        \/ StatementThrows(h) \/ FailEvent(h) \/ AbortHook(h)
  BY DEF WebhookNext
<1>1. /\ TablesInv /\ TablesInv' /\ TablesTypeOK /\ OutboxFact /\ WebhookInv /\ WebhookTypeOK
      /\ hook[h] \in HookCall /\ HookShape(h) /\ HookFact(h)
      /\ \A e \in Events : EventShape(e)
      /\ credited \subseteq credited'
  BY CreditsStay DEF Inv, WebhookInv, WebhookTypeOK, AnnouncedInv, TablesInv
<1>2. (\A c \in Confirms : ConfirmFact(c)') /\ (\A r \in Refunds : RefundFact(r)')
  BY FactsStay
<1>3. UNCHANGED outbox => OutboxFact'
  BY FactsStay
<1>4. ASSUME OutboxFact', HookFact(h)', \A g \in Hooks : g # h => hook'[g] = hook[g],
             \A e \in Events : inbox[e].status # "absent" => inbox'[e].tx = inbox[e].tx
      PROVE  AnnouncedInv'
  <2>1. ASSUME NEW g \in Hooks, g # h PROVE HookFact(g)'
    <3>1. hook'[g] = hook[g] /\ (hook[g].pc # "idle" => HookTx(g)' = HookTx(g))
      BY <1>1, <1>4, <2>1 DEF WebhookInv, HookShape, HookTx
    <3> QED
      BY <2>1, <3>1, FactsStay
  <2> QED
    BY <1>2, <1>4, <2>1 DEF AnnouncedInv
<1>5. ASSUME hook[h].pc # "idle", NEW new, hook' = [hook EXCEPT ![h] = new], OutboxFact',
             new.pc # "idle" => new.ev = hook[h].ev,
             UNCHANGED inbox \/ \E status : SetEventStatus(hook[h].ev, status),
             new.pc # "idle" /\ new.seen = "succeeded" =>
                hook[h].seen = "succeeded" \/ HookTx(h) \in credited'
      PROVE  AnnouncedInv'
  <2>1. hook'[h] = new /\ \A g \in Hooks : g # h => hook'[g] = hook[g]
    BY <1>1, <1>5 DEF WebhookTypeOK
  <2>2. \A e \in Events : inbox'[e].tx = inbox[e].tx
    <3>1. CASE UNCHANGED inbox
      BY <3>1
    <3>2. CASE \E status : SetEventStatus(hook[h].ev, status)
      <4>1. PICK status : inbox' = [inbox EXCEPT ![hook[h].ev].status = status]
        BY <3>2 DEF SetEventStatus
      <4>2. ASSUME NEW e \in Events PROVE inbox'[e].tx = inbox[e].tx
        BY <1>1, <4>1 DEF WebhookTypeOK, EventRow
      <4> QED
        BY <4>2
    <3> QED
      BY <1>5, <3>1, <3>2
  <2>3. hook[h].ev \in Events
    BY <1>1, <1>5 DEF HookShape
  <2>4. HookFact(h)'
    BY <1>1, <1>5, <2>1, <2>2, <2>3 DEF HookFact, HookTx
  <2> QED
    BY <1>4, <1>5, <2>1, <2>2, <2>4
<1>6. ASSUME NEW step, HookTo(h, step), hook[h].pc # "idle", OutboxFact',
             UNCHANGED inbox \/ \E status : SetEventStatus(hook[h].ev, status)
      PROVE  AnnouncedInv'
  <2> DEFINE new == [hook[h] EXCEPT !.pc = step]
  <2>1. new.ev = hook[h].ev /\ new.seen = hook[h].seen /\ hook' = [hook EXCEPT ![h] = new]
    BY <1>1, <1>6 DEF HookCall, HookTo
  <2> HIDE DEF new
  <2> QED
    BY <1>5, <1>6, <2>1
<1>7. ASSUME HookReturns(h), hook[h].pc # "idle", OutboxFact',
             UNCHANGED inbox \/ \E status : SetEventStatus(hook[h].ev, status)
      PROVE  AnnouncedInv'
  <2>1. HookIdle.pc = "idle"
    BY DEF HookIdle
  <2> QED
    BY <1>5, <1>7, <2>1 DEF HookReturns
<1>8. ASSUME NEW seen, NEW pc, hook[h].pc # "idle", UNCHANGED <<inbox, outbox>>,
             hook' = [hook EXCEPT ![h] = [hook[h] EXCEPT !.pc = pc, !.seen = seen]],
             seen = "succeeded" => HookTx(h) \in credited'
      PROVE  AnnouncedInv'
  <2> DEFINE new == [hook[h] EXCEPT !.pc = pc, !.seen = seen]
  <2>1. new.ev = hook[h].ev /\ new.seen = seen
    BY <1>1 DEF HookCall
  <2>2. hook' = [hook EXCEPT ![h] = new]
    BY <1>8
  <2> HIDE DEF new
  <2> QED
    BY <1>3, <1>5, <1>8, <2>1, <2>2
<1>9. ASSUME NEW e \in Events, NEW outcome \in Outcomes, StartHook(h, e, outcome),
             UNCHANGED outbox,
             \A d \in Events : inbox[d].status # "absent" => inbox'[d] = inbox[d]
      PROVE  AnnouncedInv'
  <2>1. hook'[h].seen = "none" /\ \A g \in Hooks : g # h => hook'[g] = hook[g]
    BY <1>1, <1>9 DEF StartHook, WebhookTypeOK
  <2>2. HookFact(h)'
    BY <2>1 DEF HookFact
  <2> QED
    BY <1>3, <1>4, <1>9, <2>1, <2>2
<1>10. ASSUME NEW e \in Events, NEW outcome \in Outcomes, NEW p \in Payments,
              ReceiveEvent(h, e, p, outcome)
       PROVE  AnnouncedInv'
  BY <1>1, <1>9, <1>10 DEF ReceiveEvent, WebhookTypeOK
<1>11. ASSUME NEW e \in Events, NEW outcome \in Outcomes, ReceiveAgain(h, e, outcome)
       PROVE  AnnouncedInv'
  BY <1>9, <1>11 DEF ReceiveAgain
<1>12. CASE ClaimEvent(h)
  BY <1>3, <1>6, <1>7, <1>12 DEF ClaimEvent
<1>13. CASE ResolveEvent(h)
  <2>1. hook[h].pc = "resolve" /\ UNCHANGED <<tables, inbox, outbox>>
    BY <1>13 DEF ResolveEvent
  <2>2. CASE TxExists(HookTx(h)) /\ txs[HookTx(h)].routable
    <3>1. HookTx(h) \in Txs
      BY <1>1, <2>1 DEF HookShape, EventShape, HookTx, Txs
    <3>2. txs[HookTx(h)].status = "succeeded" => HookTx(h) \in credited'
      BY <1>1, <3>1 DEF TablesInv, CreditedExactly
    <3>3. hook' = [hook EXCEPT ![h] = [hook[h] EXCEPT !.pc = "apply",
                                                      !.seen = txs[HookTx(h)].status]]
      BY <1>13, <2>2 DEF ResolveEvent
    <3> QED
      BY <1>8, <2>1, <3>2, <3>3
  <2>3. CASE ~(TxExists(HookTx(h)) /\ txs[HookTx(h)].routable)
    BY <1>3, <1>6, <1>13, <2>1, <2>3 DEF ResolveEvent
  <2> QED
    BY <2>2, <2>3
<1>14. CASE FailUnknown(h)
  BY <1>3, <1>7, <1>14 DEF FailUnknown
<1>15. CASE ApplySuccess(h)
  <2>1. /\ hook[h].pc = "apply" /\ UNCHANGED <<inbox, outbox>>
        /\ hook' = [hook EXCEPT ![h] = [hook[h] EXCEPT !.pc = "mark", !.seen = "succeeded"]]
        /\ CreditPayment(HookTx(h)) \/ PaymentOutcome(HookTx(h)) = "already"
    BY <1>15 DEF ApplySuccess
  <2>2. HookTx(h) \in credited'
    <3>1. HookTx(h) \in Txs
      BY <1>1, <2>1 DEF HookShape, EventShape, HookTx, Txs
    <3>2. CASE CreditPayment(HookTx(h))
      BY <3>2 DEF CreditPayment
    <3>3. CASE PaymentOutcome(HookTx(h)) = "already"
      BY <1>1, <3>1, <3>3 DEF PaymentOutcome, TablesInv, CreditedExactly
    <3> QED
      BY <2>1, <3>2, <3>3
  <2> QED
    BY <1>8, <2>1, <2>2
<1>16. CASE ApplySuccessThrows(h)
  BY <1>3, <1>6, <1>16 DEF ApplySuccessThrows
<1>17. CASE SkipEvent(h)
  <2>1. /\ hook[h].pc = "apply" /\ UNCHANGED <<inbox, outbox>>
        /\ HookTo(h, "mark") \/ HookTo(h, "mark_only")
    BY <1>17 DEF SkipEvent
  <2> QED
    BY <1>3, <1>6, <2>1
<1>18. CASE ApplyClosure(h)
  <2>1. /\ hook[h].pc = "apply" /\ UNCHANGED <<inbox, outbox>>
        /\ hook[h].outcome \in {"failed", "cancelled", "expired"}
        /\ hook' = [hook EXCEPT ![h] = [hook[h] EXCEPT !.pc = "mark", !.seen = hook[h].outcome]]
    BY <1>18 DEF ApplyClosure
  <2> QED
    BY <1>8, <2>1
<1>19. CASE MarkProcessed(h)
  BY <1>3, <1>6, <1>7, <1>19 DEF MarkProcessed
<1>20. CASE EmitHookTx(h)
  <2>1. /\ hook[h].pc = "emit_tx" /\ HookTo(h, "emit_intent") /\ UNCHANGED inbox
        /\ EmitTransactionStatus(HookTx(h), hook[h].seen, <<"provider", hook[h].ev>>)
    BY <1>20 DEF EmitHookTx
  <2>2. PICK t \in Txs : t = HookTx(h)
    BY <1>1, <2>1 DEF HookShape, EventShape, HookTx, Txs
  <2>3. PICK s, cause : s = hook[h].seen /\ cause = <<"provider", hook[h].ev>>
    OBVIOUS
  <2>4. s = "succeeded" => t \in credited
    BY <1>1, <2>1, <2>2, <2>3 DEF HookFact
  <2>5. OutboxFact'
    BY <1>1, <2>1, <2>2, <2>3, <2>4, EmitsTx
  <2> QED
    BY <1>6, <2>1, <2>5
<1>21. CASE EmitHookIntent(h)
  <2>1. /\ hook[h].pc = "emit_intent" /\ HookReturns(h) /\ UNCHANGED inbox
        /\ EmitIntentStatus(txs[HookTx(h)].intent, intents[txs[HookTx(h)].intent].status,
                            <<"provider", hook[h].ev>>)
    BY <1>21 DEF EmitHookIntent
  <2>2. HookTx(h) \in Txs /\ TxExists(HookTx(h))
    BY <1>1, <2>1 DEF HookShape, EventShape, HookTx, Txs, Resolved
  <2>3. PICK i \in Intents : i = txs[HookTx(h)].intent /\ intents[i].status # "absent"
    BY <1>1, <2>2 DEF TablesInv, RowsWellFormed
  <2>4. PICK s, cause : s = intents[i].status /\ cause = <<"provider", hook[h].ev>>
    OBVIOUS
  <2>5. HoldsOf(i, s)
    BY <1>1, <2>3, <2>4, StatusHolds
  <2>6. OutboxFact'
    BY <1>1, <2>1, <2>3, <2>4, <2>5, EmitsIntent
  <2> QED
    BY <1>7, <2>1, <2>6
<1>22. CASE StatementThrows(h)
  BY <1>3, <1>6, <1>22 DEF StatementThrows
<1>23. CASE FailEvent(h)
  BY <1>3, <1>7, <1>23 DEF FailEvent
<1>24. CASE AbortHook(h)
  BY <1>3, <1>7, <1>24 DEF AbortHook
<1> QED
  BY <1>0, <1>10, <1>11, <1>12, <1>13, <1>14, <1>15, <1>16, <1>17, <1>18, <1>19, <1>20, <1>21,
     <1>22, <1>23, <1>24

(* The merchant is never told of a success, a payment or a refund that the *)
(* totals do not contain, though everything is announced after the commit  *)
(* and by calls that read before others wrote.                             *)
THEOREM AnnouncementsAreTrue == OnlyPaymentsConfirmed /\ Spec => []AnnouncedIsTrue
<1>1. Init => AnnouncedInv
  BY DEF Init, OutboxInit, ConfirmInit, ConfirmIdle, WebhookInit, HookIdle, RefundInit,
     AnnouncedInv, OutboxFact, ConfirmFact, HookFact, RefundFact
<1>2. Inv /\ AnnouncedInv /\ [Next]_vars => AnnouncedInv'
  <2> SUFFICES ASSUME Inv, AnnouncedInv, [Next]_vars PROVE AnnouncedInv'
    OBVIOUS
  <2>1. Inv' /\ Grows /\ Lawful
    BY InvNext
  <2>2. CASE UNCHANGED <<outbox, confirm, webhookVars, refund>>
    BY <2>1, <2>2, FactsStay DEF webhookVars, HookTx, AnnouncedInv
  <2>3. CASE ConfirmNext /\ UNCHANGED <<webhookVars, refund>>
    BY <2>1, <2>3, AnnouncedByConfirm
  <2>4. CASE WebhookNext /\ UNCHANGED <<confirm, refund>>
    BY <2>1, <2>4, AnnouncedByWebhook
  <2>5. CASE RefundNext /\ UNCHANGED <<confirm, webhookVars>>
    BY <2>1, <2>5, AnnouncedByRefund
  <2>6. CASE VoidNext /\ UNCHANGED <<confirm, webhookVars, refund>>
    BY <2>1, <2>6, AnnouncedByVoid
  <2> QED
    BY <2>2, <2>3, <2>4, <2>5, <2>6 DEF Next, vars
<1>3. AnnouncedInv => AnnouncedIsTrue
  BY DEF AnnouncedInv, OutboxFact, HoldsOf, AnnouncedIsTrue
<1> QED
  BY <1>1, <1>2, <1>3, InvHolds, PTL DEF Spec
-----------------------------------------------------------------------------
(***************************************************************************)
(* Refunds that are booked are money given back.                           *)
(***************************************************************************)

(* The refunds of payment p whose money has moved: booked, or about to be. *)
Owing(p) ==
    {r \in Refunds : txs[r].parent = p /\ (r \in credited \/ refund[r].pc = "apply")}

(* A refund that waits for the provider, or has its answer, is the row it  *)
(* has inserted.                                                           *)
RowIsCalls(r) ==
    refund[r].pc \in {"refund", "apply"} =>
       txs[r].amount = refund[r].amount /\ txs[r].parent = refund[r].src

BookedInv ==
    /\ \A r \in Refunds : RowIsCalls(r)
    /\ \A p \in Payments : SumOf(txs, Owing(p)) <= returned[p]

ParentsStay == \A r \in Refunds : TxExists(r) => txs'[r].parent = txs[r].parent

(* They exist and can be added up, and no step changes their amounts.      *)
LEMMA OwingCount ==
  ASSUME Inv, NEW p \in Payments
  PROVE  /\ \A r \in Owing(p) : r \in Txs /\ TxExists(r)
         /\ Counted(txs, Owing(p))
         /\ SumOf(txs, Owing(p)) \in Nat /\ returned[p] \in Nat
<1>1. \A r \in Owing(p) : r \in Txs /\ TxExists(r)
  BY DEF Owing, Inv, TablesInv, CreditedExist, RefundInv, RefundShape, Txs
<1>2. IsFiniteSet(Owing(p))
  BY TablesAssumption, FS_Subset DEF Owing
<1>3. \A r \in Owing(p) : txs[r].amount \in Nat
  BY <1>1, TablesAssumption DEF Inv, TablesInv, RowsWellFormed
<1>4. Counted(txs, Owing(p))
  BY <1>2, <1>3 DEF Counted
<1>5. returned[p] \in Nat
  BY DEF Inv, ProviderTypeOK
<1> QED
  BY <1>1, <1>4, <1>5, SumIsNat

(* A step after which no refund owes that did not owe before.              *)
LEMMA BookedStays ==
  ASSUME BookedInv, Inv, Grows,
         \A r \in Refunds : RowIsCalls(r)',
         \A p \in Payments : Owing(p)' \subseteq Owing(p),
         \A p \in Payments : returned'[p] \in Nat /\ returned[p] <= returned'[p]
  PROVE  BookedInv'
<1> SUFFICES ASSUME NEW p \in Payments
             PROVE  SumOf(txs', Owing(p)') <= returned'[p]
  BY DEF BookedInv
<1> DEFINE old == Owing(p)
           new == Owing(p)'
<1>1. /\ Counted(txs, old) /\ SumOf(txs, old) \in Nat /\ returned[p] \in Nat
      /\ \A r \in old : r \in Txs /\ TxExists(r)
  BY OwingCount
<1>2. new \in SUBSET old /\ SumOf(txs, old) <= returned[p]
  BY DEF BookedInv
<1>3. \A r \in old : txs'[r].amount = txs[r].amount
  BY <1>1 DEF Grows
<1> HIDE DEF old, new
<1>4. Counted(txs', old) /\ SumOf(txs', old) = SumOf(txs, old)
  BY <1>1, <1>3, SumSame
<1>5. SumOf(txs', new) <= SumOf(txs', old) /\ SumOf(txs', new) \in Nat
  BY <1>2, <1>4, SumGrows, SumIsNat
<1>6. returned'[p] \in Nat /\ returned[p] <= returned'[p]
  OBVIOUS
<1> QED
  BY <1>1, <1>2, <1>4, <1>5, <1>6 DEF new

(* A step of another use case.                                             *)
LEMMA BookedByOthers ==
  ASSUME BookedInv, Inv, Inv', Grows, NoRefund, ParentsStay, UNCHANGED <<refund, returned>>
  PROVE  BookedInv'
<1>1. ASSUME NEW r \in Refunds PROVE RowIsCalls(r)'
  <2>1. refund[r].pc \in {"refund", "apply"} => TxExists(r)
    BY DEF Inv, RefundInv, RefundShape
  <2> QED
    BY <2>1 DEF BookedInv, RowIsCalls, ParentsStay, Grows, Txs
<1>2. ASSUME NEW p \in Payments, NEW r \in Owing(p)' PROVE r \in Owing(p)
  <2>1. r \in Refunds /\ txs'[r].parent = p /\ (r \in credited \/ refund[r].pc = "apply")
    BY <1>2 DEF Owing, NoRefund
  <2>2. TxExists(r)
    BY <2>1 DEF Inv, TablesInv, CreditedExist, RefundInv, RefundShape
  <2> QED
    BY <2>1, <2>2 DEF ParentsStay, Owing
<1>3. \A p \in Payments : returned'[p] \in Nat /\ returned[p] <= returned'[p]
  BY DEF Inv, ProviderTypeOK
<1> QED
  BY <1>1, <1>2, <1>3, BookedStays

(* A step of refund r that moves no money, or more than it books.          *)
LEMMA BookedByCall ==
  ASSUME BookedInv, Inv, Grows, ParentsStay, NEW r \in Refunds,
         \A q \in Refunds : q # r => refund'[q] = refund[q],
         credited' \cap Refunds \subseteq credited \cup {r},
         r \in credited' \/ refund'[r].pc = "apply" =>
            r \in credited \/ refund[r].pc = "apply",
         RowIsCalls(r)',
         \A p \in Payments : returned'[p] \in Nat /\ returned[p] <= returned'[p]
  PROVE  BookedInv'
<1>1. ASSUME NEW q \in Refunds PROVE RowIsCalls(q)'
  <2>1. refund[q].pc \in {"refund", "apply"} => TxExists(q)
    BY DEF Inv, RefundInv, RefundShape
  <2>2. CASE q # r
    BY <2>1, <2>2 DEF BookedInv, RowIsCalls, ParentsStay, Grows, Txs
  <2> QED
    BY <2>2
<1>2. ASSUME NEW p \in Payments, NEW q \in Owing(p)' PROVE q \in Owing(p)
  <2>1. q \in Refunds /\ txs'[q].parent = p /\ (q \in credited' \/ refund'[q].pc = "apply")
    BY <1>2 DEF Owing
  <2>2. q \in credited \/ refund[q].pc = "apply"
    BY <2>1
  <2>3. TxExists(q)
    BY <2>1, <2>2 DEF Inv, TablesInv, CreditedExist, RefundInv, RefundShape
  <2> QED
    BY <2>1, <2>2, <2>3 DEF ParentsStay, Owing
<1> QED
  BY <1>1, <1>2, BookedStays

(* The provider gives money back and says so: the refund owes from now on. *)
LEMMA BookedAnswer ==
  ASSUME BookedInv, Inv, NEW r \in Refunds, UNCHANGED <<txs, credited>>,
         refund[r].pc = "refund", refund'[r].pc = "apply",
         refund'[r].amount = refund[r].amount, refund'[r].src = refund[r].src,
         \A q \in Refunds : q # r => refund'[q] = refund[q],
         returned' = [returned EXCEPT ![refund[r].src] = @ + refund[r].amount]
  PROVE  BookedInv'
<1> DEFINE src == refund[r].src
           a == refund[r].amount
<1>1. /\ src \in Payments /\ r \notin credited /\ TxExists(r) /\ r \in Txs
      /\ txs[r].amount = a /\ txs[r].parent = src /\ a \in Nat
  BY TablesAssumption DEF Inv, RefundInv, RefundShape, Credited, BookedInv, RowIsCalls, Txs
<1>2. \A q \in Refunds : RowIsCalls(q)'
  BY <1>1 DEF BookedInv, RowIsCalls
<1>3. ASSUME NEW p \in Payments PROVE SumOf(txs', Owing(p)') <= returned'[p]
  <2> DEFINE old == Owing(p)
  <2>1. /\ Counted(txs, old) /\ SumOf(txs, old) \in Nat /\ returned[p] \in Nat
        /\ SumOf(txs, old) <= returned[p]
    BY OwingCount DEF BookedInv
  <2>2. r \notin old
    BY <1>1 DEF Owing
  <2>3. CASE p = src
    <3>1. Owing(p)' = old \cup {r}
      BY <1>1, <2>3 DEF Owing
    <3> HIDE DEF old
    <3>2. Counted(txs, old \cup {r})
      <4>1. IsFiniteSet(old \cup {r})
        BY <2>1, FS_AddElement DEF Counted
      <4>2. \A t \in old \cup {r} : txs[t].amount \in Nat
        BY <1>1, <2>1 DEF Counted
      <4> QED
        BY <4>1, <4>2 DEF Counted
    <3>3. SumOf(txs, old \cup {r}) = SumOf(txs, old) + a
      <4>1. SumOf(txs, old \cup {r}) = SumOf(txs, old) + txs[r].amount
        BY <2>2, <3>2, SumAdd
      <4> QED
        BY <1>1, <4>1
    <3>4. returned'[p] = returned[p] + a
      BY <1>1, <2>3 DEF Inv, ProviderTypeOK
    <3> QED
      BY <1>1, <2>1, <3>1, <3>3, <3>4
  <2>4. CASE p # src
    <3>1. Owing(p)' = old
      BY <1>1, <2>4 DEF Owing
    <3>2. returned'[p] = returned[p]
      BY <1>1, <2>4 DEF Inv, ProviderTypeOK
    <3> HIDE DEF old
    <3> QED
      BY <2>1, <3>1, <3>2
  <2> QED
    BY <2>3, <2>4
<1> QED
  BY <1>2, <1>3 DEF BookedInv

(* Every step of a refund books only what the provider has given back.     *)
LEMMA BookedByRefund ==
  ASSUME BookedInv, Inv, Grows, RefundNext
  PROVE  BookedInv'
<1>0. PICK r \in Refunds :
        \/ \E p \in Payments, a \in Amounts, k \in Keys \cup {None} : LoadSource(r, p, a, k)
        \/ FindRefund(r) \/ CheckRefundable(r) \/ InsertRefund(r)
        \/ RefundAtProvider(r) \/ RefundThrows(r)
        \/ ApplyRefund(r) \/ ApplyRefundRefused(r) \/ SettleRefund(r)
        \/ EmitRefundTx(r) \/ EmitRefundIntent(r) \/ AbortRefund(r)
  BY DEF RefundNext
<1>1. /\ refund[r] \in RefundCall /\ RefundTypeOK /\ RefundShape(r) /\ TablesTypeOK
      /\ r \in Txs /\ ProviderTypeOK /\ RowIsCalls(r)
      /\ returned \in [Payments -> Nat]
  BY DEF Inv, RefundInv, RefundTypeOK, TablesInv, Txs, BookedInv, ProviderTypeOK
<1>2. UNCHANGED returned => \A p \in Payments : returned'[p] \in Nat /\ returned[p] <= returned'[p]
  BY <1>1
<1>3. ASSUME NEW new, refund' = [refund EXCEPT ![r] = new]
      PROVE  refund'[r] = new /\ \A q \in Refunds : q # r => refund'[q] = refund[q]
  BY <1>1, <1>3 DEF RefundTypeOK
<1>4. UNCHANGED txs => ParentsStay
  BY DEF ParentsStay
(* The call goes on, neither to "refund" nor to "apply".                   *)
<1>5. ASSUME NEW new, refund' = [refund EXCEPT ![r] = new], new.pc \notin {"refund", "apply"},
             ParentsStay, credited' \cap Refunds = credited \cap Refunds,
             \A p \in Payments : returned'[p] \in Nat /\ returned[p] <= returned'[p]
      PROVE  BookedInv'
  <2>1. refund'[r] = new /\ \A q \in Refunds : q # r => refund'[q] = refund[q]
    BY <1>3, <1>5
  <2>2. RowIsCalls(r)'
    BY <1>5, <2>1 DEF RowIsCalls
  <2> QED
    BY <1>5, <2>1, <2>2, BookedByCall
<1>6. ASSUME NEW step, step \notin {"refund", "apply"}, RefundTo(r, step), UNCHANGED <<txs, credited>>,
             \A p \in Payments : returned'[p] \in Nat /\ returned[p] <= returned'[p]
      PROVE  BookedInv'
  <2> DEFINE new == [refund[r] EXCEPT !.pc = step]
  <2>1. new.pc = step /\ refund' = [refund EXCEPT ![r] = new]
    BY <1>1, <1>6 DEF RefundTo, RefundCall
  <2> HIDE DEF new
  <2> QED
    BY <1>4, <1>5, <1>6, <2>1
<1>7. ASSUME NEW p \in Payments, NEW a \in Amounts, NEW k \in Keys \cup {None},
             LoadSource(r, p, a, k)
      PROVE  BookedInv'
  <2> DEFINE pc == IF k = None THEN "check" ELSE "find"
             new == [refund[r] EXCEPT !.pc = pc, !.src = p, !.amount = a, !.key = k,
                                      !.source = txs[p].status,
                                      !.intentStatus = intents[txs[p].intent].status]
  <2>1. refund' = [refund EXCEPT ![r] = new] /\ UNCHANGED <<txs, credited, returned>>
    BY <1>7 DEF LoadSource, tables, provider
  <2>2. new.pc \in {"check", "find"}
    BY <1>1 DEF RefundCall
  <2> HIDE DEF new
  <2> QED
    BY <1>2, <1>4, <1>5, <2>1, <2>2
<1>8. CASE FindRefund(r) \/ CheckRefundable(r) \/ ApplyRefundRefused(r) \/ EmitRefundTx(r)
           \/ EmitRefundIntent(r) \/ AbortRefund(r)
  <2>1. PICK step \in {"check", "replayed", "conflict", "insert", "rejected", "error",
                       "emit_intent", "done"} : RefundTo(r, step)
    BY <1>8 DEF FindRefund, CheckRefundable, ApplyRefundRefused, EmitRefundTx,
                EmitRefundIntent, AbortRefund
  <2>2. UNCHANGED <<txs, credited, returned>>
    BY <1>8 DEF FindRefund, CheckRefundable, ApplyRefundRefused, EmitRefundTx,
                EmitRefundIntent, AbortRefund, tables, provider
  <2> QED
    BY <1>2, <1>6, <2>1, <2>2
<1>9. CASE InsertRefund(r)
  <2> DEFINE row == [status |-> "pending", amount |-> refund[r].amount,
                     intent |-> txs[refund[r].src].intent, parent |-> refund[r].src,
                     key |-> refund[r].key, routable |-> FALSE]
             new == [refund[r] EXCEPT !.pc = "refund"]
  <2>1. /\ ~TxExists(r) /\ txs' = [txs EXCEPT ![r] = row] /\ refund[r].pc = "insert"
        /\ refund' = [refund EXCEPT ![r] = new] /\ UNCHANGED <<credited, returned>>
    BY <1>9 DEF InsertRefund, InsertTx, RefundTo, provider
  <2>2. txs'[r].amount = refund[r].amount /\ txs'[r].parent = refund[r].src
    BY <1>1, <2>1 DEF TablesTypeOK
  <2>3. new.pc = "refund" /\ new.amount = refund[r].amount /\ new.src = refund[r].src
    BY <1>1 DEF RefundCall
  <2>4. ParentsStay
    BY <1>1, <2>1 DEF ParentsStay, TablesTypeOK, Txs
  <2> HIDE DEF row, new
  <2>5. refund'[r] = new /\ \A q \in Refunds : q # r => refund'[q] = refund[q]
    BY <1>3, <2>1
  <2>6. RowIsCalls(r)'
    BY <2>2, <2>3, <2>5 DEF RowIsCalls
  <2> QED
    BY <1>2, <2>1, <2>3, <2>4, <2>5, <2>6, BookedByCall
<1>10. CASE RefundAtProvider(r)
  <2>1. PICK answer \in RefundAnswers :
          /\ refund[r].pc = "refund"
          /\ returned' = IF answer = "succeeded"
                         THEN [returned EXCEPT ![refund[r].src] = @ + refund[r].amount]
                         ELSE returned
          /\ refund' = [refund EXCEPT ![r] =
               [refund[r] EXCEPT !.result = answer,
                                 !.pc = IF answer = "succeeded" THEN "apply" ELSE "settle"]]
          /\ UNCHANGED <<tables, charge, outbox>>
    BY <1>10 DEF RefundAtProvider
  <2> DEFINE pc == IF answer = "succeeded" THEN "apply" ELSE "settle"
             new == [refund[r] EXCEPT !.result = answer, !.pc = pc]
  <2>2. /\ new.pc = pc /\ new.amount = refund[r].amount /\ new.src = refund[r].src
        /\ refund' = [refund EXCEPT ![r] = new] /\ UNCHANGED <<txs, credited>>
    BY <1>1, <2>1 DEF RefundCall, tables
  <2> HIDE DEF new
  <2>3. CASE answer = "succeeded"
    BY <1>3, <2>1, <2>2, <2>3, BookedAnswer
  <2>4. CASE answer # "succeeded"
    BY <1>2, <1>4, <1>5, <2>1, <2>2, <2>4
  <2> QED
    BY <2>3, <2>4
<1>11. CASE RefundThrows(r)
  <2>1. /\ refund[r].pc = "refund" /\ RefundTo(r, "error") /\ UNCHANGED <<txs, credited>>
        /\ returned' \in {returned, [returned EXCEPT ![refund[r].src] = @ + refund[r].amount]}
    BY <1>11 DEF RefundThrows, tables
  <2>2. refund[r].src \in Payments /\ refund[r].amount \in Nat
    BY <1>1, <2>1, TablesAssumption DEF RefundShape
  <2>3. \A p \in Payments : returned'[p] \in Nat /\ returned[p] <= returned'[p]
    BY <1>1, <2>1, <2>2
  <2> QED
    BY <1>6, <2>1, <2>3
<1>12. CASE ApplyRefund(r)
  <2> DEFINE new == [refund[r] EXCEPT !.pc = "emit_tx",
                                      !.intentStatus = intents'[txs[r].intent].status]
  <2>1. /\ refund[r].pc = "apply" /\ CreditRefund(r) /\ UNCHANGED returned
        /\ refund' = [refund EXCEPT ![r] = new]
    BY <1>12 DEF ApplyRefund, provider
  <2>2. new.pc = "emit_tx"
    BY <1>1 DEF RefundCall
  <2>3. txs' = [txs EXCEPT ![r].status = "succeeded"] /\ credited' = credited \cup {r}
    BY <2>1 DEF CreditRefund
  <2>4. ParentsStay
    BY <1>1, <2>3 DEF ParentsStay, TablesTypeOK, TxRow, Txs
  <2> HIDE DEF new
  <2>5. refund'[r] = new /\ \A q \in Refunds : q # r => refund'[q] = refund[q]
    BY <1>3, <2>1
  <2>6. RowIsCalls(r)'
    BY <2>2, <2>5 DEF RowIsCalls
  <2> QED
    BY <1>2, <2>1, <2>2, <2>3, <2>4, <2>5, <2>6, BookedByCall
<1>13. CASE SettleRefund(r)
  <2> DEFINE step == IF refund[r].result = "failed" THEN "provider_failed" ELSE "emit_tx"
             new == [refund[r] EXCEPT !.pc = step]
  <2>1. /\ SetTxStatus(r, refund[r].result) /\ UNCHANGED returned
        /\ refund' = [refund EXCEPT ![r] = new]
    BY <1>13 DEF SettleRefund, RefundTo, provider
  <2>2. new.pc \in {"provider_failed", "emit_tx"}
    BY <1>1 DEF RefundCall
  <2>3. ParentsStay /\ credited' = credited
    BY <1>1, <2>1 DEF SetTxStatus, ParentsStay, TablesTypeOK, TxRow, Txs
  <2> HIDE DEF new
  <2> QED
    BY <1>2, <1>5, <2>1, <2>2, <2>3
<1> QED
  BY <1>0, <1>7, <1>8, <1>9, <1>10, <1>11, <1>12, <1>13

(* The other use cases write no refund's parent and give nothing back.     *)
LEMMA OthersKeepParents ==
  ASSUME Inv,
         \/ Environment \/ GatewayNext \/ ConfirmNext \/ WebhookNext \/ VoidNext \/ SweepNext
         \/ UNCHANGED vars
  PROVE  ParentsStay /\ UNCHANGED returned
<1>1. /\ txs \in [Txs -> TxRow] /\ Payments \cap Refunds = {} /\ Payments \subseteq Txs
      /\ Refunds \subseteq Txs /\ TablesTypeOK
  BY TablesAssumption DEF Inv, TablesInv, TablesTypeOK, Txs
<1>2. UNCHANGED txs => ParentsStay
  BY DEF ParentsStay
<1>3. ASSUME NEW t, NEW status, txs' = [txs EXCEPT ![t].status = status] PROVE ParentsStay
  BY <1>1, <1>3 DEF ParentsStay, TxRow
<1>4. ASSUME NEW t, NEW row, ~TxExists(t), txs' = [txs EXCEPT ![t] = row] PROVE ParentsStay
  BY <1>1, <1>4 DEF ParentsStay
<1>5. CASE Environment
  <2>1. UNCHANGED txs /\ UNCHANGED returned
    BY <1>5 DEF Environment, CreateIntent, PassDeadline, SettleCharge, tables, provider
  <2> QED
    BY <1>2, <2>1
<1>6. CASE GatewayNext
  <2>1. UNCHANGED returned
    BY <1>6 DEF GatewayNext, ReceivePayment, FindKey, AcceptPayment, RejectPayment, ReserveKey,
       ChargeProvider, ProviderThrows, MarkKeyFailed, InsertPayment, ApplyPayment, ApplyRefused,
       CompleteKey, AbortPayment, provider
  <2>2. PICK p \in Payments :
          \/ UNCHANGED txs
          \/ \E row : InsertTx(p, row)
          \/ CreditPayment(p)
    BY <1>6 DEF GatewayNext, ReceivePayment, FindKey, AcceptPayment, RejectPayment, ReserveKey,
       ChargeProvider, ProviderThrows, MarkKeyFailed, InsertPayment, ApplyPayment, ApplyRefused,
       CompleteKey, AbortPayment, tables
  <2> QED
    BY <1>2, <1>3, <1>4, <2>1, <2>2 DEF InsertTx, CreditPayment
<1>7. CASE ConfirmNext
  <2>1. /\ UNCHANGED returned
        /\ UNCHANGED txs \/ \E t : CreditPayment(t)
    BY <1>7 DEF ConfirmNext, LoadConfirm, ApplyConfirm, ConfirmWithoutEffect, EmitConfirmedTx,
       EmitConfirmedIntent, AbortConfirm, tables, provider
  <2> QED
    BY <1>2, <1>3, <2>1 DEF CreditPayment
<1>8. CASE WebhookNext
  <2>1. /\ UNCHANGED returned
        /\ UNCHANGED txs \/ (\E t : CreditPayment(t)) \/ \E t, status : SetTxStatus(t, status)
    BY <1>1, <1>8, WebhookWrites DEF Inv, tables, provider
  <2> QED
    BY <1>2, <1>3, <2>1 DEF CreditPayment, SetTxStatus
<1>9. CASE VoidNext
  <2>1. UNCHANGED returned
    BY <1>9 DEF VoidNext, LoadVoid, CheckVoidable, CancelAtProvider, WriteVoid, EmitVoidTx,
       EmitVoidIntent, AbortVoid, provider
  <2>2. UNCHANGED txs \/ \E v \in Voids : WriteVoid(v)
    BY <1>9 DEF VoidNext, LoadVoid, CheckVoidable, CancelAtProvider, EmitVoidTx,
       EmitVoidIntent, AbortVoid, tables
  <2>3. ASSUME NEW v \in Voids, WriteVoid(v) PROVE ParentsStay
    <3>1. void[v].tx \in Payments
      BY <2>3 DEF WriteVoid, Inv, VoidInv, VoidShape
    <3>2. \A r \in Refunds : txs'[r] = txs[r]
      BY <1>1, <2>3, <3>1 DEF WriteVoid
    <3> QED
      BY <3>2 DEF ParentsStay
  <2> QED
    BY <1>2, <2>1, <2>2, <2>3
<1>10. CASE SweepNext
  <2>1. /\ UNCHANGED returned
        /\ UNCHANGED txs \/ \E t, status : SetTxStatus(t, status)
    BY <1>10 DEF SweepNext, ListStaleTxs, ExpireTx, FinishStaleTxs, ListStaleIntents,
       ListIntentTxs, FinishIntentTxs, FinishIntents, RecheckIntent, WriteExpired, FinishSweep,
       AbortSweep, SetIntentStatus, tables, provider
  <2> QED
    BY <1>2, <1>3, <2>1 DEF SetTxStatus
<1>11. CASE UNCHANGED vars
  BY <1>2, <1>11 DEF vars, tables, provider
<1> QED
  BY <1>5, <1>6, <1>7, <1>8, <1>9, <1>10, <1>11

(* The refunds in a payment's totals never exceed what the provider gave   *)
(* back on it: one that is only accepted, one that is refused and one cut  *)
(* off before its answer are not booked.                                   *)
THEOREM BookedRefundsAreReturned == OnlyPaymentsConfirmed /\ Spec => []BookedIsReturned
<1>1. Init => BookedInv
  <2> SUFFICES ASSUME Init PROVE BookedInv
    OBVIOUS
  <2>1. \A r \in Refunds : RowIsCalls(r)
    BY DEF Init, RefundInit, RowIsCalls
  <2>2. \A p \in Payments : Owing(p) = {} /\ returned[p] = 0
    BY DEF Init, TablesInit, RefundInit, ProviderInit, Owing
  <2> QED
    BY <2>1, <2>2, SumEmpty DEF BookedInv
<1>2. Inv /\ BookedInv /\ [Next]_vars => BookedInv'
  <2> SUFFICES ASSUME Inv, BookedInv, [Next]_vars PROVE BookedInv'
    OBVIOUS
  <2>1. Inv' /\ Grows
    BY InvNext
  <2>2. CASE RefundNext
    BY <2>1, <2>2, BookedByRefund
  <2>3. CASE ~RefundNext
    <3>1. ParentsStay /\ UNCHANGED returned
      BY <2>3, OthersKeepParents DEF Next
    <3>2. NoRefund
      BY <2>3, EnvironmentKeeps, GatewayKeeps, ConfirmKeeps, WebhookKeeps, VoidKeeps, SweepKeeps
      DEF Next, Inv, vars, tables, NoRefund
    <3>3. UNCHANGED refund
      BY <2>3 DEF Next, vars
    <3> QED
      BY <2>1, <3>1, <3>2, <3>3, BookedByOthers
  <2> QED
    BY <2>2, <2>3
<1>3. Inv /\ BookedInv => BookedIsReturned
  <2> SUFFICES ASSUME Inv, BookedInv, NEW p \in Payments
               PROVE  Total({r \in Refunds \cap credited : txs[r].parent = p}) <= returned[p]
    BY DEF BookedIsReturned
  <2> DEFINE booked == {r \in Refunds \cap credited : txs[r].parent = p}
  <2>1. /\ Counted(txs, Owing(p)) /\ SumOf(txs, Owing(p)) \in Nat /\ returned[p] \in Nat
        /\ SumOf(txs, Owing(p)) <= returned[p]
    BY OwingCount DEF BookedInv
  <2>2. booked \in SUBSET Owing(p)
    BY DEF Owing
  <2> HIDE DEF booked
  <2>3. SumOf(txs, booked) \in Nat /\ SumOf(txs, booked) <= SumOf(txs, Owing(p))
    BY <2>1, <2>2, SumGrows, SumIsNat
  <2> QED
    BY <2>1, <2>3 DEF Total, booked
<1> QED
  BY <1>1, <1>2, <1>3, InvHolds, PTL DEF Spec
=============================================================================
