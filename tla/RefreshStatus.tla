--------------------------- MODULE RefreshStatus ---------------------------
(***************************************************************************)
(* RefreshProviderStatus: on request, the provider is asked how a charge   *)
(* stands and the answer is written to the transaction.  The transaction   *)
(* is read before the provider is asked, the intent after; the success is  *)
(* written with three statements that no database transaction joins.  A    *)
(* refund's row may be refreshed too: no provider knows a status of it, so *)
(* that changes nothing and is not a step; nor is a refresh of a payment   *)
(* whose provider cannot be polled.                                        *)
(***************************************************************************)
EXTENDS PaymentProvider

CONSTANT Refreshes        \* concurrent refresh calls

VARIABLE refresh

Balance == [paid: Nat, refunded: Nat, remaining: Nat]
NoBalance == [paid |-> 0, refunded |-> 0, remaining |-> 0]
BalanceOf(i) == [paid |-> intents[i].paid, refunded |-> intents[i].refunded,
                 remaining |-> intents[i].remaining]

(* seen: the transaction's status as read; balance: the intent as read.    *)
RefreshCall == [pc: {"idle", "ask", "intent", "mark", "totals", "status", "close"},
                tx: Payments \cup {None}, seen: TransactionStatuses \cup {"none"},
                answer: ChargeStatuses \cup {"ignored", "requires_action"}, balance: Balance]

RefreshTypeOK == refresh \in [Refreshes -> RefreshCall]

RefreshIdle == [pc |-> "idle", tx |-> None, seen |-> "none", answer |-> "none",
                balance |-> NoBalance]

RefreshInit == refresh = [f \in Refreshes |-> RefreshIdle]

(* TERMINAL_STATUSES of this use case.                                     *)
RefreshTerminal == {"succeeded", "failed", "cancelled", "expired", "voided", "refunded"}

RefreshTo(f, step) == refresh' = [refresh EXCEPT ![f].pc = step]
RefreshReturns(f) == refresh' = [refresh EXCEPT ![f] = RefreshIdle]

LoadRefresh(f, p) ==
    /\ refresh[f].pc = "idle"
    /\ TxExists(p)
    /\ refresh' = [refresh EXCEPT ![f] = [@ EXCEPT !.pc = "ask", !.tx = p,
                                                   !.seen = txs[p].status]]
    /\ UNCHANGED <<tables, provider>>

(* What a poll of the charge may return.                                   *)
PollAnswers(p) == XenditPoll(charge[p]) \cup FakeGatewayPoll(charge[p])

AskProvider(f) ==
    /\ refresh[f].pc = "ask"
    /\ \E answer \in PollAnswers(refresh[f].tx) :
         refresh' = [refresh EXCEPT ![f] = [@ EXCEPT !.pc = "intent", !.answer = answer]]
    /\ UNCHANGED <<tables, provider>>

(* The intent is read, and the call decides on what it has read by now.    *)
ReadIntentForRefresh(f) ==
    LET call    == refresh[f]
        balance == BalanceOf(txs[call.tx].intent)
        open    == call.seen \notin RefreshTerminal
    IN  /\ call.pc = "intent"
        /\ \/ /\ open /\ call.answer = "succeeded"
              /\ txs[call.tx].amount <= balance.remaining
              /\ refresh' = [refresh EXCEPT ![f] = [call EXCEPT !.pc = "mark",
                                                                !.balance = balance]]
           \/ /\ open /\ call.answer \in {"failed", "cancelled", "expired"}
              /\ RefreshTo(f, "close")
           \/ /\ \/ ~open
                 \/ call.answer \notin {"succeeded", "failed", "cancelled", "expired"}
                 \/ call.answer = "succeeded" /\ txs[call.tx].amount > balance.remaining
              /\ RefreshReturns(f)
        /\ UNCHANGED <<tables, provider>>

(* Somebody else was first: the rows are only read again.  (A mutant takes *)
(* that for its own success.)                                              *)
MutantMarksAgain(f) ==
    /\ refresh[f].pc = "mark"
    /\ MarkSucceeded(refresh[f].tx) \/ (txs[refresh[f].tx].status = "succeeded"
                                        /\ UNCHANGED tables)
    /\ RefreshTo(f, "totals")
    /\ UNCHANGED provider

MarkRefreshed(f) ==
    /\ refresh[f].pc = "mark"
    /\ \/ MarkSucceeded(refresh[f].tx) /\ RefreshTo(f, "totals")
       \/ /\ txs[refresh[f].tx].status \notin ConfirmableStatuses
          /\ RefreshReturns(f)
          /\ UNCHANGED tables
    /\ UNCHANGED provider

(* The balance after a payment of a, as the non-atomic writers compute it. *)
PaidBalance(due, balance, a) ==
    LET paid == balance.paid + a
    IN  [paid |-> paid, refunded |-> balance.refunded,
         remaining |-> IF paid >= due THEN 0 ELSE due - paid]

SetBalance(i, balance) ==
    SetIntentTotals(i, balance.paid, balance.refunded, balance.remaining)

WriteRefreshedTotals(f) ==
    LET t == refresh[f].tx
        i == txs[t].intent
    IN  /\ refresh[f].pc = "totals"
        /\ SetBalance(i, PaidBalance(intents[i].due, refresh[f].balance, txs[t].amount))
        /\ RefreshTo(f, "status")
        /\ UNCHANGED provider

WriteRefreshedStatus(f) ==
    LET t == refresh[f].tx
        i == txs[t].intent
    IN  /\ refresh[f].pc = "status"
        /\ SetIntentStatus(i, ComputeIntentStatus(intents[i].due,
                                                  refresh[f].balance.paid + txs[t].amount))
        /\ RefreshReturns(f)
        /\ UNCHANGED provider

(* Failed, cancelled, expired: written whatever the row has become.        *)
CloseRefreshed(f) ==
    /\ refresh[f].pc = "close"
    /\ SetTxStatus(refresh[f].tx, refresh[f].answer)
    /\ RefreshReturns(f)
    /\ UNCHANGED provider

(* The provider cannot be reached, a statement fails, the process dies.    *)
AbortRefresh(f) ==
    /\ refresh[f].pc # "idle"
    /\ RefreshReturns(f)
    /\ UNCHANGED <<tables, provider>>

RefreshNext ==
    \E f \in Refreshes :
        \/ \E p \in Payments : LoadRefresh(f, p)
        \/ AskProvider(f) \/ ReadIntentForRefresh(f) \/ MarkRefreshed(f)
        \/ WriteRefreshedTotals(f) \/ WriteRefreshedStatus(f) \/ CloseRefreshed(f)
        \/ AbortRefresh(f)
=============================================================================
