-------------------------- MODULE ReprocessEvents --------------------------
(***************************************************************************)
(* ReprocessProviderEvents, the worker that replays stored provider events *)
(* still pending or failed: it lists them, and for each reads transaction  *)
(* and intent, applies what the stored payload says and marks the event.   *)
(* It does not claim the event, and it credits with three statements that  *)
(* no database transaction joins.                                          *)
(***************************************************************************)
EXTENDS ProviderWebhook

CONSTANT Reprocesses      \* concurrent runs of the worker

VARIABLE reprocess

StoredBalance == [paid: Nat, refunded: Nat, remaining: Nat]
NoStoredBalance == [paid |-> 0, refunded |-> 0, remaining |-> 0]

(* todo: listed and not begun; seen: the transaction's status as read.     *)
ReprocessRun == [pc: {"idle", "next", "intent", "mark", "totals", "status", "close",
                      "processed", "failed"},
                 todo: SUBSET Events, ev: Events \cup {None},
                 seen: TransactionStatuses \cup {"none"}, balance: StoredBalance]

ReprocessTypeOK == reprocess \in [Reprocesses -> ReprocessRun]

ReprocessIdle == [pc |-> "idle", todo |-> {}, ev |-> None, seen |-> "none",
                  balance |-> NoStoredBalance]

ReprocessInit == reprocess = [b \in Reprocesses |-> ReprocessIdle]

(* TERMINAL_STATUSES of this worker.                                       *)
ReplayTerminal == {"succeeded", "failed", "cancelled", "expired", "reversed"}

ReplayTo(b, step) == reprocess' = [reprocess EXCEPT ![b].pc = step]
ReplayTx(b) == inbox[reprocess[b].ev].tx

(* coerceParsedPayload looks for the status in the stored raw payload:     *)
(* fake_gateway's words are the service's own, those of xendit_sandbox     *)
(* (PAID, SETTLED...) are none that the replay knows.                      *)
ReplayedStatus(e) == IF InvoiceScopedIds THEN "unknown" ELSE inbox[e].outcome

(* findStalePending.  Which events are old enough, and which of them the   *)
(* limit leaves out, is left open.                                         *)
StaleEvents == {e \in Events : inbox[e].status \in {"pending", "failed"}}

ListStaleEvents(b) ==
    \E batch \in SUBSET StaleEvents :
        /\ reprocess[b].pc = "idle"
        /\ batch # {}
        /\ reprocess' = [reprocess EXCEPT ![b] = [@ EXCEPT !.pc = "next", !.todo = batch]]
        /\ UNCHANGED <<tables, provider, webhookVars, outbox>>

(* The next event: an ignored one is done with; the transaction is looked  *)
(* for by reference, and not to find it is a failure.                      *)
ReplayEvent(b) ==
    \E e \in reprocess[b].todo :
        LET p == inbox[e].tx
            found == TxExists(p) /\ txs[p].routable
        IN  /\ reprocess[b].pc = "next"
            /\ reprocess' = [reprocess EXCEPT ![b] =
                 [@ EXCEPT !.todo = reprocess[b].todo \ {e}, !.ev = e,
                           !.seen = IF found THEN txs[p].status ELSE "none",
                           !.pc = CASE ReplayedStatus(e) = "ignored" -> "processed"
                                    [] ReplayedStatus(e) # "ignored" /\ ~found -> "failed"
                                    [] ReplayedStatus(e) # "ignored" /\ found -> "intent"]]
            /\ UNCHANGED <<tables, provider, webhookVars, outbox>>

(* The intent is read, and the call decides on what it has read by now.    *)
ReadIntentForReplay(b) ==
    LET p      == ReplayTx(b)
        row    == intents[txs[p].intent]
        status == ReplayedStatus(reprocess[b].ev)
        open   == reprocess[b].seen \notin ReplayTerminal
        balance == [paid |-> row.paid, refunded |-> row.refunded, remaining |-> row.remaining]
    IN  /\ reprocess[b].pc = "intent"
        /\ \/ /\ open /\ status = "succeeded" /\ txs[p].amount <= row.remaining
              /\ reprocess' = [reprocess EXCEPT ![b] = [@ EXCEPT !.pc = "mark",
                                                                !.balance = balance]]
           \/ /\ open /\ status = "succeeded" /\ txs[p].amount > row.remaining
              /\ ReplayTo(b, "failed")
           \/ /\ open /\ status \in {"failed", "cancelled", "expired"}
              /\ ReplayTo(b, "close")
           \/ /\ ~open \/ status \notin {"succeeded", "failed", "cancelled", "expired"}
              /\ ReplayTo(b, "processed")
        /\ UNCHANGED <<tables, provider, webhookVars, outbox>>

(* Not open any more: nothing is written and the event counts as done.     *)
MarkReplayed(b) ==
    /\ reprocess[b].pc = "mark"
    /\ \/ MarkSucceeded(ReplayTx(b)) /\ ReplayTo(b, "totals")
       \/ /\ txs[ReplayTx(b)].status \notin ConfirmableStatuses
          /\ ReplayTo(b, "processed")
          /\ UNCHANGED tables
    /\ UNCHANGED <<provider, webhookVars, outbox>>

WriteReplayedTotals(b) ==
    LET t    == ReplayTx(b)
        i    == txs[t].intent
        due  == intents[i].due
        paid == reprocess[b].balance.paid + txs[t].amount
    IN  /\ reprocess[b].pc = "totals"
        /\ SetIntentTotals(i, paid, reprocess[b].balance.refunded,
                           IF paid >= due THEN 0 ELSE due - paid)
        /\ ReplayTo(b, "status")
        /\ UNCHANGED <<provider, webhookVars, outbox>>

WriteReplayedStatus(b) ==
    LET t == ReplayTx(b)
        i == txs[t].intent
    IN  /\ reprocess[b].pc = "status"
        /\ SetIntentStatus(i, ComputeIntentStatus(intents[i].due,
                                                  reprocess[b].balance.paid + txs[t].amount))
        /\ ReplayTo(b, "processed")
        /\ UNCHANGED <<provider, webhookVars, outbox>>

CloseReplayed(b) ==
    /\ reprocess[b].pc = "close"
    /\ SetTxStatus(ReplayTx(b), ReplayedStatus(reprocess[b].ev))
    /\ ReplayTo(b, "processed")
    /\ UNCHANGED <<provider, webhookVars, outbox>>

(* A statement inside the try throws, the markProcessed included.          *)
ReplayThrows(b) ==
    /\ reprocess[b].pc \in {"intent", "mark", "totals", "status", "close", "processed"}
    /\ ReplayTo(b, "failed")
    /\ UNCHANGED <<tables, provider, webhookVars, outbox>>

NextEvent(b) ==
    reprocess' = [reprocess EXCEPT ![b] =
      IF reprocess[b].todo = {} THEN ReprocessIdle
      ELSE [ReprocessIdle EXCEPT !.pc = "next", !.todo = reprocess[b].todo]]

(* A mutant: what could not be replayed is put away as processed.          *)
MutantFailureIsProcessed(b) ==
    /\ reprocess[b].pc = "failed"
    /\ SetEventStatus(reprocess[b].ev, "processed")
    /\ NextEvent(b)
    /\ UNCHANGED <<tables, provider, hook, outbox>>

MarkReplayProcessed(b) ==
    /\ reprocess[b].pc = "processed"
    /\ SetEventStatus(reprocess[b].ev, "processed")
    /\ NextEvent(b)
    /\ UNCHANGED <<tables, provider, hook, outbox>>

(* markFailed; that it throws too is swallowed.                            *)
MarkReplayFailed(b) ==
    /\ reprocess[b].pc = "failed"
    /\ SetEventStatus(reprocess[b].ev, "failed") \/ UNCHANGED inbox
    /\ NextEvent(b)
    /\ UNCHANGED <<tables, provider, hook, outbox>>

AbortReprocess(b) ==
    /\ reprocess[b].pc # "idle"
    /\ reprocess' = [reprocess EXCEPT ![b] = ReprocessIdle]
    /\ UNCHANGED <<tables, provider, webhookVars, outbox>>

ReprocessNext ==
    \E b \in Reprocesses :
        \/ ListStaleEvents(b) \/ ReplayEvent(b) \/ ReadIntentForReplay(b) \/ MarkReplayed(b)
        \/ WriteReplayedTotals(b) \/ WriteReplayedStatus(b) \/ CloseReplayed(b)
        \/ ReplayThrows(b) \/ MarkReplayProcessed(b) \/ MarkReplayFailed(b)
        \/ AbortReprocess(b)
=============================================================================
