---------------------------- MODULE ExpireStale ----------------------------
(***************************************************************************)
(* ExpireStalePaymentTransactions, the expire-stale worker: list the open  *)
(* transactions past their deadline and expire them one by one; with what  *)
(* is left of the limit, list the active intents past theirs and expire    *)
(* their open transactions; then re-read every intent touched and expire   *)
(* those still unpaid.  What was listed is acted on as it was listed.      *)
(***************************************************************************)
EXTENDS PaymentProvider

CONSTANTS Sweeps,         \* concurrent runs of the worker
          SweepLimit      \* --limit

ASSUME SweepAssumption == SweepLimit \in Nat

VARIABLE sweep

SweepRun == [pc: {"idle", "expire_tx", "list_intents", "next_intent",
                  "expire_intent_tx", "recheck", "write"},
             todo: SUBSET Txs,        \* listed, to be expired
             queue: SUBSET Intents,   \* listed, to be gone through
             touched: SUBSET Intents, \* to be re-read at the end
             room: Nat,               \* what is left of the limit
             late: SUBSET (Intents \cup Payments), \* overdue at its now
             intent: Intents \cup {None}]

SweepTypeOK == sweep \in [Sweeps -> SweepRun]

SweepIdle == [pc |-> "idle", todo |-> {}, queue |-> {}, touched |-> {}, room |-> 0,
              late |-> {}, intent |-> None]

SweepInit == sweep = [s \in Sweeps |-> SweepIdle]

Min2(a, b) == IF a <= b THEN a ELSE b

(* A query with LIMIT n returns n of the matching rows, or all of them.    *)
Limited(rows, n) == kSubset(Min2(n, Cardinality(rows)), rows)

StaleTxs == {t \in Txs : txs[t].status \in ConfirmableStatuses /\ t \in overdue}

ExpiredActive(s) ==
    {i \in Intents : i \in sweep[s].late /\ intents[i].status \in PayableStatuses}

(* A run takes its now once, here.                                         *)
ListStaleTxs(s) ==
    \E rows \in Limited(StaleTxs, SweepLimit) :
        /\ sweep[s].pc = "idle"
        /\ sweep' = [sweep EXCEPT ![s] =
                       [@ EXCEPT !.pc = "expire_tx", !.todo = rows, !.late = overdue,
                                 !.room = SweepLimit - Cardinality(rows)]]
        /\ UNCHANGED <<tables, provider>>

(* expireTransaction, in either loop: open when listed, expired now.       *)
ExpireTx(s) ==
    \E t \in sweep[s].todo :
        /\ sweep[s].pc \in {"expire_tx", "expire_intent_tx"}
        /\ SetTxStatus(t, "expired")
        /\ sweep' = [sweep EXCEPT ![s] =
                       [@ EXCEPT !.todo = sweep[s].todo \ {t},
                                 !.touched = sweep[s].touched \cup {txs[t].intent}]]
        /\ UNCHANGED provider

FinishStaleTxs(s) ==
    /\ sweep[s].pc = "expire_tx"
    /\ sweep[s].todo = {}
    /\ sweep' = [sweep EXCEPT ![s].pc = IF sweep[s].room > 0 THEN "list_intents"
                                                             ELSE "recheck"]
    /\ UNCHANGED <<tables, provider>>

ListStaleIntents(s) ==
    \E rows \in Limited(ExpiredActive(s), sweep[s].room) :
        /\ sweep[s].pc = "list_intents"
        /\ sweep' = [sweep EXCEPT ![s] = [@ EXCEPT !.pc = "next_intent", !.queue = rows]]
        /\ UNCHANGED <<tables, provider>>

(* findByIntentId: every open row of the intent, refunds included.         *)
ListIntentTxs(s) ==
    \E i \in sweep[s].queue :
        /\ sweep[s].pc = "next_intent"
        /\ sweep' = [sweep EXCEPT ![s] =
                       [@ EXCEPT !.pc = "expire_intent_tx",
                                 !.queue = sweep[s].queue \ {i},
                                 !.touched = sweep[s].touched \cup {i},
                                 !.todo = {t \in Txs : /\ txs[t].intent = i
                                                       /\ txs[t].status \in ConfirmableStatuses}]]
        /\ UNCHANGED <<tables, provider>>

FinishIntentTxs(s) ==
    /\ sweep[s].pc = "expire_intent_tx"
    /\ sweep[s].todo = {}
    /\ sweep' = [sweep EXCEPT ![s].pc = "next_intent"]
    /\ UNCHANGED <<tables, provider>>

FinishIntents(s) ==
    /\ sweep[s].pc = "next_intent"
    /\ sweep[s].queue = {}
    /\ sweep' = [sweep EXCEPT ![s].pc = "recheck"]
    /\ UNCHANGED <<tables, provider>>

(* The intent is re-read: expire it if it is still active and unpaid.      *)
RecheckIntent(s) ==
    \E i \in sweep[s].touched :
        /\ sweep[s].pc = "recheck"
        /\ sweep' = [sweep EXCEPT ![s] =
             IF intents[i].status \in PayableStatuses /\ intents[i].remaining > 0
             THEN [@ EXCEPT !.pc = "write", !.intent = i, !.touched = sweep[s].touched \ {i}]
             ELSE [@ EXCEPT !.touched = sweep[s].touched \ {i}]]
        /\ UNCHANGED <<tables, provider>>

WriteExpired(s) ==
    /\ sweep[s].pc = "write"
    /\ SetIntentStatus(sweep[s].intent, "expired")
    /\ sweep' = [sweep EXCEPT ![s] = [@ EXCEPT !.pc = "recheck", !.intent = None]]
    /\ UNCHANGED provider

FinishSweep(s) ==
    /\ sweep[s].pc = "recheck"
    /\ sweep[s].touched = {}
    /\ sweep' = [sweep EXCEPT ![s] = SweepIdle]
    /\ UNCHANGED <<tables, provider>>

(* A statement fails or the worker dies: the rest of the run is not done.  *)
AbortSweep(s) ==
    /\ sweep[s].pc # "idle"
    /\ sweep' = [sweep EXCEPT ![s] = SweepIdle]
    /\ UNCHANGED <<tables, provider>>

SweepNext ==
    \E s \in Sweeps :
        \/ ListStaleTxs(s) \/ ExpireTx(s) \/ FinishStaleTxs(s)
        \/ ListStaleIntents(s) \/ ListIntentTxs(s) \/ FinishIntentTxs(s) \/ FinishIntents(s)
        \/ RecheckIntent(s) \/ WriteExpired(s) \/ FinishSweep(s) \/ AbortSweep(s)
=============================================================================
