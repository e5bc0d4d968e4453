--------------------------- MODULE IntentCreation ---------------------------
(***************************************************************************)
(* CreatePaymentIntent under idempotency keys: the key is reserved, the    *)
(* intent inserted, the key completed, each a statement of its own, by     *)
(* concurrent calls that may end anywhere.  An intent is named by the call *)
(* that inserts it, under a fresh UUID.  One merchant, which exists; a     *)
(* call that validation refuses changes nothing and is not a step.         *)
(***************************************************************************)
EXTENDS Integers, FiniteSets

CONSTANTS Requests,   \* calls of POST /v1/payment-intents
          Keys,       \* idempotency keys
          Payables,   \* what is to be paid: externalPayableType and Id
          Apps,       \* sourceApps
          Dues,       \* the rest of the request, standing for all of it
          None        \* null

ASSUME CreationAssumption ==
    /\ None \notin Requests \cup Keys \cup Apps
    /\ None \notin [payable: Payables, app: Apps \cup {None}, due: Dues]

VARIABLES keys,       \* po_idempotency_keys, scope create_payment_intent
          rows,       \* po_intents: the body of each intent, or no row
          call        \* the calls: where each stands, what it asked

creationVars == <<keys, rows, call>>

(* What computeRequestHash covers: everything but the key itself.          *)
Bodies == [payable: Payables, app: Apps \cup {None}, due: Dues]

KeyStatuses == {"absent", "processing", "completed", "failed"}

(* intent: responseSnapshot.intentId                                       *)
KeyRow == [status: KeyStatuses, body: Bodies \cup {None}, intent: Requests \cup {None}]

Refusals == {"conflict", "in_progress", "previously_failed"}

Call == [pc: {"idle", "reserve", "get", "find", "insert", "complete",
              "created", "replayed", "error"} \cup Refusals,
         key: Keys \cup {None}, body: Bodies \cup {None},
         reply: Requests \cup {None}]

CreationTypeOK ==
    /\ keys \in [Keys -> KeyRow]
    /\ rows \in [Requests -> Bodies \cup {None}]
    /\ call \in [Requests -> Call]

NoKeyRow == [status |-> "absent", body |-> None, intent |-> None]
CallIdle == [pc |-> "idle", key |-> None, body |-> None, reply |-> None]

CreationInit ==
    /\ keys = [k \in Keys |-> NoKeyRow]
    /\ rows = [r \in Requests |-> None]
    /\ call = [r \in Requests |-> CallIdle]

Go(r, step) == call' = [call EXCEPT ![r].pc = step]

StartCreate(r, k, body) ==
    /\ call[r].pc = "idle"
    /\ call' = [call EXCEPT ![r] =
                  [pc |-> IF k = None THEN "insert" ELSE "reserve",
                   key |-> k, body |-> body, reply |-> None]]
    /\ UNCHANGED <<keys, rows>>

(* reserveOrGet: insert on conflict do nothing; a row that is there is     *)
(* read by a second statement.  (A mutant takes any row over.)             *)
MutantTakesOver(r) ==
    /\ call[r].pc = "reserve"
    /\ keys' = [keys EXCEPT ![call[r].key] =
                  [status |-> "processing", body |-> call[r].body, intent |-> None]]
    /\ Go(r, "insert")
    /\ UNCHANGED rows

ReserveKey(r) ==
    LET k == call[r].key
    IN  /\ call[r].pc = "reserve"
        /\ IF keys[k].status = "absent"
           THEN /\ keys' = [keys EXCEPT ![k] = [status |-> "processing",
                                                body |-> call[r].body, intent |-> None]]
                /\ Go(r, "insert")
           ELSE Go(r, "get") /\ UNCHANGED keys
        /\ UNCHANGED rows

(* The answer to a call whose key is taken.  (A mutant does not compare    *)
(* the requests.)                                                          *)
MutantAnyBody(k, body) ==
    CASE keys[k].status = "processing" -> "in_progress"
      [] keys[k].status = "failed"     -> "previously_failed"
      [] OTHER                         -> "find"

Verdict(k, body) ==
    CASE keys[k].body # body           -> "conflict"
      [] keys[k].body = body /\ keys[k].status = "processing" -> "in_progress"
      [] keys[k].body = body /\ keys[k].status = "failed"     -> "previously_failed"
      [] keys[k].body = body /\ keys[k].status = "completed"  -> "find"

GetKey(r) ==
    LET k == call[r].key
    IN  /\ call[r].pc = "get"
        /\ call' = [call EXCEPT ![r] = [@ EXCEPT !.pc = Verdict(k, call[r].body),
                                                 !.reply = keys[k].intent]]
        /\ UNCHANGED <<keys, rows>>

(* The completed key's intent is read and returned; were it gone, another  *)
(* would be inserted (no code deletes intents).                            *)
FindIntent(r) ==
    /\ call[r].pc = "find"
    /\ Go(r, IF rows[call[r].reply] # None THEN "replayed" ELSE "insert")
    /\ UNCHANGED <<keys, rows>>

(* po_intents_merchant_payable_unique, which leaves out a null sourceApp.  *)
Taken(body) == body.app # None /\ \E r \in Requests :
    rows[r] # None /\ rows[r].app = body.app /\ rows[r].payable = body.payable

InsertIntent(r) ==
    LET body == call[r].body
    IN  /\ call[r].pc = "insert"
        /\ IF Taken(body)
           THEN Go(r, "error") /\ UNCHANGED rows
           ELSE /\ rows' = [rows EXCEPT ![r] = body]
                /\ call' = [call EXCEPT ![r] =
                     [@ EXCEPT !.reply = r,
                               !.pc = IF call[r].key = None THEN "created" ELSE "complete"]]
        /\ UNCHANGED keys

(* markCompleted                                                           *)
CompleteKey(r) ==
    /\ call[r].pc = "complete"
    /\ keys' = [keys EXCEPT ![call[r].key] = [@ EXCEPT !.status = "completed", !.intent = r]]
    /\ Go(r, "created")
    /\ UNCHANGED rows

(* A statement fails or the process dies.                                  *)
AbortCreate(r) ==
    /\ call[r].pc \in {"reserve", "get", "find", "insert", "complete"}
    /\ Go(r, "error")
    /\ UNCHANGED <<keys, rows>>

CreationNext ==
    \E r \in Requests :
        \/ \E k \in Keys \cup {None}, body \in Bodies : StartCreate(r, k, body)
        \/ ReserveKey(r) \/ GetKey(r) \/ FindIntent(r) \/ InsertIntent(r) \/ CompleteKey(r)
        \/ AbortCreate(r)

CreationSpec == CreationInit /\ [][CreationNext]_creationVars
-----------------------------------------------------------------------------
(* The intents inserted by the calls under k.                              *)
IntentsOf(k) == {r \in Requests : rows[r] # None /\ call[r].key = k}

KeyOf == [r \in Requests |-> call[r].key]

(* The member of a set that has one, None of an empty set.                 *)
Only(S) == IF S = {} THEN None ELSE CHOOSE r \in S : TRUE

EffectOf == [k \in Keys |-> Only(IntentsOf(k))]

AnswerOf == [r \in Requests |->
    IF call[r].key # None /\ call[r].pc \in {"created", "replayed"} THEN call[r].reply ELSE None]

(* However many calls are made under a key, at once, after one another or  *)
(* after one that was cut off, they insert one intent between them, and    *)
(* a call answered with an intent is answered with that one.               *)
Promise == INSTANCE OncePerKey WITH
    Calls <- Requests, Effects <- Requests,
    key <- KeyOf, effect <- EffectOf, answer <- AnswerOf

KeepsPromise == Promise!Spec

(* At most one of the calls under k has the right to insert, or has used   *)
(* it.                                                                     *)
Holds(r, k) ==
    call[r].key = k /\ (call[r].pc \in {"insert", "complete"} \/ rows[r] # None)

OneHolderPerKey ==
    \A k \in Keys : \A r, s \in Requests : Holds(r, k) /\ Holds(s, k) => r = s

HoldersMatchKeys ==
    \A k \in Keys : \A r \in Requests : Holds(r, k) =>
        keys[k].status # "absent" /\ keys[k].body = call[r].body

RowsWellFormed ==
    \A r \in Requests :
        /\ call[r].pc = "idle" => call[r].key = None
        /\ call[r].pc # "idle" => call[r].body \in Bodies
        /\ rows[r] # None => rows[r] = call[r].body
                             /\ call[r].pc \in {"complete", "created", "error"}
        /\ call[r].pc \in {"complete", "created"} => call[r].reply = r /\ rows[r] # None
        /\ call[r].pc \in {"reserve", "get", "find", "complete", "replayed"} =>
             call[r].key \in Keys
        /\ call[r].pc = "get" => keys[call[r].key].status # "absent"
        /\ call[r].pc \in {"find", "replayed"} =>
             /\ call[r].reply \in IntentsOf(call[r].key)
             /\ rows[call[r].reply] = call[r].body

CompletedKeysPoint ==
    \A k \in Keys : keys[k].status = "completed" =>
        keys[k].intent \in IntentsOf(k) /\ rows[keys[k].intent] = keys[k].body

(* The inductive invariant.                                                *)
CreationInv ==
    CreationTypeOK /\ OneHolderPerKey /\ HoldersMatchKeys /\ RowsWellFormed /\ CompletedKeysPoint

(* However many calls are made under a key, one intent is inserted.        *)
OneIntentPerKey == \A k \in Keys : \A r, s \in IntentsOf(k) : r = s

(* Whatever is answered is stored and is what the call asked for, whoever  *)
(* inserted it.                                                            *)
AnswersAreAsked ==
    \A r \in Requests : call[r].pc \in {"created", "replayed"} =>
        rows[call[r].reply] = call[r].body
=============================================================================
