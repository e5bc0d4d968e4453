------------------------ MODULE IntentCreationProofs ------------------------
(***************************************************************************)
(* IntentCreation keeps its promise for any number of calls, keys and      *)
(* bodies: CreationInv is inductive, and every step of the detailed        *)
(* specification is a step of OncePerKey or leaves its variables alone.    *)
(***************************************************************************)
EXTENDS IntentCreation, TLAPS

(* A call moves on without touching a table, and without gaining the right *)
(* to insert: what the others hold, and what the keys point at, stands.    *)
LEMMA CallMoves ==
    ASSUME CreationAssumption, CreationInv,
           NEW r \in Requests, NEW c \in Call,
           UNCHANGED <<keys, rows>>, call' = [call EXCEPT ![r] = c],
           c.key = call[r].key, c.body = call[r].body, call[r].pc # "idle",
           c.pc \notin {"idle", "reserve", "insert", "complete", "created"},
           rows[r] # None => c.pc = "error",
           c.pc \in {"get", "find", "replayed"} => c.key \in Keys,
           c.pc = "get" => keys[c.key].status # "absent",
           c.pc \in {"find", "replayed"} =>
              c.reply \in IntentsOf(c.key) /\ rows[c.reply] = c.body
    PROVE  CreationInv'
<1>1. \A s \in Requests : call'[s] = IF s = r THEN c ELSE call[s]
  BY DEF CreationInv, CreationTypeOK
<1>2. \A s \in Requests : call'[s].key = call[s].key /\ call'[s].body = call[s].body
  BY <1>1
<1>3. \A s \in Requests, k \in Keys : Holds(s, k)' => Holds(s, k)
  BY <1>1, <1>2 DEF Holds
<1>4. \A k : IntentsOf(k)' = IntentsOf(k)
  BY <1>2 DEF IntentsOf
<1>5. CreationTypeOK'
  BY DEF CreationInv, CreationTypeOK
<1>6. OneHolderPerKey' /\ HoldersMatchKeys'
  BY <1>2, <1>3 DEF CreationInv, OneHolderPerKey, HoldersMatchKeys
<1>7. RowsWellFormed'
  BY <1>1, <1>4 DEF CreationInv, RowsWellFormed
<1>8. CompletedKeysPoint'
  BY <1>4 DEF CreationInv, CompletedKeysPoint
<1> QED
  BY <1>5, <1>6, <1>7, <1>8 DEF CreationInv

LEMMA CreationStarts == CreationAssumption /\ CreationInit => CreationInv
<1> SUFFICES ASSUME CreationAssumption, CreationInit PROVE CreationInv
  OBVIOUS
<1> USE DEF CreationInit
<1>1. CreationTypeOK
  BY DEF CreationTypeOK, NoKeyRow, CallIdle, KeyRow, KeyStatuses, Call, Refusals
<1>2. \A r \in Requests, k \in Keys : ~Holds(r, k)
  BY DEF CreationAssumption, Holds, CallIdle
<1>3. OneHolderPerKey /\ HoldersMatchKeys
  BY <1>2 DEF OneHolderPerKey, HoldersMatchKeys
<1>4. RowsWellFormed
  BY DEF RowsWellFormed, CallIdle
<1>5. CompletedKeysPoint
  BY DEF CompletedKeysPoint, NoKeyRow
<1> QED
  BY <1>1, <1>3, <1>4, <1>5 DEF CreationInv

(* A call begins: it holds nothing yet.                                    *)
LEMMA StartKeeps ==
    ASSUME CreationAssumption, CreationInv, NEW r \in Requests,
           NEW k \in Keys \cup {None}, NEW body \in Bodies, StartCreate(r, k, body)
    PROVE  CreationInv'
<1> DEFINE c == [pc |-> IF k = None THEN "insert" ELSE "reserve",
                 key |-> k, body |-> body, reply |-> None]
<1>1. c \in Call
  BY DEF Call
<1>2. \A s \in Requests : call'[s] = IF s = r THEN c ELSE call[s]
  BY DEF StartCreate, CreationInv, CreationTypeOK
<1>3. UNCHANGED <<keys, rows>> /\ rows[r] = None /\ call[r].pc = "idle" /\ call[r].key = None
  BY DEF StartCreate, CreationInv, RowsWellFormed
<1>4. \A s \in Requests, j \in Keys : Holds(s, j)' => s # r /\ Holds(s, j)
  BY <1>2, <1>3 DEF Holds, CreationAssumption
<1>5. \A j \in Keys : IntentsOf(j)' = IntentsOf(j)
  BY <1>2, <1>3 DEF IntentsOf
<1>6. CreationTypeOK'
  BY <1>1 DEF StartCreate, CreationInv, CreationTypeOK
<1>7. OneHolderPerKey' /\ HoldersMatchKeys'
  BY <1>2, <1>3, <1>4 DEF CreationInv, OneHolderPerKey, HoldersMatchKeys
<1>8. RowsWellFormed'
  BY <1>2, <1>3, <1>5 DEF CreationInv, RowsWellFormed
<1>9. CompletedKeysPoint'
  BY <1>3, <1>5 DEF CreationInv, CompletedKeysPoint
<1> QED
  BY <1>6, <1>7, <1>8, <1>9 DEF CreationInv

(* A key nobody has is reserved: nobody held it, so its call is the one.   *)
LEMMA ReserveKeeps ==
    ASSUME CreationAssumption, CreationInv, NEW r \in Requests, ReserveKey(r)
    PROVE  CreationInv'
<1> DEFINE k == call[r].key
<1>1. k \in Keys /\ call[r].body \in Bodies /\ call[r] \in Call /\ rows[r] = None
  BY DEF ReserveKey, CreationInv, CreationTypeOK, RowsWellFormed
<1>2. CASE keys[k].status # "absent"
  <2> DEFINE c == [call[r] EXCEPT !.pc = "get"]
  <2>1. c \in Call /\ c.pc = "get" /\ c.key = k /\ c.body = call[r].body
    BY <1>1 DEF Call
  <2>2. call' = [call EXCEPT ![r] = c] /\ UNCHANGED <<keys, rows>> /\ call[r].pc = "reserve"
    BY <1>2 DEF ReserveKey, Go
  <2> HIDE DEF c
  <2> QED
    BY <1>1, <1>2, <2>1, <2>2, CallMoves
<1>3. CASE keys[k].status = "absent"
  <2> DEFINE c == [call[r] EXCEPT !.pc = "insert"]
             row == [status |-> "processing", body |-> call[r].body, intent |-> None]
  <2>1. c \in Call /\ c.pc = "insert" /\ c.key = k /\ c.body = call[r].body
    BY <1>1 DEF Call
  <2>2. row \in KeyRow /\ row.status = "processing" /\ row.body = call[r].body
    BY <1>1 DEF KeyRow, KeyStatuses
  <2>3. call' = [call EXCEPT ![r] = c] /\ keys' = [keys EXCEPT ![k] = row] /\ rows' = rows
    BY <1>3 DEF ReserveKey, Go
  <2> HIDE DEF c, row
  <2>4. \A s \in Requests : call'[s] = IF s = r THEN c ELSE call[s]
    BY <2>3 DEF CreationInv, CreationTypeOK
  <2>5. \A j \in Keys : keys'[j] = IF j = k THEN row ELSE keys[j]
    BY <2>3 DEF CreationInv, CreationTypeOK
  <2>6. \A s \in Requests : ~Holds(s, k)
    BY <1>1, <1>3 DEF CreationInv, HoldersMatchKeys
  <2>7. \A s \in Requests, j \in Keys :
          Holds(s, j)' => (s = r /\ j = k) \/ (j # k /\ Holds(s, j) /\ s # r)
    BY <1>1, <2>1, <2>3, <2>4, <2>6 DEF Holds
  <2>8. \A j : IntentsOf(j)' = IntentsOf(j)
    BY <2>1, <2>3, <2>4 DEF IntentsOf
  <2>9. CreationTypeOK'
    BY <2>1, <2>2, <2>3 DEF CreationInv, CreationTypeOK
  <2>10. OneHolderPerKey'
    BY <2>7 DEF CreationInv, OneHolderPerKey
  <2>11. HoldersMatchKeys'
    BY <2>1, <2>2, <2>4, <2>5, <2>7 DEF CreationInv, HoldersMatchKeys
  <2>12. RowsWellFormed'
    BY <1>1, <2>1, <2>2, <2>3, <2>4, <2>5, <2>8 DEF CreationInv, RowsWellFormed
  <2>13. CompletedKeysPoint'
    BY <2>2, <2>3, <2>5, <2>8 DEF CreationInv, CompletedKeysPoint
  <2> QED
    BY <2>9, <2>10, <2>11, <2>12, <2>13 DEF CreationInv
<1> QED
  BY <1>2, <1>3

(* A key that is taken is answered from its row; a completed one names an  *)
(* intent of the same key and body.                                        *)
LEMMA GetKeeps ==
    ASSUME CreationAssumption, CreationInv, NEW r \in Requests, GetKey(r)
    PROVE  CreationInv'
<1> DEFINE k == call[r].key
           verdict == Verdict(k, call[r].body)
           c == [call[r] EXCEPT !.pc = verdict, !.reply = keys[k].intent]
<1>1. /\ k \in Keys /\ call[r] \in Call /\ call[r].pc = "get" /\ rows[r] = None
      /\ keys[k] \in KeyRow /\ keys[k].status # "absent"
  BY DEF GetKey, CreationInv, CreationTypeOK, RowsWellFormed
<1>2. verdict \in {"conflict", "in_progress", "previously_failed", "find"}
  BY <1>1 DEF Verdict, KeyRow, KeyStatuses
<1>3. verdict = "find" => keys[k].status = "completed" /\ keys[k].body = call[r].body
  BY <1>1 DEF Verdict, KeyRow, KeyStatuses
<1>4. call' = [call EXCEPT ![r] = c] /\ UNCHANGED <<keys, rows>>
  BY DEF GetKey
<1> HIDE DEF verdict
<1>5. /\ c \in Call /\ c.pc = verdict /\ c.key = k /\ c.body = call[r].body
      /\ c.reply = keys[k].intent
  BY <1>1, <1>2 DEF Call, KeyRow, Refusals
<1>6. verdict = "find" => c.reply \in IntentsOf(k) /\ rows[c.reply] = c.body
  BY <1>1, <1>3, <1>5 DEF CreationInv, CompletedKeysPoint
<1> HIDE DEF c
<1> QED
  BY <1>1, <1>2, <1>4, <1>5, <1>6, CallMoves

(* The intent of a completed key is there: nothing is inserted again.      *)
LEMMA FindKeeps ==
    ASSUME CreationAssumption, CreationInv, NEW r \in Requests, FindIntent(r)
    PROVE  CreationInv'
<1> DEFINE c == [call[r] EXCEPT !.pc = "replayed"]
<1>1. /\ call[r] \in Call /\ call[r].pc = "find" /\ call[r].key \in Keys /\ rows[r] = None
      /\ call[r].reply \in IntentsOf(call[r].key) /\ rows[call[r].reply] = call[r].body
  BY DEF FindIntent, CreationInv, CreationTypeOK, RowsWellFormed
<1>2. rows[call[r].reply] # None
  BY <1>1 DEF IntentsOf
<1>3. call' = [call EXCEPT ![r] = c] /\ UNCHANGED <<keys, rows>>
  BY <1>2 DEF FindIntent, Go
<1>4. /\ c \in Call /\ c.pc = "replayed" /\ c.key = call[r].key /\ c.body = call[r].body
      /\ c.reply = call[r].reply
  BY <1>1 DEF Call
<1> HIDE DEF c
<1> QED
  BY <1>1, <1>3, <1>4, CallMoves

(* The call that holds its key inserts, unless the payable is taken.       *)
LEMMA InsertKeeps ==
    ASSUME CreationAssumption, CreationInv, NEW r \in Requests, InsertIntent(r)
    PROVE  CreationInv'
<1>1. /\ call[r] \in Call /\ call[r].pc = "insert" /\ rows[r] = None
      /\ call[r].body \in Bodies /\ call[r].key \in Keys \cup {None}
  BY DEF InsertIntent, CreationInv, CreationTypeOK, RowsWellFormed, Call
<1>2. CASE Taken(call[r].body)
  <2> DEFINE c == [call[r] EXCEPT !.pc = "error"]
  <2>1. call' = [call EXCEPT ![r] = c] /\ UNCHANGED <<keys, rows>>
    BY <1>2 DEF InsertIntent, Go
  <2>2. c \in Call /\ c.pc = "error" /\ c.key = call[r].key /\ c.body = call[r].body
    BY <1>1 DEF Call
  <2> HIDE DEF c
  <2> QED
    BY <1>1, <2>1, <2>2, CallMoves
<1>3. CASE ~Taken(call[r].body)
  <2> DEFINE c == [call[r] EXCEPT !.reply = r,
                     !.pc = IF call[r].key = None THEN "created" ELSE "complete"]
  <2>1. /\ call' = [call EXCEPT ![r] = c] /\ rows' = [rows EXCEPT ![r] = call[r].body]
        /\ keys' = keys
    BY <1>3 DEF InsertIntent
  <2>2. /\ c \in Call /\ c.key = call[r].key /\ c.body = call[r].body /\ c.reply = r
        /\ c.pc \in {"created", "complete"} /\ (c.pc = "complete" => call[r].key \in Keys)
    BY <1>1 DEF Call
  <2> HIDE DEF c
  <2>3. \A s \in Requests : /\ call'[s] = IF s = r THEN c ELSE call[s]
                            /\ rows'[s] = IF s = r THEN call[r].body ELSE rows[s]
    BY <2>1 DEF CreationInv, CreationTypeOK
  <2>4. \A s \in Requests, j \in Keys : Holds(s, j)' => Holds(s, j)
    BY <1>1, <2>2, <2>3 DEF Holds
  <2>5. \A j : IntentsOf(j) \subseteq IntentsOf(j)'
    BY <1>1, <2>2, <2>3 DEF IntentsOf
  <2>6. \A j : \A s \in IntentsOf(j) : rows'[s] = rows[s]
    BY <1>1, <2>3 DEF IntentsOf
  <2>7. CreationTypeOK'
    BY <1>1, <2>1, <2>2 DEF CreationInv, CreationTypeOK
  <2>8. OneHolderPerKey' /\ HoldersMatchKeys'
    BY <2>1, <2>2, <2>3, <2>4 DEF CreationInv, OneHolderPerKey, HoldersMatchKeys
  <2>9. RowsWellFormed'
    BY <1>1, <2>1, <2>2, <2>3, <2>5, <2>6
       DEF CreationInv, RowsWellFormed, CreationAssumption, Bodies
  <2>10. CompletedKeysPoint'
    BY <2>1, <2>5, <2>6 DEF CreationInv, CompletedKeysPoint
  <2> QED
    BY <2>7, <2>8, <2>9, <2>10 DEF CreationInv
<1> QED
  BY <1>2, <1>3

(* The key is pointed at the intent of the call that holds it.             *)
LEMMA CompleteKeeps ==
    ASSUME CreationAssumption, CreationInv, NEW r \in Requests, CompleteKey(r)
    PROVE  CreationInv'
<1> DEFINE k == call[r].key
           c == [call[r] EXCEPT !.pc = "created"]
           row == [keys[k] EXCEPT !.status = "completed", !.intent = r]
<1>1. /\ call[r] \in Call /\ call[r].pc = "complete" /\ k \in Keys /\ keys[k] \in KeyRow
      /\ rows[r] # None /\ call[r].reply = r /\ rows[r] = call[r].body
  BY DEF CompleteKey, CreationInv, CreationTypeOK, RowsWellFormed
<1>2. keys[k].body = call[r].body
  BY <1>1 DEF CreationInv, HoldersMatchKeys, Holds
<1>3. call' = [call EXCEPT ![r] = c] /\ keys' = [keys EXCEPT ![k] = row] /\ rows' = rows
  BY DEF CompleteKey, Go
<1>4. /\ c \in Call /\ c.pc = "created" /\ c.key = k /\ c.body = call[r].body /\ c.reply = r
      /\ row \in KeyRow /\ row.status = "completed" /\ row.intent = r /\ row.body = call[r].body
  BY <1>1, <1>2 DEF Call, KeyRow, KeyStatuses
<1> HIDE DEF c, row
<1>5. \A s \in Requests : call'[s] = IF s = r THEN c ELSE call[s]
  BY <1>3 DEF CreationInv, CreationTypeOK
<1>6. \A j \in Keys : keys'[j] = IF j = k THEN row ELSE keys[j]
  BY <1>3 DEF CreationInv, CreationTypeOK
<1>7. \A s \in Requests, j \in Keys : Holds(s, j)' => Holds(s, j)
  BY <1>1, <1>3, <1>4, <1>5 DEF Holds
<1>8. \A j : IntentsOf(j)' = IntentsOf(j)
  BY <1>3, <1>4, <1>5 DEF IntentsOf
<1>9. r \in IntentsOf(k)
  BY <1>1 DEF IntentsOf
<1>10. CreationTypeOK'
  BY <1>3, <1>4 DEF CreationInv, CreationTypeOK
<1>11. OneHolderPerKey'
  BY <1>7 DEF CreationInv, OneHolderPerKey
<1>12. HoldersMatchKeys'
  BY <1>2, <1>4, <1>5, <1>6, <1>7 DEF CreationInv, HoldersMatchKeys
<1>13. RowsWellFormed'
  BY <1>1, <1>3, <1>4, <1>5, <1>6, <1>8 DEF CreationInv, RowsWellFormed
<1>14. CompletedKeysPoint'
  BY <1>1, <1>3, <1>4, <1>6, <1>8, <1>9 DEF CreationInv, CompletedKeysPoint
<1> QED
  BY <1>10, <1>11, <1>12, <1>13, <1>14 DEF CreationInv

LEMMA AbortKeeps ==
    ASSUME CreationAssumption, CreationInv, NEW r \in Requests, AbortCreate(r)
    PROVE  CreationInv'
<1> DEFINE c == [call[r] EXCEPT !.pc = "error"]
<1>1. call[r] \in Call /\ call[r].pc # "idle"
  BY DEF AbortCreate, CreationInv, CreationTypeOK
<1>2. call' = [call EXCEPT ![r] = c] /\ UNCHANGED <<keys, rows>>
  BY DEF AbortCreate, Go
<1>3. c \in Call /\ c.pc = "error" /\ c.key = call[r].key /\ c.body = call[r].body
  BY <1>1 DEF Call
<1> HIDE DEF c
<1> QED
  BY <1>1, <1>2, <1>3, CallMoves

LEMMA CreationKeeps ==
    CreationAssumption /\ CreationInv /\ [CreationNext]_creationVars => CreationInv'
<1> SUFFICES ASSUME CreationAssumption, CreationInv, [CreationNext]_creationVars
             PROVE  CreationInv'
  OBVIOUS
<1>1. CASE UNCHANGED creationVars
  BY <1>1 DEF creationVars, CreationInv, CreationTypeOK, OneHolderPerKey, HoldersMatchKeys,
              Holds, RowsWellFormed, CompletedKeysPoint, IntentsOf
<1>2. CASE CreationNext
  <2>1. PICK r \in Requests :
          \/ \E k \in Keys \cup {None}, body \in Bodies : StartCreate(r, k, body)
          \/ ReserveKey(r) \/ GetKey(r) \/ FindIntent(r) \/ InsertIntent(r) \/ CompleteKey(r)
          \/ AbortCreate(r)
    BY <1>2 DEF CreationNext
  <2> QED
    BY <2>1, StartKeeps, ReserveKeeps, GetKeeps, FindKeeps, InsertKeeps, CompleteKeeps,
       AbortKeeps
<1> QED
  BY <1>1, <1>2

(* The inductive invariant: of the calls under a key one at most may       *)
(* insert or has inserted, and the key's row agrees with it.               *)
THEOREM CreationHolds == CreationSpec => []CreationInv
<1>1. CreationInit => CreationInv
  BY CreationStarts, CreationAssumption
<1>2. CreationInv /\ [CreationNext]_creationVars => CreationInv'
  BY CreationKeeps, CreationAssumption
<1> QED
  BY <1>1, <1>2, PTL DEF CreationSpec

(* However many calls of CreatePaymentIntent are made under a key, and     *)
(* wherever they are cut off, one intent is inserted.                      *)
THEOREM KeysCreateOnce == CreationSpec => []OneIntentPerKey
<1>1. CreationInv => OneIntentPerKey
  BY DEF CreationInv, OneHolderPerKey, Holds, OneIntentPerKey, IntentsOf
<1> QED
  BY <1>1, CreationHolds, PTL

(* What CreatePaymentIntent answers is stored and is what was asked.       *)
THEOREM AnswersAreRight == CreationSpec => []AnswersAreAsked
<1>1. CreationInv => AnswersAreAsked
  BY DEF CreationInv, RowsWellFormed, AnswersAreAsked
<1> QED
  BY <1>1, CreationHolds, PTL
-----------------------------------------------------------------------------
(***************************************************************************)
(* The refinement of OncePerKey.                                           *)
(***************************************************************************)

(* The effect of a key is the one intent of its calls.                     *)
LEMMA EffectIsIntent ==
    ASSUME CreationAssumption, CreationInv, NEW k \in Keys
    PROVE  /\ \A r \in IntentsOf(k) : EffectOf[k] = r
           /\ IntentsOf(k) = {} => EffectOf[k] = None
<1>1. \A r, s \in IntentsOf(k) : r = s
  BY DEF CreationInv, OneHolderPerKey, Holds, IntentsOf
<1>2. CASE IntentsOf(k) = {}
  BY <1>2 DEF EffectOf, Only
<1>3. CASE IntentsOf(k) # {}
  <2>1. PICK r \in Requests : r \in IntentsOf(k)
    BY <1>3 DEF IntentsOf
  <2>2. EffectOf[k] = CHOOSE s \in IntentsOf(k) : TRUE
    BY <1>3 DEF EffectOf, Only
  <2>3. EffectOf[k] \in IntentsOf(k)
    BY <2>1, <2>2
  <2> QED
    BY <1>1, <1>3, <2>3
<1> QED
  BY <1>2, <1>3

(* A step that changes one call, and neither its key nor the intents of a  *)
(* key, changes the effect of none.                                        *)
LEMMA EffectStands ==
    ASSUME \A k \in Keys : IntentsOf(k)' = IntentsOf(k)
    PROVE  EffectOf' = EffectOf
BY DEF EffectOf

(* Only a call that comes to be answered changes what is answered.         *)
LEMMA AnswersStand ==
    ASSUME CreationAssumption, CreationInv, NEW r \in Requests, NEW c,
           call' = [call EXCEPT ![r] = c],
           call[r].pc \notin {"created", "replayed"},
           c.key = None \/ c.pc \notin {"created", "replayed"}
    PROVE  AnswerOf' = AnswerOf
<1>1. \A s \in Requests : call'[s] = IF s = r THEN c ELSE call[s]
  BY DEF CreationInv, CreationTypeOK
<1> QED
  BY <1>1 DEF AnswerOf

LEMMA KeysStand ==
    ASSUME CreationInv, NEW r \in Requests, NEW c,
           call' = [call EXCEPT ![r] = c], c.key = call[r].key
    PROVE  KeyOf' = KeyOf /\ (rows' = rows => EffectOf' = EffectOf)
<1>1. \A s \in Requests : call'[s] = IF s = r THEN c ELSE call[s]
  BY DEF CreationInv, CreationTypeOK
<1>2. \A s \in Requests : call'[s].key = call[s].key
  BY <1>1
<1>3. KeyOf' = KeyOf
  BY <1>2 DEF KeyOf
<1>4. rows' = rows => \A k \in Keys : IntentsOf(k)' = IntentsOf(k)
  BY <1>2 DEF IntentsOf
<1> QED
  BY <1>3, <1>4, EffectStands

(* A call is answered with its key's intent.                               *)
LEMMA AnswerRefines ==
    ASSUME CreationAssumption, CreationInv, NEW r \in Requests, NEW c,
           call' = [call EXCEPT ![r] = c], rows' = rows,
           call[r].pc \notin {"created", "replayed"}, call[r].key \in Keys,
           c.key = call[r].key, c.pc \in {"created", "replayed"},
           c.reply \in IntentsOf(call[r].key)
    PROVE  Promise!Answer(r)
<1> DEFINE k == call[r].key
<1>1. EffectOf[k] = c.reply /\ c.reply \in Requests
  BY EffectIsIntent DEF IntentsOf
<1>2. KeyOf' = KeyOf /\ EffectOf' = EffectOf
  BY KeysStand
<1>3. KeyOf[r] = k /\ AnswerOf[r] = None /\ k # None
  BY DEF KeyOf, AnswerOf, CreationAssumption
<1>4. \A s \in Requests : call'[s] = IF s = r THEN c ELSE call[s]
  BY DEF CreationInv, CreationTypeOK
<1>5. AnswerOf' = [AnswerOf EXCEPT ![r] = EffectOf[k]]
  <2>1. AnswerOf'[r] = c.reply
    BY <1>3, <1>4 DEF AnswerOf
  <2>2. \A s \in Requests : s # r => AnswerOf'[s] = AnswerOf[s]
    BY <1>4 DEF AnswerOf
  <2>3. /\ AnswerOf' = [s \in Requests |-> AnswerOf'[s]]
        /\ AnswerOf = [s \in Requests |-> AnswerOf[s]]
    BY DEF AnswerOf
  <2> HIDE DEF k
  <2> QED
    BY <1>1, <2>1, <2>2, <2>3
<1> QED
  BY <1>1, <1>2, <1>3, <1>5 DEF Promise!Answer

LEMMA StartRefines ==
    ASSUME CreationAssumption, CreationInv, NEW r \in Requests,
           NEW k \in Keys \cup {None}, NEW body \in Bodies, StartCreate(r, k, body)
    PROVE  [Promise!Next]_(Promise!vars)
<1> DEFINE c == [pc |-> IF k = None THEN "insert" ELSE "reserve",
                 key |-> k, body |-> body, reply |-> None]
<1>1. call' = [call EXCEPT ![r] = c] /\ rows' = rows /\ call[r].pc = "idle"
  BY DEF StartCreate
<1>2. call[r].key = None /\ rows[r] = None
  BY <1>1 DEF CreationInv, RowsWellFormed
<1>3. \A s \in Requests : call'[s] = IF s = r THEN c ELSE call[s]
  BY <1>1 DEF CreationInv, CreationTypeOK
<1>4. c.key = k /\ c.pc \notin {"created", "replayed"}
  OBVIOUS
<1> HIDE DEF c
<1>5. AnswerOf' = AnswerOf
  BY <1>1, <1>4, AnswersStand
<1>6. \A j \in Keys : IntentsOf(j)' = IntentsOf(j)
  BY <1>1, <1>2, <1>3 DEF IntentsOf
<1>7. EffectOf' = EffectOf
  BY <1>6, EffectStands
<1>8. KeyOf[r] = None /\ KeyOf' = [KeyOf EXCEPT ![r] = k]
  BY <1>2, <1>3, <1>4 DEF KeyOf
<1>9. CASE k = None
  <2>1. KeyOf' = KeyOf
    BY <1>2, <1>3, <1>4, <1>9 DEF KeyOf
  <2> QED
    BY <1>5, <1>7, <2>1 DEF Promise!vars
<1>10. CASE k \in Keys
  <2>1. Promise!Ask(r, k)
    BY <1>5, <1>7, <1>8 DEF Promise!Ask
  <2> QED
    BY <1>10, <2>1 DEF Promise!Next
<1> QED
  BY <1>9, <1>10

LEMMA InsertRefines ==
    ASSUME CreationAssumption, CreationInv, CreationInv', NEW r \in Requests, InsertIntent(r)
    PROVE  [Promise!Next]_(Promise!vars)
<1> DEFINE k == call[r].key
<1>1. /\ call[r].pc = "insert" /\ rows[r] = None /\ call[r] \in Call
      /\ call[r].body \in Bodies /\ k \in Keys \cup {None}
  BY DEF InsertIntent, CreationInv, CreationTypeOK, RowsWellFormed, Call
<1>2. CASE Taken(call[r].body)
  <2> DEFINE c == [call[r] EXCEPT !.pc = "error"]
  <2>1. call' = [call EXCEPT ![r] = c] /\ rows' = rows
    BY <1>2 DEF InsertIntent, Go
  <2>2. c.pc = "error" /\ c.key = k
    BY <1>1 DEF Call
  <2> HIDE DEF c
  <2> QED
    BY <1>1, <2>1, <2>2, KeysStand, AnswersStand DEF Promise!vars
<1>3. CASE ~Taken(call[r].body)
  <2> DEFINE c == [call[r] EXCEPT !.reply = r, !.pc = IF k = None THEN "created" ELSE "complete"]
  <2>1. call' = [call EXCEPT ![r] = c] /\ rows' = [rows EXCEPT ![r] = call[r].body]
    BY <1>3 DEF InsertIntent
  <2>2. c.key = k /\ (k = None \/ c.pc = "complete")
    BY <1>1 DEF Call
  <2> HIDE DEF c
  <2>3. KeyOf' = KeyOf /\ AnswerOf' = AnswerOf
    BY <1>1, <2>1, <2>2, KeysStand, AnswersStand
  <2>4. \A s \in Requests : /\ call'[s].key = call[s].key
                            /\ rows'[s] = IF s = r THEN call[r].body ELSE rows[s]
    BY <2>1, <2>2 DEF CreationInv, CreationTypeOK
  <2>5. \A j \in Keys : IntentsOf(j)' = IF j = k THEN IntentsOf(j) \cup {r} ELSE IntentsOf(j)
    BY <1>1, <2>4 DEF IntentsOf, CreationAssumption, Bodies
  <2>6. CASE k = None
    <3>1. EffectOf' = EffectOf
      BY <2>5, <2>6, EffectStands DEF CreationAssumption
    <3> QED
      BY <2>3, <3>1 DEF Promise!vars
  <2>7. CASE k \in Keys
    <3>1. IntentsOf(k) = {}
      BY <1>1, <2>7 DEF CreationInv, OneHolderPerKey, Holds, IntentsOf
    <3>2. \A j \in Keys : EffectOf[j] # r
      <4> SUFFICES ASSUME NEW j \in Keys PROVE EffectOf[j] # r
        OBVIOUS
      <4>1. r \notin IntentsOf(j)
        BY <1>1 DEF IntentsOf
      <4>2. PICK s : s \in IntentsOf(j) \/ IntentsOf(j) = {}
        OBVIOUS
      <4> QED
        BY <4>1, <4>2, EffectIsIntent DEF CreationAssumption
    <3>3. \A j \in Keys : j = k => EffectOf'[j] = r
      <4>1. \A j \in Keys : j = k => IntentsOf(j)' = {r}
        BY <2>5, <2>7, <3>1
      <4>2. Only({r}) = r
        BY DEF Only
      <4> QED
        BY <4>1, <4>2 DEF EffectOf
    <3>4. \A j \in Keys : j # k => EffectOf'[j] = EffectOf[j]
      BY <2>5 DEF EffectOf
    <3>5. EffectOf' = [EffectOf EXCEPT ![k] = r]
      BY <2>7, <3>3, <3>4 DEF EffectOf
    <3>6. KeyOf[r] = k /\ EffectOf[k] = None
      BY <2>7, <3>1 DEF KeyOf, EffectOf, Only
    <3>7. Promise!Perform(r, r)
      BY <2>3, <2>7, <3>2, <3>5, <3>6 DEF Promise!Perform
    <3> QED
      BY <3>7 DEF Promise!Next
  <2> QED
    BY <1>1, <2>6, <2>7
<1> QED
  BY <1>2, <1>3

LEMMA CreationRefines ==
    CreationAssumption /\ CreationInv /\ CreationInv' /\ [CreationNext]_creationVars
      => [Promise!Next]_(Promise!vars)
<1>0. UNCHANGED creationVars => UNCHANGED Promise!vars
  <2> SUFFICES ASSUME UNCHANGED creationVars PROVE UNCHANGED Promise!vars
    OBVIOUS
  <2>1. \A k \in Keys : IntentsOf(k)' = IntentsOf(k)
    BY DEF creationVars, IntentsOf
  <2>2. KeyOf' = KeyOf /\ AnswerOf' = AnswerOf
    BY DEF creationVars, KeyOf, AnswerOf
  <2> QED
    BY <2>1, <2>2, EffectStands DEF Promise!vars
<1> SUFFICES ASSUME CreationAssumption, CreationInv, CreationInv', CreationNext
             PROVE  [Promise!Next]_(Promise!vars)
  BY <1>0
<1>1. PICK r \in Requests :
        \/ \E k \in Keys \cup {None}, body \in Bodies : StartCreate(r, k, body)
        \/ ReserveKey(r) \/ GetKey(r) \/ FindIntent(r) \/ InsertIntent(r) \/ CompleteKey(r)
        \/ AbortCreate(r)
  BY DEF CreationNext
<1>2. call[r] \in Call
  BY DEF CreationInv, CreationTypeOK
<1>3. ASSUME NEW c, call' = [call EXCEPT ![r] = c], rows' = rows, c.key = call[r].key,
             call[r].pc \notin {"created", "replayed"}, c.pc \notin {"created", "replayed"}
      PROVE  UNCHANGED Promise!vars
  BY <1>3, KeysStand, AnswersStand DEF Promise!vars
<1>4. CASE \E k \in Keys \cup {None}, body \in Bodies : StartCreate(r, k, body)
  BY <1>4, StartRefines
<1>5. CASE InsertIntent(r)
  BY <1>5, InsertRefines
<1>6. CASE ReserveKey(r)
  <2>1. PICK step \in {"get", "insert"} : call' = [call EXCEPT ![r] = [call[r] EXCEPT !.pc = step]]
    BY <1>6 DEF ReserveKey, Go
  <2> DEFINE c == [call[r] EXCEPT !.pc = step]
  <2>2. c.key = call[r].key /\ c.pc = step
    BY <1>2 DEF Call
  <2>3. rows' = rows /\ call[r].pc = "reserve"
    BY <1>6 DEF ReserveKey
  <2> HIDE DEF c
  <2> QED
    BY <1>3, <2>1, <2>2, <2>3 DEF c
<1>7. CASE GetKey(r)
  <2> DEFINE k == call[r].key
             verdict == Verdict(k, call[r].body)
             c == [call[r] EXCEPT !.pc = verdict, !.reply = keys[k].intent]
  <2>1. k \in Keys /\ keys[k] \in KeyRow /\ keys[k].status # "absent"
    BY <1>7 DEF GetKey, CreationInv, CreationTypeOK, RowsWellFormed
  <2>2. verdict \notin {"created", "replayed"}
    BY <2>1 DEF Verdict, KeyRow, KeyStatuses
  <2>3. call' = [call EXCEPT ![r] = c] /\ rows' = rows /\ call[r].pc = "get"
    BY <1>7 DEF GetKey
  <2> HIDE DEF verdict
  <2>4. c.key = call[r].key /\ c.pc = verdict
    BY <1>2 DEF Call
  <2> HIDE DEF c
  <2> QED
    BY <1>3, <2>2, <2>3, <2>4
<1>8. CASE FindIntent(r)
  <2> DEFINE c == [call[r] EXCEPT !.pc = "replayed"]
  <2>1. /\ call[r].key \in Keys /\ call[r].pc = "find"
        /\ call[r].reply \in IntentsOf(call[r].key)
    BY <1>8 DEF FindIntent, CreationInv, RowsWellFormed
  <2>2. rows[call[r].reply] # None
    BY <2>1 DEF IntentsOf
  <2>3. call' = [call EXCEPT ![r] = c] /\ rows' = rows
    BY <1>8, <2>2 DEF FindIntent, Go
  <2>4. c.key = call[r].key /\ c.pc = "replayed" /\ c.reply = call[r].reply
    BY <1>2 DEF Call
  <2> HIDE DEF c
  <2>5. Promise!Answer(r)
    BY <2>1, <2>3, <2>4, AnswerRefines
  <2> QED
    BY <2>5 DEF Promise!Next
<1>9. CASE CompleteKey(r)
  <2> DEFINE c == [call[r] EXCEPT !.pc = "created"]
  <2>1. /\ call[r].key \in Keys /\ call[r].pc = "complete"
        /\ call[r].reply = r /\ rows[r] # None
    BY <1>9 DEF CompleteKey, CreationInv, RowsWellFormed
  <2>2. r \in IntentsOf(call[r].key)
    BY <2>1 DEF IntentsOf
  <2>3. call' = [call EXCEPT ![r] = c] /\ rows' = rows
    BY <1>9 DEF CompleteKey, Go
  <2>4. c.key = call[r].key /\ c.pc = "created" /\ c.reply = r
    BY <1>2, <2>1 DEF Call
  <2> HIDE DEF c
  <2>5. Promise!Answer(r)
    BY <2>1, <2>2, <2>3, <2>4, AnswerRefines
  <2> QED
    BY <2>5 DEF Promise!Next
<1>10. CASE AbortCreate(r)
  <2> DEFINE c == [call[r] EXCEPT !.pc = "error"]
  <2>1. /\ call' = [call EXCEPT ![r] = c] /\ rows' = rows
        /\ call[r].pc \notin {"created", "replayed"}
    BY <1>10 DEF AbortCreate, Go
  <2>2. c.key = call[r].key /\ c.pc = "error"
    BY <1>2 DEF Call
  <2> HIDE DEF c
  <2> QED
    BY <1>3, <2>1, <2>2
<1> QED
  BY <1>1, <1>4, <1>5, <1>6, <1>7, <1>8, <1>9, <1>10

(* CreatePaymentIntent keeps the promise of an idempotency key: each of    *)
(* its steps asks, performs the key's one effect, answers with it, or      *)
(* leaves all three alone.                                                 *)
THEOREM PromiseIsKept == CreationSpec => KeepsPromise
<1>1. CreationInit => Promise!Init
  <2> SUFFICES ASSUME CreationInit PROVE Promise!Init
    OBVIOUS
  <2>1. \A k \in Keys : IntentsOf(k) = {}
    BY DEF CreationInit, IntentsOf
  <2> QED
    BY <2>1 DEF CreationInit, Promise!Init, KeyOf, EffectOf, Only, AnswerOf, CallIdle
<1>2. CreationInv /\ CreationInv' /\ [CreationNext]_creationVars => [Promise!Next]_(Promise!vars)
  BY CreationRefines, CreationAssumption
<1> QED
  BY <1>1, <1>2, CreationHolds, PTL DEF CreationSpec, KeepsPromise, Promise!Spec
=============================================================================
