--------------------------- MODULE DeliveryProofs ---------------------------
(***************************************************************************)
(* MerchantDelivery's bounds hold for any number of workers, emitters,     *)
(* replays, events and endpoints, and for any maximum of attempts: the     *)
(* bookkeeping of tokens (DeliveryInv) is inductive.                       *)
(***************************************************************************)
EXTENDS MerchantDelivery, FiniteSetTheorems, TLAPS

One(b) == IF b THEN 1 ELSE 0

LEMMA CountWithout ==
    ASSUME DeliveryAssumption, NEW S \in SUBSET Workers, NEW w
    PROVE  /\ Cardinality(S \ {w}) \in Nat
           /\ Cardinality(S) = Cardinality(S \ {w}) + One(w \in S)
<1>1. IsFiniteSet(S)
  BY FS_Subset DEF DeliveryAssumption
<1>2. IsFiniteSet(S \ {w}) /\ Cardinality(S) \in Nat
  BY <1>1, FS_RemoveElement, FS_CardinalityType
<1>3. Cardinality(S \ {w}) \in Nat
  BY <1>2, FS_CardinalityType
<1> QED
  BY <1>1, <1>2, <1>3, FS_RemoveElement DEF One

(* What one worker adds to the counts of a delivery.                       *)
Awaiting(w, d) == IF Awaits(w, d) THEN 1 ELSE 0
Retrying(w, d) == IF working[w].held[d] \in 1 .. MaxAttempts - 1 THEN 1 ELSE 0

(* One worker moves: the counts change by what it adds itself.             *)
LEMMA OneWorkerCounts ==
    ASSUME DeliveryAssumption, NEW w \in Workers, NEW d \in Deliveries,
           \A v \in Workers : v # w => working'[v] = working[v]
    PROVE  \E u, m \in Nat :
             /\ Cardinality(Unanswered(d)) = u + Awaiting(w, d)
             /\ Cardinality(Unanswered(d))' = u + Awaiting(w, d)'
             /\ Cardinality(MayRetry(d)) = m + Retrying(w, d)
             /\ Cardinality(MayRetry(d))' = m + Retrying(w, d)'
<1>1. Unanswered(d) \ {w} = Unanswered(d)' \ {w}
  BY DEF Unanswered, Awaits
<1>2. MayRetry(d) \ {w} = MayRetry(d)' \ {w}
  BY DEF MayRetry
<1>3. /\ Unanswered(d) \in SUBSET Workers /\ Unanswered(d)' \in SUBSET Workers
      /\ MayRetry(d) \in SUBSET Workers /\ MayRetry(d)' \in SUBSET Workers
  BY DEF Unanswered, MayRetry
<1>4. /\ One(w \in Unanswered(d)) = Awaiting(w, d)
      /\ One(w \in Unanswered(d)') = Awaiting(w, d)'
  BY DEF One, Unanswered, Awaiting
<1>5. /\ One(w \in MayRetry(d)) = Retrying(w, d)
      /\ One(w \in MayRetry(d)') = Retrying(w, d)'
  BY DEF One, MayRetry, Retrying
<1> DEFINE u == Cardinality(Unanswered(d) \ {w})
           m == Cardinality(MayRetry(d) \ {w})
<1>6. u \in Nat /\ Cardinality(Unanswered(d)) = u + Awaiting(w, d)
  BY <1>3, <1>4, CountWithout
<1>7. Cardinality(Unanswered(d)') = Cardinality(Unanswered(d)' \ {w}) + Awaiting(w, d)'
  BY <1>3, <1>4, CountWithout
<1>8. m \in Nat /\ Cardinality(MayRetry(d)) = m + Retrying(w, d)
  BY <1>3, <1>5, CountWithout
<1>9. Cardinality(MayRetry(d)') = Cardinality(MayRetry(d)' \ {w}) + Retrying(w, d)'
  BY <1>3, <1>5, CountWithout
<1> QED
  BY <1>1, <1>2, <1>6, <1>7, <1>8, <1>9

LEMMA CountsAreNumbers ==
    ASSUME DeliveryAssumption, NEW d \in Deliveries
    PROVE  Cardinality(Unanswered(d)) \in Nat /\ Cardinality(MayRetry(d)) \in Nat
<1>1. Unanswered(d) \in SUBSET Workers /\ MayRetry(d) \in SUBSET Workers
  BY DEF Unanswered, MayRetry
<1>2. IsFiniteSet(Unanswered(d)) /\ IsFiniteSet(MayRetry(d))
  BY <1>1, FS_Subset DEF DeliveryAssumption
<1> QED
  BY <1>2, FS_CardinalityType

(* Nothing the bookkeeping looks at changes.                               *)
LEMMA QuietStep ==
    ASSUME DeliveryAssumption, DeliveryInv, UNCHANGED <<deliveries, working, handled, unheard, requeues>>
    PROVE  WorkersWellFormed' /\ RowsWellFormed' /\ TokensBounded'
<1>1. WorkersWellFormed'
  BY DEF DeliveryInv, WorkersWellFormed
<1>2. RowsWellFormed'
  BY DEF DeliveryInv, RowsWellFormed
<1>3. \A d \in Deliveries : Unanswered(d)' = Unanswered(d) /\ MayRetry(d)' = MayRetry(d)
  BY DEF Unanswered, Awaits, MayRetry
<1>4. \A d \in Deliveries : Waiting(d)' = Waiting(d)
  BY DEF Waiting
<1>5. TokensBounded'
  BY <1>3, <1>4 DEF DeliveryInv, TokensBounded, TokensOf
<1> QED
  BY <1>1, <1>2, <1>5

LEMMA DeliveryStarts == DeliveryAssumption /\ Init => DeliveryInv
<1> SUFFICES ASSUME DeliveryAssumption, Init PROVE DeliveryInv
  OBVIOUS
<1> USE DEF Init
<1>1. DeliveryTypeOK
  BY DEF DeliveryTypeOK, EndpointRow, DeliveryRow, DeliveryStatuses, EmitCall, WorkerRun,
         ReplayCall, EmitIdle, WorkerIdle, ReplayIdle
<1>2. CallsWellFormed
  BY DEF CallsWellFormed, EmitIdle, ReplayIdle
<1>3. WorkersWellFormed /\ RowsWellFormed
  BY DEF WorkersWellFormed, RowsWellFormed, WorkerIdle
<1>4. TokensBounded
  <2> SUFFICES ASSUME NEW d \in Deliveries PROVE TokensOf(d)
    BY DEF TokensBounded
  <2>1. Unanswered(d) = {} /\ MayRetry(d) = {}
    BY DEF Unanswered, Awaits, MayRetry, WorkerIdle, DeliveryAssumption
  <2> QED
    BY <2>1, FS_EmptySet DEF TokensOf, Waiting, DeliveryAssumption
<1> QED
  BY <1>1, <1>2, <1>3, <1>4 DEF DeliveryInv

-----------------------------------------------------------------------------
(* Steps that leave the deliveries, the workers and what was counted.      *)
LEMMA ManageKeeps ==
    ASSUME DeliveryAssumption, DeliveryInv, ManageEndpoints
    PROVE  DeliveryInv'
<1>1. UNCHANGED <<events, deliveries, calls, history>>
  BY DEF ManageEndpoints, CreateEndpoint, DisableEndpoint, RotateSecret
<1>2. UNCHANGED <<events, deliveries, emitting, working, replaying, listed, cut, handled,
                  unheard, requeues, died>>
  BY <1>1 DEF calls, history
<1>3. endpoints' \in [Endpoints -> EndpointRow]
  <2>1. endpoints \in [Endpoints -> EndpointRow]
    BY DEF DeliveryInv, DeliveryTypeOK
  <2>2. ASSUME NEW e \in Endpoints, NEW wanted \in SUBSET Notices, NEW s \in Secrets,
               CreateEndpoint(e, wanted, s)
        PROVE  endpoints' \in [Endpoints -> EndpointRow]
    BY <2>1, <2>2 DEF CreateEndpoint, Subscription, EndpointRow
  <2>3. ASSUME NEW e \in Endpoints, DisableEndpoint(e)
        PROVE  endpoints' \in [Endpoints -> EndpointRow]
    BY <2>1, <2>3 DEF DisableEndpoint, EndpointRow
  <2>4. ASSUME NEW e \in Endpoints, NEW s \in Secrets, RotateSecret(e, s)
        PROVE  endpoints' \in [Endpoints -> EndpointRow]
    BY <2>1, <2>4 DEF RotateSecret, EndpointRow
  <2> QED
    BY <2>2, <2>3, <2>4 DEF ManageEndpoints
<1>4. DeliveryTypeOK' /\ CallsWellFormed'
  BY <1>2, <1>3 DEF DeliveryInv, DeliveryTypeOK, CallsWellFormed
<1> QED
  BY <1>2, <1>4, QuietStep DEF DeliveryInv

LEMMA EmitterMoves ==
    ASSUME DeliveryAssumption, DeliveryInv, NEW m \in Emitters, NEW c \in EmitCall,
           emitting' = [emitting EXCEPT ![m] = c],
           c.pc # "idle" => c.notice \in Notices,
           c.pc = "create" => c.at \in Endpoints,
           UNCHANGED <<endpoints, deliveries, working, replaying, handled, unheard, requeues,
                       died>>,
           events' \subseteq Notices, listed' \in [Notices -> SUBSET Endpoints], cut' \subseteq Notices
    PROVE  DeliveryInv'
<1>1. \A o \in Emitters : emitting'[o] = IF o = m THEN c ELSE emitting[o]
  BY DEF DeliveryInv, DeliveryTypeOK
<1>2. CallsWellFormed'
  BY <1>1 DEF DeliveryInv, CallsWellFormed
<1>3. DeliveryTypeOK'
  BY DEF DeliveryInv, DeliveryTypeOK
<1> QED
  BY <1>2, <1>3, QuietStep DEF DeliveryInv

LEMMA EmitQuietly ==
    ASSUME DeliveryAssumption, DeliveryInv, NEW m \in Emitters,
           \/ \E n \in Notices : StartEmit(m, n)
           \/ SelectEvent(m) \/ InsertEvent(m) \/ CheckDelivery(m) \/ FinishEmit(m)
           \/ AbortEmit(m)
    PROVE  DeliveryInv'
<1>1. /\ emitting[m] \in EmitCall /\ emitting \in [Emitters -> EmitCall]
      /\ events \subseteq Notices /\ listed \in [Notices -> SUBSET Endpoints] /\ cut \subseteq Notices
      /\ emitting[m].pc # "idle" => emitting[m].notice \in Notices
  BY DEF DeliveryInv, DeliveryTypeOK, CallsWellFormed
<1>2. EmitIdle \in EmitCall /\ EmitIdle.pc = "idle"
  BY DEF EmitIdle, EmitCall
<1> USE DEF tables, calls, history
<1>3. ASSUME NEW n \in Notices, StartEmit(m, n) PROVE DeliveryInv'
  <2> DEFINE c == [pc |-> "select", notice |-> n, todo |-> ActiveEndpoints(n), at |-> None]
  <2>1. c \in EmitCall /\ c.pc = "select" /\ c.notice = n
    BY DEF EmitCall, ActiveEndpoints
  <2>2. emitting' = [emitting EXCEPT ![m] = c]
    BY <1>3 DEF StartEmit
  <2> HIDE DEF c
  <2> QED
    BY <1>1, <1>3, <2>1, <2>2, EmitterMoves DEF StartEmit
<1>4. CASE SelectEvent(m)
  <2> DEFINE c == [emitting[m] EXCEPT !.pc = "insert"]
  <2>1. c \in EmitCall /\ c.pc = "insert" /\ c.notice = emitting[m].notice
    BY <1>1 DEF EmitCall
  <2>2. emitting' = [emitting EXCEPT ![m] = c] \/ emitting' = [emitting EXCEPT ![m] = EmitIdle]
    BY <1>4 DEF SelectEvent, EmitTo, EmitReturns
  <2> HIDE DEF c
  <2> QED
    BY <1>1, <1>2, <1>4, <2>1, <2>2, EmitterMoves DEF SelectEvent
<1>5. CASE InsertEvent(m)
  <2> DEFINE c == [emitting[m] EXCEPT !.pc = "check"]
  <2>1. c \in EmitCall /\ c.pc = "check" /\ c.notice = emitting[m].notice
    BY <1>1 DEF EmitCall
  <2>2. emitting' = [emitting EXCEPT ![m] = c] \/ emitting' = [emitting EXCEPT ![m] = EmitIdle]
    BY <1>5 DEF InsertEvent, EmitTo, EmitReturns
  <2>3. events' \subseteq Notices /\ listed' \in [Notices -> SUBSET Endpoints]
    BY <1>1, <1>5 DEF InsertEvent, EmitCall
  <2> HIDE DEF c
  <2> QED
    BY <1>1, <1>2, <1>5, <2>1, <2>2, <2>3, EmitterMoves DEF InsertEvent
<1>6. CASE CheckDelivery(m)
  <2>1. PICK e \in emitting[m].todo :
          /\ emitting[m].pc = "check"
          /\ IF deliveries[<<emitting[m].notice, e>>].status = "absent"
             THEN emitting' = [emitting EXCEPT ![m] = [@ EXCEPT !.pc = "create", !.at = e]]
             ELSE emitting' = [emitting EXCEPT ![m].todo = @ \ {e}]
    BY <1>6 DEF CheckDelivery
  <2> DEFINE c == [emitting[m] EXCEPT !.pc = "create", !.at = e]
             f == [emitting[m] EXCEPT !.todo = @ \ {e}]
  <2>2. e \in Endpoints
    BY <1>1, <2>1 DEF EmitCall
  <2>3. c \in EmitCall /\ c.pc = "create" /\ c.notice = emitting[m].notice /\ c.at = e
    BY <1>1, <2>2 DEF EmitCall
  <2>4. f \in EmitCall /\ f.pc = emitting[m].pc /\ f.notice = emitting[m].notice
    BY <1>1 DEF EmitCall
  <2>5. UNCHANGED <<tables, working, replaying, history>>
    BY <1>6 DEF CheckDelivery
  <2>6. emitting' = [emitting EXCEPT ![m] = c] \/ emitting' = [emitting EXCEPT ![m] = f]
    <3>1. CASE deliveries[<<emitting[m].notice, e>>].status = "absent"
      BY <2>1, <3>1
    <3>2. CASE deliveries[<<emitting[m].notice, e>>].status # "absent"
      BY <2>1, <3>2
    <3> QED
      BY <3>1, <3>2
  <2> HIDE DEF c, f
  <2> QED
    BY <1>1, <2>1, <2>2, <2>3, <2>4, <2>5, <2>6, EmitterMoves
<1>7. CASE FinishEmit(m)
  BY <1>1, <1>2, <1>7, EmitterMoves DEF FinishEmit, EmitReturns
<1>8. CASE AbortEmit(m)
  BY <1>1, <1>2, <1>8, EmitterMoves DEF AbortEmit, EmitReturns
<1> QED
  BY <1>3, <1>4, <1>5, <1>6, <1>7, <1>8

LEMMA ReplayQuietly ==
    ASSUME DeliveryAssumption, DeliveryInv, NEW r \in Replays,
           (\E n \in Notices : StartReplay(r, n)) \/ AbortReplay(r)
    PROVE  DeliveryInv'
<1>1. UNCHANGED <<tables, emitting, working, history>>
  BY DEF StartReplay, AbortReplay
<1>2. PICK c \in ReplayCall : /\ replaying' = [replaying EXCEPT ![r] = c]
                              /\ c.todo # {} => c.notice \in Notices
  <2>1. ASSUME NEW n \in Notices, StartReplay(r, n)
        PROVE  \E c \in ReplayCall : /\ replaying' = [replaying EXCEPT ![r] = c]
                                     /\ c.todo # {} => c.notice \in Notices
    <3> DEFINE c == [notice |-> n, todo |-> ActiveEndpoints(n)]
    <3>1. c \in ReplayCall /\ c.notice = n
      BY DEF ReplayCall, ActiveEndpoints
    <3>2. replaying' = [replaying EXCEPT ![r] = c]
      BY <2>1 DEF StartReplay
    <3> HIDE DEF c
    <3> QED
      BY <3>1, <3>2
  <2>2. ReplayIdle \in ReplayCall /\ ReplayIdle.todo = {}
    BY DEF ReplayIdle, ReplayCall
  <2> QED
    BY <2>1, <2>2 DEF AbortReplay
<1>3. \A o \in Replays : replaying'[o] = IF o = r THEN c ELSE replaying[o]
  BY <1>2 DEF DeliveryInv, DeliveryTypeOK
<1>4. CallsWellFormed'
  BY <1>1, <1>2, <1>3 DEF DeliveryInv, CallsWellFormed
<1>5. DeliveryTypeOK'
  BY <1>1, <1>2 DEF DeliveryInv, DeliveryTypeOK, tables, history
<1> QED
  BY <1>1, <1>4, <1>5, QuietStep DEF DeliveryInv, tables, history

-----------------------------------------------------------------------------
(* Steps that change one row, and no worker.                               *)
LEMMA RowChanges ==
    ASSUME DeliveryAssumption, DeliveryInv, NEW d \in Deliveries, NEW row \in DeliveryRow,
           deliveries' = [deliveries EXCEPT ![d] = row],
           row.attempts = deliveries[d].attempts, row.status \in {"queued", "failed"},
           working' = working, handled' = handled, unheard' = unheard,
           \/ requeues' = requeues /\ deliveries[d].status \in {"absent", "queued", "failed"}
           \/ requeues' = [requeues EXCEPT ![d] = @ + 1]
    PROVE  /\ deliveries' \in [Deliveries -> DeliveryRow]
           /\ WorkersWellFormed' /\ RowsWellFormed' /\ TokensBounded'
<1>1. /\ deliveries \in [Deliveries -> DeliveryRow] /\ handled \in [Deliveries -> Nat]
      /\ unheard \in [Deliveries -> Nat] /\ requeues \in [Deliveries -> Nat]
      /\ working \in [Workers -> WorkerRun]
  BY DEF DeliveryInv, DeliveryTypeOK
<1>2. \A x \in Deliveries : deliveries'[x] = IF x = d THEN row ELSE deliveries[x]
  BY <1>1
<1>3. deliveries' \in [Deliveries -> DeliveryRow]
  BY <1>1
<1>4. WorkersWellFormed'
  BY DEF DeliveryInv, WorkersWellFormed
<1>5. RowsWellFormed'
  BY <1>2 DEF DeliveryInv, RowsWellFormed
<1>6. TokensBounded'
  <2> SUFFICES ASSUME NEW x \in Deliveries PROVE TokensOf(x)'
    BY DEF TokensBounded
  <2>1. TokensOf(x)
    BY DEF DeliveryInv, TokensBounded
  <2>2. Unanswered(x)' = Unanswered(x) /\ MayRetry(x)' = MayRetry(x)
    BY DEF Unanswered, Awaits, MayRetry
  <2>3. CASE x # d
    BY <1>1, <1>2, <2>1, <2>2, <2>3 DEF TokensOf, Waiting
  <2>4. CASE x = d
    <3>1. /\ Cardinality(Unanswered(d)) \in Nat /\ Cardinality(MayRetry(d)) \in Nat
          /\ handled[d] \in Nat /\ unheard[d] \in Nat /\ requeues[d] \in Nat
          /\ requeues'[d] \in {requeues[d], requeues[d] + 1} /\ row.attempts \in Nat
      BY <1>1, CountsAreNumbers DEF DeliveryRow
    <3>2. /\ deliveries'[d] = row /\ Waiting(d)' = 1
      BY <1>2 DEF Waiting
    <3>3. CASE deliveries[d].status = "absent"
      <4>1. handled[d] = 0 /\ row.attempts = 0 /\ \A w \in Workers : ~(working[w].held[d] > 0)
        BY <3>3 DEF DeliveryInv, RowsWellFormed
      <4>2. Unanswered(d) = {} /\ MayRetry(d) = {}
        BY <4>1 DEF Unanswered, Awaits, MayRetry, DeliveryAssumption
      <4>3. Cardinality(Unanswered(d))' = 0 /\ Cardinality(MayRetry(d))' = 0
        BY <2>2, <2>4, <4>2, FS_EmptySet
      <4> QED
        BY <2>4, <3>1, <3>2, <4>1, <4>3 DEF TokensOf, DeliveryAssumption
    <3>4. CASE deliveries[d].status \in {"queued", "failed"}
      <4>1. Waiting(d) = 1
        BY <3>4 DEF Waiting
      <4> QED
        BY <2>1, <2>2, <2>4, <3>1, <3>2, <4>1 DEF TokensOf, DeliveryAssumption
    <3>5. CASE requeues' = [requeues EXCEPT ![d] = @ + 1]
      <4>1. Waiting(d) \in {0, 1}
        BY DEF Waiting
      <4>2. requeues'[d] = requeues[d] + 1
        BY <1>1, <3>5
      <4> QED
        BY <2>1, <2>2, <2>4, <3>1, <3>2, <4>1, <4>2 DEF TokensOf, DeliveryAssumption
    <3> QED
      BY <3>3, <3>4, <3>5
  <2> QED
    BY <2>3, <2>4
<1> QED
  BY <1>3, <1>4, <1>5, <1>6

LEMMA BackoffKeeps ==
    ASSUME DeliveryAssumption, DeliveryInv, NEW d \in Deliveries, BackoffPasses(d)
    PROVE  DeliveryInv'
<1> DEFINE row == [deliveries[d] EXCEPT !.due = TRUE]
<1>1. deliveries[d] \in DeliveryRow
  BY DEF DeliveryInv, DeliveryTypeOK
<1>2. /\ row \in DeliveryRow /\ row.status = deliveries[d].status
      /\ row.attempts = deliveries[d].attempts
  BY <1>1 DEF DeliveryRow
<1>3. deliveries' = [deliveries EXCEPT ![d] = row] /\ deliveries[d].status = "failed"
  BY DEF BackoffPasses
<1> HIDE DEF row
<1>4. UNCHANGED <<endpoints, events, emitting, working, replaying, listed, cut, handled,
                  unheard, requeues, died>>
  BY DEF BackoffPasses, calls, history
<1>5. deliveries[d].status = "failed"
  BY DEF BackoffPasses
<1>6. /\ deliveries' \in [Deliveries -> DeliveryRow]
      /\ WorkersWellFormed' /\ RowsWellFormed' /\ TokensBounded'
  BY <1>2, <1>3, <1>4, <1>5, RowChanges
<1>7. DeliveryTypeOK' /\ CallsWellFormed'
  BY <1>4, <1>6 DEF DeliveryInv, DeliveryTypeOK, CallsWellFormed
<1> QED
  BY <1>6, <1>7 DEF DeliveryInv

LEMMA RequeueKeeps ==
    ASSUME DeliveryAssumption, DeliveryInv, NEW d \in Deliveries, Requeue(d)
    PROVE  DeliveryInv'
<1> DEFINE row == [deliveries[d] EXCEPT !.status = "queued", !.due = TRUE]
<1>1. deliveries[d] \in DeliveryRow
  BY DEF DeliveryInv, DeliveryTypeOK
<1>2. /\ row \in DeliveryRow /\ row.status = "queued"
      /\ row.attempts = deliveries[d].attempts
  BY <1>1 DEF DeliveryRow, DeliveryStatuses
<1>3. deliveries' = [deliveries EXCEPT ![d] = row]
  BY DEF Requeue
<1> HIDE DEF row
<1>4. UNCHANGED <<endpoints, events, emitting, working, replaying, listed, cut, handled,
                  unheard, died>>
  BY DEF Requeue, calls
<1>5. requeues' = [requeues EXCEPT ![d] = @ + 1] /\ requeues' \in [Deliveries -> Nat]
  BY DEF DeliveryInv, DeliveryTypeOK, Requeue
<1>6. /\ deliveries' \in [Deliveries -> DeliveryRow]
      /\ WorkersWellFormed' /\ RowsWellFormed' /\ TokensBounded'
  BY <1>2, <1>3, <1>4, <1>5, RowChanges
<1>7. DeliveryTypeOK' /\ CallsWellFormed'
  BY <1>4, <1>5, <1>6 DEF DeliveryInv, DeliveryTypeOK, CallsWellFormed
<1> QED
  BY <1>6, <1>7 DEF DeliveryInv

(* A new delivery: nobody has held it or accepted it.                      *)
LEMMA NewDeliveryKeeps ==
    ASSUME DeliveryAssumption, DeliveryInv, NEW d \in Deliveries,
           deliveries[d].status = "absent",
           deliveries' = [deliveries EXCEPT ![d] = NewDelivery],
           UNCHANGED <<working, handled, unheard, requeues>>
    PROVE  /\ deliveries' \in [Deliveries -> DeliveryRow]
           /\ WorkersWellFormed' /\ RowsWellFormed' /\ TokensBounded'
<1>1. /\ NewDelivery \in DeliveryRow /\ NewDelivery.status = "queued"
      /\ NewDelivery.attempts = 0
  BY DEF NewDelivery, DeliveryRow, DeliveryStatuses
<1>2. deliveries[d].attempts = 0
  BY DEF DeliveryInv, RowsWellFormed
<1> QED
  BY <1>1, <1>2, RowChanges

LEMMA CreateDeliveryKeeps ==
    ASSUME DeliveryAssumption, DeliveryInv, NEW m \in Emitters, CreateDelivery(m)
    PROVE  DeliveryInv'
<1> DEFINE n == emitting[m].notice
           e == emitting[m].at
<1>1. n \in Notices /\ e \in Endpoints /\ emitting[m] \in EmitCall /\ emitting[m].pc = "create"
  BY DEF CreateDelivery, DeliveryInv, DeliveryTypeOK, CallsWellFormed
<1>2. EmitIdle \in EmitCall /\ EmitIdle.pc = "idle"
  BY DEF EmitIdle, EmitCall
<1>3. CASE deliveries[<<n, e>>].status = "absent"
  <2> DEFINE c == [emitting[m] EXCEPT !.pc = "check", !.at = None, !.todo = @ \ {e}]
  <2>1. c \in EmitCall /\ c.pc = "check" /\ c.notice = n
    BY <1>1 DEF EmitCall
  <2>2. emitting' = [emitting EXCEPT ![m] = c]
    BY <1>3 DEF CreateDelivery
  <2> HIDE DEF c
  <2>3. \A o \in Emitters : emitting'[o] = IF o = m THEN c ELSE emitting[o]
    BY <2>2 DEF DeliveryInv, DeliveryTypeOK
  <2>4. /\ deliveries' = [deliveries EXCEPT ![<<n, e>>] = NewDelivery]
        /\ UNCHANGED <<endpoints, events, working, replaying, listed, cut, handled, unheard,
                       requeues, died>>
    BY <1>3 DEF CreateDelivery
  <2>5. <<n, e>> \in Deliveries
    BY <1>1 DEF Deliveries
  <2>6. /\ deliveries' \in [Deliveries -> DeliveryRow]
        /\ WorkersWellFormed' /\ RowsWellFormed' /\ TokensBounded'
    BY <1>3, <2>4, <2>5, NewDeliveryKeeps
  <2>7. DeliveryTypeOK'
    BY <2>1, <2>2, <2>4, <2>6 DEF DeliveryInv, DeliveryTypeOK
  <2>8. CallsWellFormed'
    BY <1>1, <2>1, <2>3, <2>4 DEF DeliveryInv, CallsWellFormed
  <2> QED
    BY <2>6, <2>7, <2>8 DEF DeliveryInv
<1>4. CASE deliveries[<<n, e>>].status # "absent"
  <2>1. /\ cut' = cut \cup {n} /\ emitting' = [emitting EXCEPT ![m] = EmitIdle]
        /\ UNCHANGED <<endpoints, events, deliveries, working, replaying, listed, handled,
                       unheard, requeues, died>>
    BY <1>4 DEF CreateDelivery, EmitReturns
  <2>2. /\ cut' \subseteq Notices /\ events' \subseteq Notices
        /\ listed' \in [Notices -> SUBSET Endpoints]
    BY <1>1, <2>1 DEF DeliveryInv, DeliveryTypeOK
  <2> QED
    BY <1>2, <2>1, <2>2, EmitterMoves
<1> QED
  BY <1>3, <1>4

LEMMA CreateReplayedKeeps ==
    ASSUME DeliveryAssumption, DeliveryInv, NEW r \in Replays, CreateReplayed(r)
    PROVE  DeliveryInv'
<1>1. PICK e \in replaying[r].todo :
        LET d == <<replaying[r].notice, e>>
        IN  /\ IF deliveries[d].status = "absent"
               THEN /\ deliveries' = [deliveries EXCEPT ![d] = NewDelivery]
                    /\ replaying' = [replaying EXCEPT ![r].todo = @ \ {e}]
               ELSE /\ replaying' = [replaying EXCEPT ![r] = ReplayIdle]
                    /\ UNCHANGED deliveries
            /\ UNCHANGED <<endpoints, events, emitting, working, history>>
  BY DEF CreateReplayed
<1> DEFINE d == <<replaying[r].notice, e>>
           c == [replaying[r] EXCEPT !.todo = @ \ {e}]
<1>2. replaying[r] \in ReplayCall /\ replaying \in [Replays -> ReplayCall]
  BY DEF DeliveryInv, DeliveryTypeOK
<1>3. e \in Endpoints /\ replaying[r].notice \in Notices /\ d \in Deliveries
  BY <1>1, <1>2 DEF DeliveryInv, CallsWellFormed, ReplayCall, Deliveries
<1>4. /\ c \in ReplayCall /\ c.notice = replaying[r].notice
      /\ ReplayIdle \in ReplayCall /\ ReplayIdle.todo = {}
  BY <1>2 DEF ReplayCall, ReplayIdle
<1>5. UNCHANGED <<endpoints, events, emitting, working, listed, cut, handled, unheard, requeues,
                  died>>
  BY <1>1 DEF history
<1>6. \/ deliveries' = [deliveries EXCEPT ![d] = NewDelivery] /\ deliveries[d].status = "absent"
      \/ UNCHANGED deliveries
  BY <1>1
<1>7. replaying' = [replaying EXCEPT ![r] = c] \/ replaying' = [replaying EXCEPT ![r] = ReplayIdle]
  <2>1. CASE deliveries[d].status = "absent"
    BY <1>1, <2>1
  <2>2. CASE deliveries[d].status # "absent"
    BY <1>1, <2>2
  <2> QED
    BY <2>1, <2>2
<1> HIDE DEF c, d
<1>8. PICK x \in ReplayCall : /\ replaying' = [replaying EXCEPT ![r] = x]
                              /\ x.todo # {} => x.notice \in Notices
  BY <1>3, <1>4, <1>7
<1>9. \A o \in Replays : replaying'[o] = IF o = r THEN x ELSE replaying[o]
  BY <1>2, <1>8
<1>10. CallsWellFormed'
  BY <1>5, <1>8, <1>9 DEF DeliveryInv, CallsWellFormed
<1>11. /\ deliveries' \in [Deliveries -> DeliveryRow]
       /\ WorkersWellFormed' /\ RowsWellFormed' /\ TokensBounded'
  <2>1. CASE UNCHANGED deliveries
    BY <1>5, <2>1, QuietStep DEF DeliveryInv, DeliveryTypeOK
  <2> QED
    BY <1>3, <1>5, <1>6, <2>1, NewDeliveryKeeps
<1>12. DeliveryTypeOK'
  BY <1>5, <1>8, <1>11 DEF DeliveryInv, DeliveryTypeOK
<1> QED
  BY <1>10, <1>11, <1>12 DEF DeliveryInv

-----------------------------------------------------------------------------
(* Steps of one worker.                                                    *)

(* A delivery whose row stays, which the worker holds on to or lets go.    *)
LEMMA TokensStand ==
    ASSUME DeliveryAssumption, DeliveryInv, NEW w \in Workers, NEW d \in Deliveries,
           \A v \in Workers : v # w => working'[v] = working[v],
           deliveries'[d] = deliveries[d], requeues'[d] = requeues[d],
           working'[w].held[d] \in {working[w].held[d], 0},
           handled'[d] \in Nat, unheard'[d] \in Nat,
           handled'[d] + Awaiting(w, d)' + unheard[d] <= handled[d] + Awaiting(w, d) + unheard'[d]
    PROVE  TokensOf(d)'
<1>1. PICK u, m \in Nat :
        /\ Cardinality(Unanswered(d)) = u + Awaiting(w, d)
        /\ Cardinality(Unanswered(d))' = u + Awaiting(w, d)'
        /\ Cardinality(MayRetry(d)) = m + Retrying(w, d)
        /\ Cardinality(MayRetry(d))' = m + Retrying(w, d)'
  BY OneWorkerCounts
<1>2. TokensOf(d) /\ handled[d] \in Nat /\ unheard[d] \in Nat /\ requeues[d] \in Nat
      /\ deliveries[d].attempts \in Nat
  BY DEF DeliveryInv, TokensBounded, DeliveryTypeOK, DeliveryRow
<1>3. Retrying(w, d)' \in {0, 1} /\ Retrying(w, d) \in {0, 1} /\ Retrying(w, d)' <= Retrying(w, d)
  BY DEF Retrying, DeliveryAssumption
<1>4. Awaiting(w, d) \in {0, 1} /\ Awaiting(w, d)' \in {0, 1}
  BY DEF Awaiting
<1>5. Waiting(d)' = Waiting(d) /\ Waiting(d) \in {0, 1}
  BY DEF Waiting
<1> QED
  BY <1>1, <1>2, <1>3, <1>4, <1>5 DEF TokensOf, DeliveryAssumption

(* What a worker's step must show to keep the invariant.                   *)
LEMMA WorkerMoves ==
    ASSUME DeliveryAssumption, DeliveryInv, NEW w \in Workers, NEW c \in WorkerRun,
           working' = [working EXCEPT ![w] = c],
           c.pc \in {"post", "fail", "succeed"} => c.at \in Deliveries /\ c.held[c.at] > 0,
           c.pc = "idle" => \A d \in Deliveries : c.held[d] = 0,
           UNCHANGED <<endpoints, events, emitting, replaying, listed, cut, requeues>>,
           deliveries' \in [Deliveries -> DeliveryRow],
           handled' \in [Deliveries -> Nat], unheard' \in [Deliveries -> Nat],
           died' \subseteq Deliveries,
           \A d \in Deliveries :
             /\ deliveries'[d].attempts >= deliveries[d].attempts
             /\ c.held[d] <= deliveries'[d].attempts
             /\ deliveries'[d].status = "absent" =>
                  /\ deliveries[d].status = "absent" /\ c.held[d] = 0
                  /\ deliveries'[d].attempts = deliveries[d].attempts
                  /\ handled'[d] = handled[d],
           \A d \in Deliveries : TokensOf(d)'
    PROVE  DeliveryInv'
<1>1. \A v \in Workers : working'[v] = IF v = w THEN c ELSE working[v]
  BY DEF DeliveryInv, DeliveryTypeOK
<1>2. DeliveryTypeOK'
  BY DEF DeliveryInv, DeliveryTypeOK
<1>3. CallsWellFormed'
  BY DEF DeliveryInv, CallsWellFormed
<1>4. WorkersWellFormed'
  BY <1>1 DEF DeliveryInv, WorkersWellFormed
<1>5. RowsWellFormed'
  <2> SUFFICES ASSUME NEW d \in Deliveries
               PROVE  /\ deliveries'[d].status = "absent" =>
                           deliveries'[d].attempts = 0 /\ handled'[d] = 0
                      /\ \A v \in Workers :
                           /\ working'[v].held[d] <= deliveries'[d].attempts
                           /\ working'[v].held[d] > 0 => deliveries'[d].status # "absent"
    BY DEF RowsWellFormed
  <2>1. deliveries[d].attempts \in Nat /\ deliveries'[d].attempts \in Nat /\ c.held[d] \in Nat
    BY DEF DeliveryInv, DeliveryTypeOK, DeliveryRow, WorkerRun
  <2>2. \A v \in Workers : working[v].held[d] \in Nat
    BY DEF DeliveryInv, DeliveryTypeOK, WorkerRun
  <2>3. /\ deliveries[d].status = "absent" => deliveries[d].attempts = 0 /\ handled[d] = 0
        /\ \A v \in Workers : /\ working[v].held[d] <= deliveries[d].attempts
                              /\ working[v].held[d] > 0 => deliveries[d].status # "absent"
    BY DEF DeliveryInv, RowsWellFormed
  <2>4. deliveries'[d].status = "absent" => deliveries'[d].attempts = 0 /\ handled'[d] = 0
    BY <2>3
  <2>5. ASSUME NEW v \in Workers
        PROVE  /\ working'[v].held[d] <= deliveries'[d].attempts
               /\ working'[v].held[d] > 0 => deliveries'[d].status # "absent"
    <3>1. CASE v = w
      BY <1>1, <2>1, <3>1
    <3>2. CASE v # w
      <4>1. working'[v] = working[v]
        BY <1>1, <3>2
      <4> QED
        BY <2>1, <2>2, <2>3, <4>1
    <3> QED
      BY <3>1, <3>2
  <2> QED
    BY <2>4, <2>5
<1>6. TokensBounded'
  BY DEF TokensBounded
<1> QED
  BY <1>2, <1>3, <1>4, <1>5, <1>6 DEF DeliveryInv

(* A step of a worker that writes no row: it answers what it awaits with   *)
(* a post, or lets what it holds go.                                       *)
LEMMA RunMoves ==
    ASSUME DeliveryAssumption, DeliveryInv, NEW w \in Workers, NEW c \in WorkerRun,
           working' = [working EXCEPT ![w] = c],
           c.pc \in {"post", "fail", "succeed"} => c.at \in Deliveries /\ c.held[c.at] > 0,
           c.pc = "idle" => \A d \in Deliveries : c.held[d] = 0,
           UNCHANGED <<endpoints, events, emitting, replaying, listed, cut, requeues, deliveries>>,
           handled' \in [Deliveries -> Nat], unheard' \in [Deliveries -> Nat],
           died' \subseteq Deliveries,
           \A d \in Deliveries :
             /\ c.held[d] \in {working[w].held[d], 0}
             /\ handled'[d] = handled[d] \/ working[w].held[d] > 0
             /\ handled'[d] + Awaiting(w, d)' + unheard[d]
                  <= handled[d] + Awaiting(w, d) + unheard'[d]
    PROVE  DeliveryInv'
<1>1. \A v \in Workers : working'[v] = IF v = w THEN c ELSE working[v]
  BY DEF DeliveryInv, DeliveryTypeOK
<1>2. ASSUME NEW d \in Deliveries PROVE TokensOf(d)'
  <2>1. handled'[d] \in Nat /\ unheard'[d] \in Nat /\ deliveries'[d] = deliveries[d]
        /\ requeues'[d] = requeues[d] /\ working'[w].held[d] \in {working[w].held[d], 0}
    BY <1>1
  <2> QED
    BY <1>1, <2>1, TokensStand
<1>3. ASSUME NEW d \in Deliveries
      PROVE  /\ deliveries'[d].attempts >= deliveries[d].attempts
             /\ c.held[d] <= deliveries'[d].attempts
             /\ deliveries'[d].status = "absent" =>
                  /\ deliveries[d].status = "absent" /\ c.held[d] = 0
                  /\ deliveries'[d].attempts = deliveries[d].attempts
                  /\ handled'[d] = handled[d]
  <2>1. /\ deliveries[d].attempts \in Nat /\ working[w].held[d] \in Nat
        /\ working[w].held[d] <= deliveries[d].attempts
        /\ working[w].held[d] > 0 => deliveries[d].status # "absent"
    BY DEF DeliveryInv, DeliveryTypeOK, DeliveryRow, WorkerRun, RowsWellFormed
  <2> QED
    BY <2>1
<1>4. deliveries' \in [Deliveries -> DeliveryRow]
  BY DEF DeliveryInv, DeliveryTypeOK
<1> QED
  BY <1>2, <1>3, <1>4, WorkerMoves

LEMMA WorkerFacts ==
    ASSUME DeliveryInv, NEW w \in Workers
    PROVE  /\ working[w] \in WorkerRun /\ working \in [Workers -> WorkerRun]
           /\ handled \in [Deliveries -> Nat] /\ unheard \in [Deliveries -> Nat]
           /\ working[w].pc \in {"post", "fail", "succeed"} =>
                working[w].at \in Deliveries /\ working[w].held[working[w].at] > 0
           /\ working[w].held \in [Deliveries -> Nat]
           /\ died \subseteq Deliveries
BY DEF DeliveryInv, DeliveryTypeOK, WorkersWellFormed, WorkerRun

LEMMA LoadKeeps ==
    ASSUME DeliveryAssumption, DeliveryInv, NEW w \in Workers, LoadDelivery(w)
    PROVE  DeliveryInv'
<1>1. PICK d \in Deliveries :
        /\ working[w].pc = "load" /\ working[w].held[d] > 0
        /\ working' = [working EXCEPT ![w] =
                         [@ EXCEPT !.at = d, !.secret = endpoints[d[2]].secret,
                                   !.pc = IF endpoints[d[2]].status = "active" THEN "post"
                                          ELSE "fail"]]
        /\ UNCHANGED <<tables, emitting, replaying, history>>
  BY DEF LoadDelivery
<1> DEFINE c == [working[w] EXCEPT !.at = d, !.secret = endpoints[d[2]].secret,
                                   !.pc = IF endpoints[d[2]].status = "active" THEN "post"
                                          ELSE "fail"]
<1>2. endpoints[d[2]].secret \in Secrets \cup {None}
  BY DEF DeliveryInv, DeliveryTypeOK, EndpointRow, Deliveries
<1>3. /\ c \in WorkerRun /\ c.at = d /\ c.held = working[w].held /\ c.pc \in {"post", "fail"}
  BY <1>2, WorkerFacts DEF WorkerRun
<1>4. working' = [working EXCEPT ![w] = c]
  BY <1>1
<1> HIDE DEF c
<1>5. UNCHANGED <<endpoints, events, emitting, replaying, listed, cut, requeues, deliveries,
                  handled, unheard, died>>
  BY <1>1 DEF tables, history
<1>6. working'[w] = c
  BY <1>4, WorkerFacts
<1>7. \A x \in Deliveries : Awaiting(w, x)' = Awaiting(w, x)
  BY <1>1, <1>3, <1>6 DEF Awaiting, Awaits
<1>8. \A x \in Deliveries : handled[x] \in Nat /\ unheard[x] \in Nat /\ Awaiting(w, x) \in Nat
  BY WorkerFacts DEF Awaiting
<1>9. \A x \in Deliveries :
        /\ c.held[x] \in {working[w].held[x], 0}
        /\ handled'[x] = handled[x] \/ working[w].held[x] > 0
        /\ handled'[x] + Awaiting(w, x)' + unheard[x] <= handled[x] + Awaiting(w, x) + unheard'[x]
  BY <1>3, <1>5, <1>7, <1>8
<1>10. c.at \in Deliveries /\ c.held[c.at] > 0 /\ c.pc # "idle"
  BY <1>1, <1>3
<1> QED
  BY <1>3, <1>4, <1>5, <1>9, <1>10, WorkerFacts, RunMoves

(* The worker has an answer to its post, heard or not.                     *)
LEMMA AnswerKeeps ==
    ASSUME DeliveryAssumption, DeliveryInv, NEW w \in Workers,
           \/ PostAccepted(w) \/ PostRefused(w) \/ PostTimesOut(w) \/ MarkSucceededThrows(w)
    PROVE  DeliveryInv'
<1> DEFINE d == working[w].at
<1>1. PICK step \in {"fail", "succeed"} :
        /\ working' = [working EXCEPT ![w].pc = step]
        /\ \/ /\ working[w].pc = "post" /\ step = "succeed"
              /\ handled' = [handled EXCEPT ![d] = @ + 1] /\ unheard' = unheard
           \/ /\ working[w].pc = "post" /\ step = "fail"
              /\ handled' = handled /\ unheard' = unheard
           \/ /\ working[w].pc = "post" /\ step = "fail"
              /\ handled' = [handled EXCEPT ![d] = @ + 1]
              /\ unheard' = [unheard EXCEPT ![d] = @ + 1]
           \/ /\ working[w].pc = "succeed" /\ step = "fail"
              /\ handled' = handled /\ unheard' = [unheard EXCEPT ![d] = @ + 1]
  <2>1. CASE PostAccepted(w)
    BY <2>1 DEF PostAccepted
  <2>2. CASE PostRefused(w)
    BY <2>2 DEF PostRefused, history
  <2>3. CASE PostTimesOut(w)
    BY <2>3 DEF PostTimesOut
  <2>4. CASE MarkSucceededThrows(w)
    BY <2>4 DEF MarkSucceededThrows
  <2> QED
    BY <2>1, <2>2, <2>3, <2>4
<1>2. UNCHANGED <<endpoints, events, emitting, replaying, listed, cut, requeues, deliveries,
                  died>>
  BY DEF PostAccepted, PostRefused, PostTimesOut, MarkSucceededThrows, tables, history
<1> DEFINE c == [working[w] EXCEPT !.pc = step]
<1>3. c \in WorkerRun /\ c.at = d /\ c.held = working[w].held /\ c.pc = step
  BY WorkerFacts DEF WorkerRun
<1>4. working' = [working EXCEPT ![w] = c]
  BY <1>1
<1> HIDE DEF c
<1>5. d \in Deliveries /\ working[w].held[d] > 0
  BY <1>1, WorkerFacts
<1>6. handled' \in [Deliveries -> Nat] /\ unheard' \in [Deliveries -> Nat]
  BY <1>1, <1>5, WorkerFacts
<1>7. working'[w] = c
  BY <1>4, WorkerFacts
<1>8. ASSUME NEW x \in Deliveries
      PROVE  /\ handled'[x] = handled[x] \/ working[w].held[x] > 0
             /\ handled'[x] + Awaiting(w, x)' + unheard[x]
                  <= handled[x] + Awaiting(w, x) + unheard'[x]
  <2>1. handled[x] \in Nat /\ unheard[x] \in Nat
    BY WorkerFacts
  <2>2. CASE x # d
    <3>1. handled'[x] = handled[x] /\ unheard'[x] = unheard[x]
      BY <1>1, <2>2, WorkerFacts
    <3>2. Awaiting(w, x)' = Awaiting(w, x) /\ Awaiting(w, x) \in Nat
      BY <1>3, <1>7, <2>2 DEF Awaiting, Awaits
    <3> QED
      BY <2>1, <3>1, <3>2
  <2>3. CASE x = d
    <3>1. /\ Awaiting(w, d) = IF working[w].pc = "succeed" THEN 0 ELSE 1
          /\ working'[w].at = d /\ working'[w].held = working[w].held /\ working'[w].pc = step
      BY <1>3, <1>5, <1>7 DEF Awaiting, Awaits
    <3>2. Awaiting(w, x)' = IF step = "succeed" THEN 0 ELSE 1
      BY <1>5, <2>3, <3>1 DEF Awaiting, Awaits
    <3> QED
      BY <1>1, <1>5, <2>1, <2>3, <3>1, <3>2, WorkerFacts
  <2> QED
    BY <2>2, <2>3
<1> QED
  BY <1>2, <1>3, <1>4, <1>5, <1>6, <1>8, WorkerFacts, RunMoves

LEMMA DeathKeeps ==
    ASSUME DeliveryAssumption, DeliveryInv, NEW w \in Workers, WorkerDies(w)
    PROVE  DeliveryInv'
<1>1. /\ WorkerIdle \in WorkerRun /\ WorkerIdle.pc = "idle"
      /\ \A d \in Deliveries : WorkerIdle.held[d] = 0
  BY DEF WorkerIdle, WorkerRun
<1>2. /\ working' = [working EXCEPT ![w] = WorkerIdle]
      /\ UNCHANGED <<endpoints, events, emitting, replaying, listed, cut, requeues, deliveries,
                     handled, unheard>>
      /\ died' \subseteq Deliveries
  BY WorkerFacts DEF WorkerDies, tables
<1>3. working'[w] = WorkerIdle
  BY <1>2, WorkerFacts
<1>4. \A d \in Deliveries : Awaiting(w, d)' = 0 /\ Awaiting(w, d) \in Nat
  BY <1>1, <1>3 DEF Awaiting, Awaits
<1>5. \A d \in Deliveries : handled[d] \in Nat /\ unheard[d] \in Nat
  BY WorkerFacts
<1>6. \A d \in Deliveries :
        /\ WorkerIdle.held[d] \in {working[w].held[d], 0}
        /\ handled'[d] = handled[d] \/ working[w].held[d] > 0
        /\ handled'[d] + Awaiting(w, d)' + unheard[d] <= handled[d] + Awaiting(w, d) + unheard'[d]
  BY <1>1, <1>2, <1>4, <1>5
<1> QED
  BY <1>1, <1>2, <1>6, WorkerFacts, RunMoves

(* A batch is claimed: each of its rows' tokens passes to the worker.      *)
LEMMA ClaimKeeps ==
    ASSUME DeliveryAssumption, DeliveryInv, NEW w \in Workers, ClaimDue(w)
    PROVE  DeliveryInv'
<1>1. PICK batch \in SUBSET Due :
        /\ deliveries' = [d \in Deliveries |->
                             IF d \in batch
                             THEN [deliveries[d] EXCEPT !.status = "delivering",
                                                        !.attempts = @ + 1]
                             ELSE deliveries[d]]
        /\ working' = [working EXCEPT ![w] =
                          [@ EXCEPT !.pc = "load",
                                    !.held = [d \in Deliveries |->
                                                IF d \in batch THEN deliveries[d].attempts + 1
                                                ELSE 0]]]
  BY DEF ClaimDue
<1>2. /\ working[w].pc = "idle"
      /\ UNCHANGED <<endpoints, events, emitting, replaying, listed, cut, requeues, handled,
                     unheard>>
      /\ died' \subseteq Deliveries
  BY WorkerFacts DEF ClaimDue
<1> DEFINE held == [d \in Deliveries |-> IF d \in batch THEN deliveries[d].attempts + 1 ELSE 0]
           c == [working[w] EXCEPT !.pc = "load", !.held = held]
<1>3. /\ deliveries \in [Deliveries -> DeliveryRow] /\ requeues \in [Deliveries -> Nat]
      /\ \A d \in Deliveries : deliveries[d].attempts \in Nat
  BY DEF DeliveryInv, DeliveryTypeOK, DeliveryRow
<1>4. held \in [Deliveries -> Nat]
  BY <1>3
<1>5. c \in WorkerRun /\ c.pc = "load" /\ c.held = held
  BY <1>4, WorkerFacts DEF WorkerRun
<1>6. working' = [working EXCEPT ![w] = c]
  BY <1>1
<1>7. \A d \in Deliveries : held[d] = IF d \in batch THEN deliveries[d].attempts + 1 ELSE 0
  OBVIOUS
<1> HIDE DEF c, held
<1>8. \A v \in Workers : working'[v] = IF v = w THEN c ELSE working[v]
  BY <1>6, WorkerFacts
<1>9. \A d \in Deliveries : working[w].held[d] = 0
  BY <1>2 DEF DeliveryInv, WorkersWellFormed
<1>10. ASSUME NEW d \in Deliveries, d \in batch
       PROVE  /\ deliveries[d].status \in {"queued", "failed"}
              /\ deliveries'[d].status = "delivering"
              /\ deliveries'[d].attempts = deliveries[d].attempts + 1
  BY <1>1, <1>3, <1>10 DEF Due, Claimable, DeliveryRow
<1>11. \A d \in Deliveries : d \notin batch => deliveries'[d] = deliveries[d]
  BY <1>1
<1>12. deliveries' \in [Deliveries -> DeliveryRow]
  <2> SUFFICES ASSUME NEW d \in Deliveries PROVE deliveries'[d] \in DeliveryRow
    BY <1>1
  <2>1. deliveries[d] \in DeliveryRow
    BY <1>3
  <2>2. [deliveries[d] EXCEPT !.status = "delivering"] \in DeliveryRow
    BY <2>1 DEF DeliveryRow, DeliveryStatuses
  <2>3. ASSUME NEW row \in DeliveryRow PROVE [row EXCEPT !.attempts = row.attempts + 1] \in DeliveryRow
    BY DEF DeliveryRow
  <2>4. [deliveries[d] EXCEPT !.status = "delivering", !.attempts = @ + 1] \in DeliveryRow
    BY <2>1, <2>2, <2>3 DEF DeliveryRow
  <2> QED
    BY <1>1, <2>1, <2>4
<1>13. ASSUME NEW d \in Deliveries PROVE TokensOf(d)'
  <2>1. handled[d] \in Nat /\ unheard[d] \in Nat /\ requeues[d] \in Nat
    BY <1>3, WorkerFacts
  <2>2. CASE d \notin batch
    <3>1. working'[w].held[d] = 0 /\ deliveries'[d] = deliveries[d] /\ requeues'[d] = requeues[d]
      BY <1>2, <1>5, <1>7, <1>8, <1>11, <2>2
    <3>2. Awaiting(w, d)' = 0 /\ Awaiting(w, d) = 0
      BY <1>9, <3>1 DEF Awaiting, Awaits
    <3> QED
      BY <1>2, <1>8, <2>1, <3>1, <3>2, TokensStand
  <2>3. CASE d \in batch
    <3>1. PICK u, m \in Nat :
            /\ Cardinality(Unanswered(d)) = u + Awaiting(w, d)
            /\ Cardinality(Unanswered(d))' = u + Awaiting(w, d)'
            /\ Cardinality(MayRetry(d)) = m + Retrying(w, d)
            /\ Cardinality(MayRetry(d))' = m + Retrying(w, d)'
      BY <1>8, OneWorkerCounts
    <3>2. Awaiting(w, d) = 0 /\ Retrying(w, d) = 0
      BY <1>9 DEF Awaiting, Awaits, Retrying, DeliveryAssumption
    <3>3. working'[w].held[d] = deliveries[d].attempts + 1
      BY <1>5, <1>7, <1>8, <2>3
    <3>4. Awaiting(w, d)' \in {0, 1}
      BY DEF Awaiting
    <3>5. Retrying(w, d)' = IF deliveries[d].attempts + 1 < MaxAttempts THEN 1 ELSE 0
      BY <1>3, <3>3 DEF Retrying, DeliveryAssumption
    <3>6. Waiting(d) = 1 /\ Waiting(d)' = 0
      BY <1>10, <2>3 DEF Waiting
    <3>7. TokensOf(d)
      BY DEF DeliveryInv, TokensBounded
    <3>8. deliveries'[d].attempts = deliveries[d].attempts + 1 /\ deliveries[d].attempts \in Nat
      BY <1>3, <1>10, <2>3
    <3> QED
      BY <1>2, <2>1, <3>1, <3>2, <3>4, <3>5, <3>6, <3>7, <3>8 DEF TokensOf, DeliveryAssumption
  <2> QED
    BY <2>2, <2>3
<1>14. ASSUME NEW d \in Deliveries
       PROVE  /\ deliveries'[d].attempts >= deliveries[d].attempts
              /\ c.held[d] <= deliveries'[d].attempts
              /\ deliveries'[d].status = "absent" =>
                   /\ deliveries[d].status = "absent" /\ c.held[d] = 0
                   /\ deliveries'[d].attempts = deliveries[d].attempts
                   /\ handled'[d] = handled[d]
  <2>1. CASE d \in batch
    BY <1>3, <1>5, <1>7, <1>10, <2>1
  <2>2. CASE d \notin batch
    BY <1>2, <1>3, <1>5, <1>7, <1>11, <2>2
  <2> QED
    BY <2>1, <2>2
<1> QED
  BY <1>2, <1>5, <1>6, <1>12, <1>13, <1>14, WorkerFacts, WorkerMoves

(* The worker writes what became of the delivery it stands at.  A failed   *)
(* one is put back only by a holder that may retry.                        *)
LEMMA RecordKeeps ==
    ASSUME DeliveryAssumption, DeliveryInv, NEW w \in Workers,
           MarkSucceeded(w) \/ FailDelivery(w)
    PROVE  DeliveryInv'
<1> DEFINE d == working[w].at
           left == [working[w].held EXCEPT ![d] = 0]
           more == \E x \in Deliveries : left[x] > 0
           c == [pc |-> IF more THEN "load" ELSE "idle", held |-> left, at |-> None,
                 secret |-> None]
<1>1. /\ working[w].pc \in {"succeed", "fail"} /\ d \in Deliveries /\ working[w].held[d] > 0
      /\ working[w].held \in [Deliveries -> Nat]
  BY WorkerFacts DEF MarkSucceeded, FailDelivery
<1>2. UNCHANGED <<endpoints, events, emitting, replaying, listed, cut, requeues, handled, unheard,
                  died>>
  BY DEF MarkSucceeded, FailDelivery, history
<1>3. working' = [working EXCEPT ![w] = c]
  BY DEF MarkSucceeded, FailDelivery, NextInBatch
<1>4. left \in [Deliveries -> Nat] /\ \A x \in Deliveries : left[x] = IF x = d THEN 0 ELSE working[w].held[x]
  BY <1>1
<1> HIDE DEF left
<1>5. /\ c \in WorkerRun /\ c.pc \in {"load", "idle"} /\ c.held = left
      /\ c.pc = "idle" => \A x \in Deliveries : c.held[x] = 0
  BY <1>4 DEF WorkerRun
<1> HIDE DEF c
<1>6. \A v \in Workers : working'[v] = IF v = w THEN c ELSE working[v]
  BY <1>3, WorkerFacts
<1>7. /\ deliveries \in [Deliveries -> DeliveryRow] /\ deliveries[d] \in DeliveryRow
      /\ requeues \in [Deliveries -> Nat]
      /\ \A x \in Deliveries : deliveries[x].attempts \in Nat
  BY <1>1 DEF DeliveryInv, DeliveryTypeOK, DeliveryRow
<1>8. PICK row \in DeliveryRow :
        /\ deliveries' = [deliveries EXCEPT ![d] = row]
        /\ row.attempts = deliveries[d].attempts
        /\ row.status \in {"succeeded", "dead", "failed"}
        /\ row.status = "failed" =>
             working[w].pc = "fail" /\ working[w].held[d] < MaxAttempts
  <2>1. CASE MarkSucceeded(w)
    <3> DEFINE row == [deliveries[d] EXCEPT !.status = "succeeded"]
    <3>1. row \in DeliveryRow /\ row.attempts = deliveries[d].attempts /\ row.status = "succeeded"
      BY <1>7 DEF DeliveryRow, DeliveryStatuses
    <3>2. deliveries' = [deliveries EXCEPT ![d] = row]
      BY <2>1 DEF MarkSucceeded
    <3> HIDE DEF row
    <3> QED
      BY <3>1, <3>2
  <2>2. CASE FailDelivery(w) /\ Exhausted(w)
    <3> DEFINE row == [deliveries[d] EXCEPT !.status = "dead"]
    <3>1. row \in DeliveryRow /\ row.attempts = deliveries[d].attempts /\ row.status = "dead"
      BY <1>7 DEF DeliveryRow, DeliveryStatuses
    <3>2. deliveries' = [deliveries EXCEPT ![d] = row]
      BY <2>2 DEF FailDelivery
    <3> HIDE DEF row
    <3> QED
      BY <3>1, <3>2
  <2>3. CASE FailDelivery(w) /\ ~Exhausted(w)
    <3> DEFINE row == [deliveries[d] EXCEPT !.status = "failed", !.due = FALSE]
    <3>1. row \in DeliveryRow /\ row.attempts = deliveries[d].attempts /\ row.status = "failed"
      BY <1>7 DEF DeliveryRow, DeliveryStatuses
    <3>2. deliveries' = [deliveries EXCEPT ![d] = row] /\ working[w].pc = "fail"
      BY <2>3 DEF FailDelivery
    <3>3. working[w].held[d] < MaxAttempts
      BY <1>1, <2>3 DEF Exhausted, DeliveryAssumption
    <3> HIDE DEF row
    <3> QED
      BY <3>1, <3>2, <3>3
  <2> QED
    BY <2>1, <2>2, <2>3
<1>9. \A x \in Deliveries : deliveries'[x] = IF x = d THEN row ELSE deliveries[x]
  BY <1>7, <1>8
<1>10. deliveries' \in [Deliveries -> DeliveryRow]
  BY <1>7, <1>8
<1>11. ASSUME NEW x \in Deliveries PROVE TokensOf(x)'
  <2>1. handled[x] \in Nat /\ unheard[x] \in Nat /\ requeues[x] \in Nat
    BY <1>7, WorkerFacts
  <2>2. CASE x # d
    <3>1. /\ working'[w].held[x] = working[w].held[x] /\ working'[w].pc \in {"load", "idle"}
          /\ deliveries'[x] = deliveries[x] /\ requeues'[x] = requeues[x]
      BY <1>2, <1>4, <1>5, <1>6, <1>9, <2>2
    <3>2. Awaiting(w, x)' = Awaiting(w, x) /\ Awaiting(w, x) \in Nat
      BY <1>1, <2>2, <3>1 DEF Awaiting, Awaits
    <3> QED
      BY <1>2, <1>6, <2>1, <3>1, <3>2, TokensStand
  <2>3. CASE x = d
    <3>1. PICK u, m \in Nat :
            /\ Cardinality(Unanswered(x)) = u + Awaiting(w, x)
            /\ Cardinality(Unanswered(x))' = u + Awaiting(w, x)'
            /\ Cardinality(MayRetry(x)) = m + Retrying(w, x)
            /\ Cardinality(MayRetry(x))' = m + Retrying(w, x)'
      BY <1>6, OneWorkerCounts
    <3>2. working'[w].held[x] = 0
      BY <1>4, <1>5, <1>6, <2>3
    <3>3. Awaiting(w, x)' = 0 /\ Retrying(w, x)' = 0
      BY <3>2 DEF Awaiting, Awaits, Retrying, DeliveryAssumption
    <3>4. Awaiting(w, x) = IF working[w].pc = "fail" THEN 1 ELSE 0
      BY <1>1, <2>3 DEF Awaiting, Awaits
    <3>5. Retrying(w, x) = IF working[w].held[x] < MaxAttempts THEN 1 ELSE 0
      BY <1>1, <2>3 DEF Retrying, DeliveryAssumption
    <3>6. Waiting(x)' = IF row.status = "failed" THEN 1 ELSE 0
      BY <1>8, <1>9, <2>3 DEF Waiting
    <3>7. TokensOf(x) /\ Waiting(x) \in {0, 1}
      BY DEF DeliveryInv, TokensBounded, Waiting
    <3>8. deliveries'[x].attempts = deliveries[x].attempts /\ deliveries[x].attempts \in Nat
      BY <1>7, <1>8, <1>9, <2>3
    <3>9. CASE row.status = "failed"
      <4>1. /\ Awaiting(w, x) = 1 /\ Retrying(w, x) = 1 /\ Waiting(x)' = 1
        BY <1>8, <2>3, <3>4, <3>5, <3>6, <3>9
      <4> QED
        BY <1>2, <2>1, <3>1, <3>3, <3>7, <3>8, <4>1 DEF TokensOf, DeliveryAssumption
    <3>10. CASE row.status # "failed"
      <4>1. /\ Awaiting(w, x) \in {0, 1} /\ Retrying(w, x) \in {0, 1} /\ Waiting(x)' = 0
        BY <3>4, <3>5, <3>6, <3>10
      <4> QED
        BY <1>2, <2>1, <3>1, <3>3, <3>7, <3>8, <4>1 DEF TokensOf, DeliveryAssumption
    <3> QED
      BY <3>9, <3>10
  <2> QED
    BY <2>2, <2>3
<1>12. ASSUME NEW x \in Deliveries
       PROVE  /\ deliveries'[x].attempts >= deliveries[x].attempts
              /\ c.held[x] <= deliveries'[x].attempts
              /\ deliveries'[x].status = "absent" =>
                   /\ deliveries[x].status = "absent" /\ c.held[x] = 0
                   /\ deliveries'[x].attempts = deliveries[x].attempts
                   /\ handled'[x] = handled[x]
  <2>1. /\ deliveries[x].attempts \in Nat /\ working[w].held[x] \in Nat
        /\ working[w].held[x] <= deliveries[x].attempts
        /\ working[w].held[x] > 0 => deliveries[x].status # "absent"
    BY <1>1, <1>7 DEF DeliveryInv, RowsWellFormed
  <2>2. c.held[x] \in {working[w].held[x], 0} /\ deliveries'[x].attempts = deliveries[x].attempts
    BY <1>4, <1>5, <1>8, <1>9
  <2> QED
    BY <1>2, <1>8, <1>9, <2>1, <2>2
<1> QED
  BY <1>2, <1>3, <1>5, <1>10, <1>11, <1>12, WorkerFacts, WorkerMoves

-----------------------------------------------------------------------------
LEMMA DeliveryKeeps ==
    ASSUME DeliveryAssumption, DeliveryInv, [Next]_vars
    PROVE  DeliveryInv'
<1>1. CASE UNCHANGED vars
  <2>1. UNCHANGED <<endpoints, events, deliveries, emitting, working, replaying, listed, cut,
                    handled, unheard, requeues, died>>
    BY <1>1 DEF vars, tables, calls, history
  <2>2. DeliveryTypeOK' /\ CallsWellFormed'
    BY <2>1 DEF DeliveryInv, DeliveryTypeOK, CallsWellFormed
  <2> QED
    BY <2>1, <2>2, QuietStep DEF DeliveryInv
<1>2. CASE ManageEndpoints
  BY <1>2, ManageKeeps
<1>3. ASSUME NEW m \in Emitters,
             (\E n \in Notices : StartEmit(m, n)) \/ EmitStep(m) \/ AbortEmit(m)
      PROVE  DeliveryInv'
  BY <1>3, EmitQuietly, CreateDeliveryKeeps DEF EmitStep
<1>4. ASSUME NEW w \in Workers,
             WorkerStep(w) \/ PostTimesOut(w) \/ MarkSucceededThrows(w) \/ WorkerDies(w)
      PROVE  DeliveryInv'
  BY <1>4, ClaimKeeps, LoadKeeps, AnswerKeeps, RecordKeeps, DeathKeeps DEF WorkerStep
<1>5. ASSUME NEW d \in Deliveries, BackoffPasses(d) \/ Requeue(d)
      PROVE  DeliveryInv'
  BY <1>5, BackoffKeeps, RequeueKeeps
<1>6. ASSUME NEW r \in Replays,
             (\E n \in Notices : StartReplay(r, n)) \/ CreateReplayed(r) \/ AbortReplay(r)
      PROVE  DeliveryInv'
  BY <1>6, ReplayQuietly, CreateReplayedKeeps
<1> QED
  BY <1>1, <1>2, <1>3, <1>4, <1>5, <1>6 DEF Next

(* The bookkeeping of tokens is kept by every step of every worker,        *)
(* emitter, replay and operator.                                           *)
THEOREM DeliveryHolds == Spec => []DeliveryInv
<1>1. Init => DeliveryInv
  BY DeliveryStarts, DeliveryAssumption
<1>2. DeliveryInv /\ [Next]_vars => DeliveryInv'
  BY DeliveryKeeps, DeliveryAssumption
<1> QED
  BY <1>1, <1>2, PTL DEF Spec

(* A merchant accepts a notice once, plus once for each requeue and each   *)
(* acceptance that was not recorded, however many workers run.             *)
THEOREM HandledOnceAlways == Spec => []HandledOnce
<1>1. DeliveryInv => HandledOnce
  <2> SUFFICES ASSUME DeliveryInv, NEW d \in Deliveries
               PROVE  handled[d] <= 1 + requeues[d] + unheard[d]
    BY DEF HandledOnce
  <2>1. /\ handled[d] \in Nat /\ requeues[d] \in Nat /\ unheard[d] \in Nat
        /\ TokensOf(d) /\ Waiting(d) \in {0, 1}
    BY DEF DeliveryInv, DeliveryTypeOK, TokensBounded, Waiting
  <2>2. Cardinality(Unanswered(d)) \in Nat
    BY CountsAreNumbers, DeliveryAssumption
  <2> QED
    BY <2>1, <2>2 DEF TokensOf
<1> QED
  BY <1>1, DeliveryHolds, PTL

(* A delivery is attempted maxAttempts times at most, and once more for    *)
(* each requeue.                                                           *)
THEOREM AttemptsBoundedAlways == Spec => []AttemptsBounded
<1>1. DeliveryInv => AttemptsBounded
  <2> SUFFICES ASSUME DeliveryInv, NEW d \in Deliveries
               PROVE  deliveries[d].attempts <= MaxAttempts + requeues[d]
    BY DEF AttemptsBounded
  <2>1. /\ deliveries[d].attempts \in Nat /\ requeues[d] \in Nat
        /\ TokensOf(d) /\ Waiting(d) \in {0, 1}
    BY DEF DeliveryInv, DeliveryTypeOK, DeliveryRow, TokensBounded, Waiting
  <2>2. Cardinality(MayRetry(d)) \in Nat
    BY CountsAreNumbers, DeliveryAssumption
  <2> QED
    BY <2>1, <2>2, DeliveryAssumption DEF TokensOf, DeliveryAssumption
<1> QED
  BY <1>1, DeliveryHolds, PTL

(* Nobody takes a notice for delivered that the merchant did not accept:   *)
(* whoever is about to record a success has had an answer.                 *)
SuccessHeard == \A w \in Workers : working[w].pc = "succeed" => handled[working[w].at] > 0

LEMMA SuccessKept ==
    ASSUME DeliveryAssumption, DeliveryInv, SuccessHeard, SucceededWasHandled, [Next]_vars
    PROVE  SuccessHeard' /\ SucceededWasHandled'
<1>1. /\ deliveries \in [Deliveries -> DeliveryRow] /\ handled \in [Deliveries -> Nat]
      /\ working \in [Workers -> WorkerRun]
      /\ \A w \in Workers : working[w].pc = "succeed" => working[w].at \in Deliveries
  BY DEF DeliveryInv, DeliveryTypeOK, WorkersWellFormed
<1>2. ASSUME UNCHANGED <<working, handled>>,
             \A d \in Deliveries : deliveries'[d].status = "succeeded" =>
                                     deliveries[d].status = "succeeded"
      PROVE  SuccessHeard' /\ SucceededWasHandled'
  BY <1>2 DEF SuccessHeard, SucceededWasHandled
<1>3. ASSUME UNCHANGED <<working, handled, deliveries>>
      PROVE  SuccessHeard' /\ SucceededWasHandled'
  BY <1>2, <1>3
<1>4. ASSUME NEW d \in Deliveries, NEW row, row.status # "succeeded",
             deliveries' = [deliveries EXCEPT ![d] = row], UNCHANGED <<working, handled>>
      PROVE  SuccessHeard' /\ SucceededWasHandled'
  BY <1>1, <1>2, <1>4
<1>5. CASE UNCHANGED vars
  BY <1>3, <1>5 DEF vars, tables, calls, history
<1>6. CASE ManageEndpoints
  BY <1>3, <1>6 DEF ManageEndpoints, CreateEndpoint, DisableEndpoint, RotateSecret, calls, history
<1>7. ASSUME NEW m \in Emitters,
             (\E n \in Notices : StartEmit(m, n)) \/ EmitStep(m) \/ AbortEmit(m)
      PROVE  SuccessHeard' /\ SucceededWasHandled'
  <2>1. CASE CreateDelivery(m)
    <3>1. /\ UNCHANGED <<working, handled>>
          /\ \/ UNCHANGED deliveries
             \/ deliveries' = [deliveries EXCEPT ![<<emitting[m].notice, emitting[m].at>>] = NewDelivery]
      BY <2>1 DEF CreateDelivery
    <3>2. <<emitting[m].notice, emitting[m].at>> \in Deliveries
      BY <2>1 DEF CreateDelivery, DeliveryInv, CallsWellFormed, Deliveries
    <3>3. NewDelivery.status # "succeeded"
      BY DEF NewDelivery
    <3> QED
      BY <1>3, <1>4, <3>1, <3>2, <3>3
  <2>2. CASE ~CreateDelivery(m)
    <3>1. UNCHANGED <<working, handled, deliveries>>
      BY <1>7, <2>2 DEF EmitStep, StartEmit, SelectEvent, InsertEvent, CheckDelivery, FinishEmit,
                        AbortEmit, tables, history
    <3> QED
      BY <1>3, <3>1
  <2> QED
    BY <2>1, <2>2
<1>8. ASSUME NEW w \in Workers,
             WorkerStep(w) \/ PostTimesOut(w) \/ MarkSucceededThrows(w) \/ WorkerDies(w)
      PROVE  SuccessHeard' /\ SucceededWasHandled'
  <2> DEFINE at == working[w].at
  <2>1. ASSUME NEW c, working' = [working EXCEPT ![w] = c],
               c.pc = "succeed" => c.at \in Deliveries /\ handled'[c.at] > 0,
               \A d \in Deliveries : handled[d] > 0 => handled'[d] > 0,
               \A d \in Deliveries : deliveries'[d].status = "succeeded" =>
                 deliveries[d].status = "succeeded" \/ handled[d] > 0
        PROVE  SuccessHeard' /\ SucceededWasHandled'
    <3>1. \A v \in Workers : working'[v] = IF v = w THEN c ELSE working[v]
      BY <1>1, <2>1
    <3>2. SuccessHeard'
      BY <1>1, <2>1, <3>1 DEF SuccessHeard
    <3>3. SucceededWasHandled'
      BY <2>1 DEF SucceededWasHandled
    <3> QED
      BY <3>2, <3>3
  <2>2. ASSUME NEW step \in {"fail", "succeed"}, working' = [working EXCEPT ![w].pc = step],
               working[w].pc \in {"post", "succeed"}, UNCHANGED deliveries,
               \/ handled' = [handled EXCEPT ![at] = @ + 1]
               \/ handled' = handled /\ step = "fail"
        PROVE  SuccessHeard' /\ SucceededWasHandled'
    <3> DEFINE c == [working[w] EXCEPT !.pc = step]
    <3>1. at \in Deliveries
      BY <2>2, WorkerFacts
    <3>2. c.pc = step /\ c.at = at
      BY <1>1 DEF WorkerRun
    <3>3. working' = [working EXCEPT ![w] = c]
      BY <2>2
    <3>4. \A d \in Deliveries : handled[d] > 0 => handled'[d] > 0
      BY <1>1, <2>2
    <3>5. step = "succeed" => handled'[at] > 0
      BY <1>1, <2>2, <3>1
    <3> HIDE DEF c
    <3> QED
      BY <2>1, <2>2, <3>1, <3>2, <3>3, <3>4, <3>5
  <2>3. CASE ClaimDue(w)
    <3>1. PICK batch \in SUBSET Due :
            /\ deliveries' = [d \in Deliveries |->
                                 IF d \in batch
                                 THEN [deliveries[d] EXCEPT !.status = "delivering",
                                                            !.attempts = @ + 1]
                                 ELSE deliveries[d]]
            /\ working' = [working EXCEPT ![w] =
                              [@ EXCEPT !.pc = "load",
                                        !.held = [d \in Deliveries |->
                                                    IF d \in batch THEN deliveries[d].attempts + 1
                                                    ELSE 0]]]
      BY <2>3 DEF ClaimDue
    <3> DEFINE c == [working[w] EXCEPT !.pc = "load",
                                       !.held = [d \in Deliveries |->
                                                   IF d \in batch THEN deliveries[d].attempts + 1
                                                   ELSE 0]]
    <3>2. c.pc = "load"
      BY <1>1 DEF WorkerRun
    <3>3. working' = [working EXCEPT ![w] = c]
      BY <3>1
    <3>4. \A d \in Deliveries : deliveries'[d].status = "succeeded" => deliveries[d].status = "succeeded"
      BY <1>1, <3>1 DEF DeliveryRow
    <3>5. handled' = handled
      BY <2>3 DEF ClaimDue, history
    <3> HIDE DEF c
    <3> QED
      BY <2>1, <3>2, <3>3, <3>4, <3>5
  <2>4. CASE LoadDelivery(w)
    <3>1. PICK d \in Deliveries :
            /\ working' = [working EXCEPT ![w] =
                             [@ EXCEPT !.at = d, !.secret = endpoints[d[2]].secret,
                                       !.pc = IF endpoints[d[2]].status = "active" THEN "post"
                                              ELSE "fail"]]
            /\ UNCHANGED <<tables, emitting, replaying, history>>
      BY <2>4 DEF LoadDelivery
    <3> DEFINE c == [working[w] EXCEPT !.at = d, !.secret = endpoints[d[2]].secret,
                                       !.pc = IF endpoints[d[2]].status = "active" THEN "post"
                                              ELSE "fail"]
    <3>2. c.pc # "succeed"
      BY <1>1 DEF WorkerRun
    <3>3. working' = [working EXCEPT ![w] = c]
      BY <3>1
    <3> HIDE DEF c
    <3> QED
      BY <2>1, <3>1, <3>2, <3>3 DEF tables, history
  <2>5. CASE PostAccepted(w) \/ PostRefused(w) \/ PostTimesOut(w) \/ MarkSucceededThrows(w)
    BY <2>2, <2>5 DEF PostAccepted, PostRefused, PostTimesOut, MarkSucceededThrows, tables, history
  <2>6. CASE MarkSucceeded(w) \/ FailDelivery(w)
    <3> DEFINE left == [working[w].held EXCEPT ![at] = 0]
               c == [pc |-> IF \E x \in Deliveries : left[x] > 0 THEN "load" ELSE "idle",
                     held |-> left, at |-> None, secret |-> None]
    <3>1. working' = [working EXCEPT ![w] = c] /\ handled' = handled
      BY <2>6 DEF MarkSucceeded, FailDelivery, NextInBatch, history
    <3>2. c.pc # "succeed"
      OBVIOUS
    <3>3. at \in Deliveries
      BY <2>6, WorkerFacts DEF MarkSucceeded, FailDelivery
    <3>4. \A d \in Deliveries : deliveries'[d].status = "succeeded" =>
            deliveries[d].status = "succeeded" \/ handled[d] > 0
      <4>1. CASE MarkSucceeded(w)
        <5>1. handled[at] > 0
          BY <4>1 DEF MarkSucceeded, SuccessHeard
        <5>2. \A d \in Deliveries : d # at => deliveries'[d] = deliveries[d]
          BY <1>1, <4>1 DEF MarkSucceeded
        <5> QED
          BY <5>1, <5>2
      <4>2. CASE FailDelivery(w)
        <5> DEFINE dead == [deliveries[at] EXCEPT !.status = "dead"]
                   failed == [deliveries[at] EXCEPT !.status = "failed", !.due = FALSE]
        <5>1. dead.status = "dead" /\ failed.status = "failed"
          BY <1>1, <3>3 DEF DeliveryRow
        <5>2. \/ deliveries' = [deliveries EXCEPT ![at] = dead]
              \/ deliveries' = [deliveries EXCEPT ![at] = failed]
          BY <4>2 DEF FailDelivery
        <5> HIDE DEF dead, failed
        <5> QED
          BY <1>1, <3>3, <5>1, <5>2
      <4> QED
        BY <2>6, <4>1, <4>2
    <3> HIDE DEF c
    <3> QED
      BY <2>1, <3>1, <3>2, <3>4
  <2>7. CASE WorkerDies(w)
    <3>1. working' = [working EXCEPT ![w] = WorkerIdle] /\ UNCHANGED <<deliveries, handled>>
      BY <2>7 DEF WorkerDies, tables, history
    <3>2. WorkerIdle.pc = "idle"
      BY DEF WorkerIdle
    <3> QED
      BY <2>1, <3>1, <3>2
  <2> QED
    BY <1>8, <2>3, <2>4, <2>5, <2>6, <2>7 DEF WorkerStep
<1>9. ASSUME NEW d \in Deliveries, BackoffPasses(d) \/ Requeue(d)
      PROVE  SuccessHeard' /\ SucceededWasHandled'
  <2> DEFINE due == [deliveries[d] EXCEPT !.due = TRUE]
             again == [deliveries[d] EXCEPT !.status = "queued", !.due = TRUE]
  <2>1. /\ due.status = deliveries[d].status /\ again.status = "queued"
        /\ UNCHANGED <<working, handled>>
    BY <1>1, <1>9 DEF DeliveryRow, BackoffPasses, Requeue, calls, history
  <2>2. \/ deliveries' = [deliveries EXCEPT ![d] = due] /\ deliveries[d].status = "failed"
        \/ deliveries' = [deliveries EXCEPT ![d] = again]
    BY <1>9 DEF BackoffPasses, Requeue
  <2> HIDE DEF due, again
  <2> QED
    BY <1>4, <2>1, <2>2
<1>10. ASSUME NEW r \in Replays,
             (\E n \in Notices : StartReplay(r, n)) \/ CreateReplayed(r) \/ AbortReplay(r)
      PROVE  SuccessHeard' /\ SucceededWasHandled'
  <2>1. CASE CreateReplayed(r)
    <3>1. PICK e \in replaying[r].todo :
            \/ UNCHANGED deliveries
            \/ deliveries' = [deliveries EXCEPT ![<<replaying[r].notice, e>>] = NewDelivery]
      BY <2>1 DEF CreateReplayed
    <3>2. e \in Endpoints /\ replaying[r].notice \in Notices
      BY DEF DeliveryInv, DeliveryTypeOK, CallsWellFormed, ReplayCall
    <3>3. NewDelivery.status # "succeeded" /\ UNCHANGED <<working, handled>>
      BY <2>1 DEF NewDelivery, CreateReplayed, history
    <3> QED
      BY <1>3, <1>4, <3>1, <3>2, <3>3 DEF Deliveries
  <2>2. CASE ~CreateReplayed(r)
    BY <1>3, <1>10, <2>2 DEF StartReplay, AbortReplay, tables, history
  <2> QED
    BY <2>1, <2>2
<1> QED
  BY <1>5, <1>6, <1>7, <1>8, <1>9, <1>10 DEF Next

(* A row that says succeeded was accepted by the merchant.                 *)
THEOREM SuccessIsTrue == Spec => []SucceededWasHandled
<1>1. Init => SuccessHeard /\ SucceededWasHandled
  BY DEF Init, SuccessHeard, SucceededWasHandled, WorkerIdle
<1>2. /\ DeliveryInv /\ SuccessHeard /\ SucceededWasHandled /\ [Next]_vars
      => SuccessHeard' /\ SucceededWasHandled'
  BY SuccessKept, DeliveryAssumption
<1> QED
  BY <1>1, <1>2, DeliveryHolds, PTL DEF Spec
-----------------------------------------------------------------------------
(***************************************************************************)
(* No notice is lost but by a death (of a run, or of the emitter).         *)
(***************************************************************************)

(* What a worker's step may do to the row d, and to who holds it.          *)
LetsGo(w, d) ==
    /\ deliveries[d].status = "delivering"
    /\ d \in died => d \in died'
    /\ working[w].held[d] > 0 =>
         d \in died' \/ \E v \in Workers \ {w} : working[v].held[d] > 0

RowAfter(w, d) ==
    /\ UNCHANGED <<emitting, listed, cut>>
    /\ \A v \in Workers : v # w => working'[v] = working[v]
    /\ deliveries'[d].status = "absent" => deliveries[d].status = "absent"
    /\ deliveries'[d].status = "delivering" => working'[w].held[d] > 0 \/ LetsGo(w, d)

(* The step leaves the row alone, and the worker holds on to it if it did. *)
LEMMA RowLeftAlone ==
    ASSUME DeliveryInv, NEW w \in Workers, NEW d \in Deliveries, NEW c,
           working' = [working EXCEPT ![w] = c], c.held[d] = working[w].held[d],
           deliveries'[d] = deliveries[d], UNCHANGED <<emitting, listed, cut, died>>
    PROVE  RowAfter(w, d)
<1>1. working'[w] = c /\ \A v \in Workers : v # w => working'[v] = working[v]
  BY WorkerFacts
<1> QED
  BY <1>1 DEF RowAfter, LetsGo

LEMMA WorkerOnRow ==
    ASSUME DeliveryAssumption, DeliveryInv, NEW w \in Workers, NEW d \in Deliveries,
           WorkerStep(w) \/ PostTimesOut(w) \/ MarkSucceededThrows(w) \/ WorkerDies(w)
    PROVE  RowAfter(w, d)
<1>1. /\ working[w] \in WorkerRun /\ working[w].held[d] \in Nat
      /\ deliveries \in [Deliveries -> DeliveryRow] /\ deliveries[d] \in DeliveryRow
      /\ deliveries[d].attempts \in Nat
  BY WorkerFacts DEF DeliveryInv, DeliveryTypeOK, DeliveryRow
<1>2. CASE ClaimDue(w)
  <2>1. PICK batch \in SUBSET Due :
          /\ deliveries' = [x \in Deliveries |->
                               IF x \in batch
                               THEN [deliveries[x] EXCEPT !.status = "delivering",
                                                          !.attempts = @ + 1]
                               ELSE deliveries[x]]
          /\ working' = [working EXCEPT ![w] =
                            [@ EXCEPT !.pc = "load",
                                      !.held = [x \in Deliveries |->
                                                  IF x \in batch THEN deliveries[x].attempts + 1
                                                  ELSE 0]]]
          /\ died' = died \ batch
    BY <1>2 DEF ClaimDue
  <2> DEFINE c == [working[w] EXCEPT !.pc = "load",
                                     !.held = [x \in Deliveries |->
                                                 IF x \in batch THEN deliveries[x].attempts + 1
                                                 ELSE 0]]
  <2>2. c.held[d] = IF d \in batch THEN deliveries[d].attempts + 1 ELSE 0
    BY <1>1 DEF WorkerRun
  <2>3. working' = [working EXCEPT ![w] = c]
    BY <2>1
  <2> HIDE DEF c
  <2>4. working'[w] = c /\ \A v \in Workers : v # w => working'[v] = working[v]
    BY <2>3, WorkerFacts
  <2>5. UNCHANGED <<emitting, listed, cut>> /\ working[w].held[d] = 0
    BY <1>2 DEF ClaimDue, DeliveryInv, WorkersWellFormed
  <2>6. CASE d \in batch
    <3>1. working'[w].held[d] > 0
      BY <1>1, <2>2, <2>4, <2>6
    <3>2. deliveries'[d].status = "delivering"
      BY <1>1, <2>1, <2>6 DEF DeliveryRow
    <3> QED
      BY <2>4, <2>5, <3>1, <3>2 DEF RowAfter
  <2>7. CASE d \notin batch
    <3>1. deliveries'[d] = deliveries[d] /\ (d \in died => d \in died')
      BY <2>1, <2>7
    <3> QED
      BY <2>4, <2>5, <3>1 DEF RowAfter, LetsGo
  <2> QED
    BY <2>6, <2>7
<1>3. CASE LoadDelivery(w)
  <2>1. PICK x \in Deliveries :
          working' = [working EXCEPT ![w] =
                        [@ EXCEPT !.at = x, !.secret = endpoints[x[2]].secret,
                                  !.pc = IF endpoints[x[2]].status = "active" THEN "post"
                                         ELSE "fail"]]
    BY <1>3 DEF LoadDelivery
  <2> DEFINE c == [working[w] EXCEPT !.at = x, !.secret = endpoints[x[2]].secret,
                                     !.pc = IF endpoints[x[2]].status = "active" THEN "post"
                                            ELSE "fail"]
  <2>2. c.held = working[w].held
    BY <1>1 DEF WorkerRun
  <2>3. working' = [working EXCEPT ![w] = c]
    BY <2>1
  <2>4. UNCHANGED <<deliveries, emitting, listed, cut, died>>
    BY <1>3 DEF LoadDelivery, tables, history
  <2> HIDE DEF c
  <2> QED
    BY <2>2, <2>3, <2>4, RowLeftAlone
<1>4. CASE PostAccepted(w) \/ PostRefused(w) \/ PostTimesOut(w) \/ MarkSucceededThrows(w)
  <2>1. PICK step \in {"fail", "succeed"} : working' = [working EXCEPT ![w].pc = step]
    BY <1>4 DEF PostAccepted, PostRefused, PostTimesOut, MarkSucceededThrows
  <2> DEFINE c == [working[w] EXCEPT !.pc = step]
  <2>2. c.held = working[w].held
    BY <1>1 DEF WorkerRun
  <2>3. working' = [working EXCEPT ![w] = c]
    BY <2>1
  <2>4. UNCHANGED <<deliveries, emitting, listed, cut, died>>
    BY <1>4 DEF PostAccepted, PostRefused, PostTimesOut, MarkSucceededThrows, tables, history
  <2> HIDE DEF c
  <2> QED
    BY <2>2, <2>3, <2>4, RowLeftAlone
<1>5. CASE MarkSucceeded(w) \/ FailDelivery(w)
  <2> DEFINE at == working[w].at
             left == [working[w].held EXCEPT ![at] = 0]
             c == [pc |-> IF \E x \in Deliveries : left[x] > 0 THEN "load" ELSE "idle",
                   held |-> left, at |-> None, secret |-> None]
             done == [deliveries[at] EXCEPT !.status = "succeeded"]
             dead == [deliveries[at] EXCEPT !.status = "dead"]
             failed == [deliveries[at] EXCEPT !.status = "failed", !.due = FALSE]
  <2>1. working' = [working EXCEPT ![w] = c] /\ c.held = left
    BY <1>5 DEF MarkSucceeded, FailDelivery, NextInBatch
  <2>2. UNCHANGED <<emitting, listed, cut, died>>
    BY <1>5 DEF MarkSucceeded, FailDelivery, history
  <2>3. at \in Deliveries /\ deliveries[at] \in DeliveryRow
    BY <1>1, <1>5, WorkerFacts DEF MarkSucceeded, FailDelivery
  <2>4. \E row \in {done, dead, failed} : deliveries' = [deliveries EXCEPT ![at] = row]
    BY <1>5 DEF MarkSucceeded, FailDelivery
  <2>5. done.status = "succeeded" /\ dead.status = "dead" /\ failed.status = "failed"
    BY <2>3 DEF DeliveryRow
  <2>6. d # at => left[d] = working[w].held[d]
    BY WorkerFacts
  <2> HIDE DEF c, done, dead, failed, left
  <2>7. CASE d = at
    <3>1. deliveries'[d].status \in {"succeeded", "dead", "failed"}
      BY <1>1, <2>3, <2>4, <2>5, <2>7
    <3>2. deliveries[d].status # "absent"
      BY <1>5, <2>7, WorkerFacts DEF MarkSucceeded, FailDelivery, DeliveryInv, RowsWellFormed
    <3>3. \A v \in Workers : v # w => working'[v] = working[v]
      BY <2>1, WorkerFacts
    <3> QED
      BY <2>2, <3>1, <3>2, <3>3 DEF RowAfter
  <2>8. CASE d # at
    <3>1. deliveries'[d] = deliveries[d]
      BY <1>1, <2>4, <2>8
    <3> QED
      BY <2>1, <2>2, <2>6, <2>8, <3>1, RowLeftAlone
  <2> QED
    BY <2>7, <2>8
<1>6. CASE WorkerDies(w)
  <2>1. /\ \A v \in Workers : v # w => working'[v] = working[v]
        /\ UNCHANGED <<deliveries, emitting, listed, cut>>
        /\ died' = died \cup {x \in Deliveries : working[w].held[x] > 0
                                 /\ \A v \in Workers \ {w} : working[v].held[x] = 0}
    BY <1>6, WorkerFacts DEF WorkerDies, tables
  <2>2. \A v \in Workers : working[v].held[d] \in Nat
    BY WorkerFacts
  <2>3. working[w].held[d] > 0 =>
          d \in died' \/ \E v \in Workers \ {w} : working[v].held[d] > 0
    <3> SUFFICES ASSUME working[w].held[d] > 0,
                        \A v \in Workers \ {w} : ~(working[v].held[d] > 0)
                 PROVE  d \in died'
      OBVIOUS
    <3>1. \A v \in Workers \ {w} : working[v].held[d] = 0
      BY <2>2
    <3> QED
      BY <2>1, <3>1
  <2> QED
    BY <2>1, <2>3 DEF RowAfter, LetsGo
<1> QED
  BY <1>2, <1>3, <1>4, <1>5, <1>6 DEF WorkerStep

(* Nobody but a worker claims, and no row is ever deleted.                 *)
RowOfOthers(d) ==
    /\ UNCHANGED <<working, died>>
    /\ deliveries'[d].status = "delivering" => deliveries[d].status = "delivering"
    /\ deliveries'[d].status = "absent" => deliveries[d].status = "absent"

EmitterMay(m) == (\E n \in Notices : StartEmit(m, n)) \/ EmitStep(m) \/ AbortEmit(m)
ReplayMay(r) == (\E n \in Notices : StartReplay(r, n)) \/ CreateReplayed(r) \/ AbortReplay(r)

LEMMA EmitterOnRow ==
    ASSUME DeliveryInv, NEW m \in Emitters, NEW d \in Deliveries, EmitterMay(m)
    PROVE  RowOfOthers(d)
<1>1. CASE CreateDelivery(m)
  <2>1. deliveries \in [Deliveries -> DeliveryRow] /\ UNCHANGED <<working, died>>
    BY <1>1 DEF DeliveryInv, DeliveryTypeOK, CreateDelivery
  <2>2. \/ UNCHANGED deliveries
        \/ deliveries' = [deliveries EXCEPT ![<<emitting[m].notice, emitting[m].at>>] = NewDelivery]
    BY <1>1 DEF CreateDelivery
  <2>3. deliveries'[d] = deliveries[d] \/ deliveries'[d] = NewDelivery
    BY <2>1, <2>2
  <2> QED
    BY <2>1, <2>3 DEF RowOfOthers, NewDelivery
<1>2. CASE ~CreateDelivery(m)
  <2>1. UNCHANGED <<deliveries, working, died>>
    BY <1>2 DEF EmitterMay, StartEmit, EmitStep, SelectEvent, InsertEvent, CheckDelivery,
                FinishEmit, AbortEmit, tables, history
  <2> QED
    BY <2>1 DEF RowOfOthers
<1> QED
  BY <1>1, <1>2

LEMMA ReplayOnRow ==
    ASSUME DeliveryInv, NEW r \in Replays, NEW d \in Deliveries, ReplayMay(r)
    PROVE  RowOfOthers(d) /\ UNCHANGED <<emitting, listed, cut>>
<1>1. UNCHANGED <<working, died, emitting, listed, cut>>
  BY DEF ReplayMay, StartReplay, CreateReplayed, AbortReplay, history
<1>2. deliveries \in [Deliveries -> DeliveryRow]
  BY DEF DeliveryInv, DeliveryTypeOK
<1>3. \/ UNCHANGED deliveries
      \/ \E e \in Endpoints :
           deliveries' = [deliveries EXCEPT ![<<replaying[r].notice, e>>] = NewDelivery]
  BY DEF ReplayMay, StartReplay, CreateReplayed, AbortReplay, tables, DeliveryInv,
         DeliveryTypeOK, ReplayCall
<1>4. deliveries'[d] = deliveries[d] \/ deliveries'[d] = NewDelivery
  BY <1>2, <1>3
<1> QED
  BY <1>1, <1>4 DEF RowOfOthers, NewDelivery

LEMMA OperatorOnRow ==
    ASSUME DeliveryInv, NEW d \in Deliveries,
           \/ ManageEndpoints
           \/ \E x \in Deliveries : BackoffPasses(x) \/ Requeue(x)
           \/ UNCHANGED vars
    PROVE  RowOfOthers(d) /\ UNCHANGED <<emitting, listed, cut>>
<1>1. deliveries \in [Deliveries -> DeliveryRow]
  BY DEF DeliveryInv, DeliveryTypeOK
<1>2. CASE ManageEndpoints
  <2>1. UNCHANGED <<deliveries, calls, history>>
    BY <1>2 DEF ManageEndpoints, CreateEndpoint, DisableEndpoint, RotateSecret
  <2> QED
    BY <2>1 DEF RowOfOthers, calls, history
<1>3. ASSUME NEW x \in Deliveries, BackoffPasses(x)
      PROVE  RowOfOthers(d) /\ UNCHANGED <<emitting, listed, cut>>
  <2>1. deliveries'[d].status = deliveries[d].status
    BY <1>1, <1>3 DEF BackoffPasses, DeliveryRow
  <2> QED
    BY <1>3, <2>1 DEF BackoffPasses, RowOfOthers, calls, history
<1>4. ASSUME NEW x \in Deliveries, Requeue(x)
      PROVE  RowOfOthers(d) /\ UNCHANGED <<emitting, listed, cut>>
  <2>1. deliveries'[d].status = "queued" \/ deliveries'[d] = deliveries[d]
    BY <1>1, <1>4 DEF Requeue, DeliveryRow
  <2> QED
    BY <1>4, <2>1 DEF Requeue, RowOfOthers, calls
<1>5. CASE UNCHANGED vars
  BY <1>5 DEF vars, tables, calls, history, RowOfOthers
<1> QED
  BY <1>2, <1>3, <1>4, <1>5

LEMMA AbandonedKept ==
    ASSUME DeliveryAssumption, DeliveryInv, AbandonedByDeath, [Next]_vars
    PROVE  AbandonedByDeath'
<1> SUFFICES ASSUME NEW d \in Deliveries, Abandoned(d)' PROVE d \in died'
  BY DEF AbandonedByDeath
<1>1. /\ deliveries'[d].status = "delivering"
      /\ \A w \in Workers : working'[w].held[d] = 0
  BY DEF Abandoned
<1>2. CASE RowOfOthers(d)
  BY <1>1, <1>2 DEF RowOfOthers, Abandoned, AbandonedByDeath
<1>3. ASSUME NEW w \in Workers,
             WorkerStep(w) \/ PostTimesOut(w) \/ MarkSucceededThrows(w) \/ WorkerDies(w)
      PROVE  d \in died'
  <2>1. RowAfter(w, d)
    BY <1>3, WorkerOnRow
  <2>2. LetsGo(w, d)
    BY <1>1, <2>1 DEF RowAfter
  <2>3. \A v \in Workers : working[v].held[d] \in Nat
    BY WorkerFacts
  <2>4. \A v \in Workers : v # w => working[v].held[d] = 0
    BY <1>1, <2>1 DEF RowAfter
  <2>5. CASE working[w].held[d] > 0
    BY <2>2, <2>4, <2>5 DEF LetsGo
  <2>6. CASE working[w].held[d] = 0
    <3>1. Abandoned(d)
      BY <2>2, <2>4, <2>6 DEF LetsGo, Abandoned
    <3> QED
      BY <2>2, <3>1 DEF LetsGo, AbandonedByDeath
  <2> QED
    BY <2>3, <2>5, <2>6
<1> QED
  BY <1>2, <1>3, EmitterOnRow, ReplayOnRow, OperatorOnRow DEF Next, EmitterMay, ReplayMay

(* A row left "delivering" with nobody to finish it was left so by a run   *)
(* that died: a run that goes on records how each attempt ended.           *)
THEOREM OnlyDeathsAbandon == Spec => []AbandonedByDeath
<1>1. Init => AbandonedByDeath
  BY DEF Init, AbandonedByDeath, Abandoned
<1>2. DeliveryInv /\ AbandonedByDeath /\ [Next]_vars => AbandonedByDeath'
  BY AbandonedKept, DeliveryAssumption
<1> QED
  BY <1>1, <1>2, DeliveryHolds, PTL DEF Spec

(* The rows that were missing and were accounted for still are.            *)
LEMMA AllStillOwed ==
    ASSUME NoneIsPassedOver, UNCHANGED <<emitting, listed, cut>>,
           \A d \in Deliveries : deliveries'[d].status = "absent" => deliveries[d].status = "absent"
    PROVE  NoneIsPassedOver'
BY DEF NoneIsPassedOver, Owes

(* Only the emitter m moves, and it still owes what it owed.               *)
LEMMA EmitterStillOwes ==
    ASSUME DeliveryInv, NoneIsPassedOver, NEW m \in Emitters, NEW c,
           emitting' = [emitting EXCEPT ![m] = c], cut \subseteq cut',
           NEW d \in Deliveries, d[2] \in listed[d[1]], deliveries[d].status = "absent",
           Owes(m, d) => d[1] \in cut' \/ Owes(m, d)'
    PROVE  d[1] \in cut' \/ \E v \in Emitters : Owes(v, d)'
<1>1. d[1] \in cut \/ \E v \in Emitters : Owes(v, d)
  BY DEF NoneIsPassedOver
<1>2. \A v \in Emitters : v # m => emitting'[v] = emitting[v]
  BY DEF DeliveryInv, DeliveryTypeOK
<1>3. ASSUME NEW v \in Emitters, Owes(v, d)
      PROVE  d[1] \in cut' \/ \E x \in Emitters : Owes(x, d)'
  <2>1. CASE v = m
    BY <1>3, <2>1
  <2>2. CASE v # m
    BY <1>2, <1>3, <2>2 DEF Owes
  <2> QED
    BY <2>1, <2>2
<1> QED
  BY <1>1, <1>3

LEMMA EmitterPassesNoneOver ==
    ASSUME DeliveryAssumption, DeliveryInv, NoneIsPassedOver, NEW m \in Emitters, EmitterMay(m)
    PROVE  NoneIsPassedOver'
<1> SUFFICES ASSUME NEW d \in Deliveries,
                    d[2] \in listed'[d[1]], deliveries'[d].status = "absent"
             PROVE  d[1] \in cut' \/ \E v \in Emitters : Owes(v, d)'
  BY DEF NoneIsPassedOver
<1> DEFINE n == emitting[m].notice
<1>1. /\ emitting \in [Emitters -> EmitCall] /\ emitting[m] \in EmitCall
      /\ deliveries \in [Deliveries -> DeliveryRow] /\ listed \in [Notices -> SUBSET Endpoints]
      /\ emitting[m].pc # "idle" => n \in Notices
      /\ d[1] \in Notices /\ d[2] \in Endpoints /\ d = <<d[1], d[2]>>
  BY DEF DeliveryInv, DeliveryTypeOK, CallsWellFormed, Deliveries
<1>2. deliveries[d].status = "absent"
  BY EmitterOnRow DEF RowOfOthers
<1>3. CASE \E x \in Notices : StartEmit(m, x)
  <2>1. PICK c : emitting' = [emitting EXCEPT ![m] = c]
    BY <1>3 DEF StartEmit
  <2>2. ~Owes(m, d) /\ UNCHANGED <<listed, cut>>
    BY <1>3 DEF StartEmit, Owes, history
  <2> QED
    BY <1>2, <2>1, <2>2, EmitterStillOwes
<1>4. CASE SelectEvent(m)
  <2>1. PICK c : emitting' = [emitting EXCEPT ![m] = c]
    BY <1>1, <1>4 DEF SelectEvent, EmitReturns, EmitTo
  <2>2. ~Owes(m, d) /\ UNCHANGED <<listed, cut>>
    BY <1>4 DEF SelectEvent, Owes, history
  <2> QED
    BY <1>2, <2>1, <2>2, EmitterStillOwes
<1>5. CASE InsertEvent(m)
  <2> DEFINE c == [emitting[m] EXCEPT !.pc = "check"]
  <2>1. ~Owes(m, d) /\ UNCHANGED cut
    BY <1>5 DEF InsertEvent, Owes
  <2>2. CASE n \in events
    <3>1. emitting' = [emitting EXCEPT ![m] = EmitIdle] /\ UNCHANGED listed
      BY <1>5, <2>2 DEF InsertEvent, EmitReturns
    <3> QED
      BY <1>2, <2>1, <3>1, EmitterStillOwes
  <2>3. CASE n \notin events
    <3>1. /\ emitting' = [emitting EXCEPT ![m] = c]
          /\ listed' = [listed EXCEPT ![n] = emitting[m].todo]
      BY <1>5, <2>3 DEF InsertEvent, EmitTo
    <3>2. c.pc = "check" /\ c.notice = n /\ c.todo = emitting[m].todo
      BY <1>1 DEF EmitCall
    <3> HIDE DEF c
    <3>3. CASE d[1] = n
      <4>1. d[2] \in emitting[m].todo
        BY <1>1, <3>1, <3>3
      <4>2. emitting'[m] = c
        BY <1>1, <3>1
      <4>3. Owes(m, d)'
        BY <3>2, <3>3, <4>1, <4>2 DEF Owes
      <4> QED
        BY <4>3
    <3>4. CASE d[1] # n
      <4>1. d[2] \in listed[d[1]]
        BY <1>1, <3>1, <3>4
      <4> QED
        BY <1>2, <2>1, <3>1, <4>1, EmitterStillOwes
    <3> QED
      BY <3>3, <3>4
  <2> QED
    BY <2>2, <2>3
<1>6. CASE CheckDelivery(m)
  <2>1. PICK e \in emitting[m].todo :
          IF deliveries[<<n, e>>].status = "absent"
          THEN emitting' = [emitting EXCEPT ![m] = [@ EXCEPT !.pc = "create", !.at = e]]
          ELSE emitting' = [emitting EXCEPT ![m].todo = @ \ {e}]
    BY <1>6 DEF CheckDelivery
  <2>2. emitting[m].pc = "check" /\ UNCHANGED <<listed, cut>>
    BY <1>6 DEF CheckDelivery, history
  <2>3. CASE deliveries[<<n, e>>].status = "absent"
    <3> DEFINE c == [emitting[m] EXCEPT !.pc = "create", !.at = e]
    <3>1. c.pc = "create" /\ c.notice = n /\ c.todo = emitting[m].todo
      BY <1>1 DEF EmitCall
    <3>2. emitting' = [emitting EXCEPT ![m] = c]
      BY <2>1, <2>3
    <3> HIDE DEF c
    <3>3. emitting'[m] = c
      BY <1>1, <3>2
    <3>4. Owes(m, d) => Owes(m, d)'
      BY <3>1, <3>3 DEF Owes
    <3> QED
      BY <1>2, <2>2, <3>2, <3>4, EmitterStillOwes
  <2>4. CASE deliveries[<<n, e>>].status # "absent"
    <3> DEFINE c == [emitting[m] EXCEPT !.todo = @ \ {e}]
    <3>1. c.pc = "check" /\ c.notice = n /\ c.todo = emitting[m].todo \ {e}
      BY <1>1, <2>2 DEF EmitCall
    <3>2. emitting' = [emitting EXCEPT ![m] = c]
      BY <2>1, <2>4
    <3> HIDE DEF c
    <3>3. emitting'[m] = c
      BY <1>1, <3>2
    <3>4. d[1] = n => d[2] # e
      BY <1>1, <1>2, <2>4
    <3>5. Owes(m, d) => Owes(m, d)'
      BY <3>1, <3>3, <3>4 DEF Owes
    <3> QED
      BY <1>2, <2>2, <3>2, <3>5, EmitterStillOwes
  <2> QED
    BY <2>3, <2>4
<1>7. CASE CreateDelivery(m)
  <2> DEFINE e == emitting[m].at
  <2>1. emitting[m].pc = "create" /\ UNCHANGED listed /\ e \in Endpoints /\ n \in Notices
    BY <1>1, <1>7 DEF CreateDelivery, DeliveryInv, CallsWellFormed
  <2>2. CASE deliveries[<<n, e>>].status = "absent"
    <3> DEFINE c == [emitting[m] EXCEPT !.pc = "check", !.at = None, !.todo = @ \ {e}]
    <3>1. c.pc = "check" /\ c.notice = n /\ c.todo = emitting[m].todo \ {e}
      BY <1>1 DEF EmitCall
    <3>2. /\ emitting' = [emitting EXCEPT ![m] = c] /\ UNCHANGED cut
          /\ deliveries' = [deliveries EXCEPT ![<<n, e>>] = NewDelivery]
      BY <1>7, <2>2 DEF CreateDelivery
    <3> HIDE DEF c
    <3>3. emitting'[m] = c
      BY <1>1, <3>2
    <3>4. <<n, e>> \in Deliveries
      BY <2>1 DEF Deliveries
    <3>5. deliveries'[<<n, e>>].status = "queued"
      BY <1>1, <3>2, <3>4 DEF NewDelivery
    <3>6. d[1] = n => d[2] # e
      BY <1>1, <3>5
    <3>7. Owes(m, d) => Owes(m, d)'
      BY <3>1, <3>3, <3>6 DEF Owes
    <3> QED
      BY <1>2, <2>1, <3>2, <3>7, EmitterStillOwes
  <2>3. CASE deliveries[<<n, e>>].status # "absent"
    <3>1. emitting' = [emitting EXCEPT ![m] = EmitIdle] /\ cut' = cut \cup {n}
      BY <1>7, <2>3 DEF CreateDelivery, EmitReturns
    <3>2. Owes(m, d) => d[1] \in cut'
      BY <3>1 DEF Owes
    <3> QED
      BY <1>2, <2>1, <3>1, <3>2, EmitterStillOwes
  <2> QED
    BY <2>2, <2>3
<1>8. CASE FinishEmit(m)
  <2>1. emitting' = [emitting EXCEPT ![m] = EmitIdle] /\ UNCHANGED <<listed, cut>>
    BY <1>8 DEF FinishEmit, EmitReturns, history
  <2>2. ~Owes(m, d)
    BY <1>8 DEF FinishEmit, Owes
  <2> QED
    BY <1>2, <2>1, <2>2, EmitterStillOwes
<1>9. CASE AbortEmit(m)
  <2>1. /\ emitting' = [emitting EXCEPT ![m] = EmitIdle] /\ UNCHANGED listed
        /\ cut' = IF emitting[m].pc \in {"check", "create"} THEN cut \cup {n} ELSE cut
    BY <1>9 DEF AbortEmit, EmitReturns
  <2>2. Owes(m, d) => d[1] \in cut'
    BY <2>1 DEF Owes
  <2> QED
    BY <1>2, <2>1, <2>2, EmitterStillOwes
<1> QED
  BY <1>3, <1>4, <1>5, <1>6, <1>7, <1>8, <1>9 DEF EmitterMay, EmitStep

LEMMA NoneIsEverPassedOver ==
    ASSUME DeliveryAssumption, DeliveryInv, NoneIsPassedOver, [Next]_vars
    PROVE  NoneIsPassedOver'
<1>1. ASSUME NEW w \in Workers,
             WorkerStep(w) \/ PostTimesOut(w) \/ MarkSucceededThrows(w) \/ WorkerDies(w)
      PROVE  NoneIsPassedOver'
  <2>1. \A d \in Deliveries : RowAfter(w, d)
    BY <1>1, WorkerOnRow
  <2>2. CASE Deliveries = {}
    BY <2>2 DEF NoneIsPassedOver
  <2>3. CASE Deliveries # {}
    BY <2>1, <2>3, AllStillOwed DEF RowAfter
  <2> QED
    BY <2>2, <2>3
<1>2. ASSUME NEW r \in Replays, ReplayMay(r) PROVE NoneIsPassedOver'
  <2>1. \A d \in Deliveries : RowOfOthers(d) /\ UNCHANGED <<emitting, listed, cut>>
    BY <1>2, ReplayOnRow
  <2>2. CASE Deliveries = {}
    BY <2>2 DEF NoneIsPassedOver
  <2>3. CASE Deliveries # {}
    BY <2>1, <2>3, AllStillOwed DEF RowOfOthers
  <2> QED
    BY <2>2, <2>3
<1>3. CASE \/ ManageEndpoints
           \/ \E x \in Deliveries : BackoffPasses(x) \/ Requeue(x)
           \/ UNCHANGED vars
  <2>1. \A d \in Deliveries : RowOfOthers(d) /\ UNCHANGED <<emitting, listed, cut>>
    BY <1>3, OperatorOnRow
  <2>2. CASE Deliveries = {}
    BY <2>2 DEF NoneIsPassedOver
  <2>3. CASE Deliveries # {}
    BY <2>1, <2>3, AllStillOwed DEF RowOfOthers
  <2> QED
    BY <2>2, <2>3
<1> QED
  BY <1>1, <1>2, <1>3, EmitterPassesNoneOver DEF Next, EmitterMay, ReplayMay

(* Every endpoint an event was stored for gets its delivery, from the      *)
(* emitter that stored it or from whoever was first, unless that emitter   *)
(* was cut off.                                                            *)
THEOREM NoticesAreMade == Spec => []NoneIsPassedOver
<1>1. Init => NoneIsPassedOver
  BY DEF Init, NoneIsPassedOver, Deliveries
<1>2. DeliveryInv /\ NoneIsPassedOver /\ [Next]_vars => NoneIsPassedOver'
  BY NoneIsEverPassedOver, DeliveryAssumption
<1> QED
  BY <1>1, <1>2, DeliveryHolds, PTL DEF Spec
=============================================================================
