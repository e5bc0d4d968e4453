------------------------- MODULE ApiRequestsProofs -------------------------
(***************************************************************************)
(* What ApiRequests promises of access holds for any number of clients,    *)
(* secrets, merchants, concurrent requests and restarts, and any length of *)
(* time: what is recorded of a request that was let in stays true of the   *)
(* tables, because they only ever grow or revoke.                          *)
(***************************************************************************)
EXTENDS ApiRequests, FiniteSetTheorems, TLAPS

(* A client's secrets are managed on routes of the client; a merchant that *)
(* does not exist yet cannot be named; no method is the name of the        *)
(* limiter's bucket for all of them.                                       *)
LEMMA RouteSubjects ==
    ASSUME NEW route \in Routes
    PROVE  /\ route.act \in {"create", "rotate", "revoke"} => route.subject = "client"
           /\ route.act = "create_merchant" => route.subject = "none"
           /\ route.method # "global"
<1>1. ASSUME NEW name, NEW method, NEW any, NEW act
      PROVE  /\ OnMerchant(name, method, any, act).act = act
             /\ OnMerchant(name, method, any, act).method = method
             /\ OnMerchant(name, method, any, act).subject = "merchant"
  BY DEF OnMerchant
<1>3. CASE route \in PaymentRoutes
  BY <1>1, <1>3 DEF PaymentRoutes, CreateIntentRoute, IntentStatusRoute, RefundabilityRoute,
     GatewayPaymentRoute, ReconcileRoute, RefreshRoute, RefundRoute, VoidRoute,
     PaymentOptionsRoute
<1>4. CASE route \in MerchantRoutes
  BY <1>1, <1>4 DEF MerchantRoutes, ReadMerchantRoute, CreateAccountRoute, ReadAccountRoute,
     ListMethodsRoute, UpsertMethodRoute, SyncMethodsRoute, MerchantMethodsRoute,
     CreateEndpointRoute, ListEndpointsRoute, DisableEndpointRoute, RotateEndpointRoute,
     ListDeliveriesRoute, ReplayRoute
<1>5. CASE route = CreateMerchantRoute
  BY <1>5 DEF CreateMerchantRoute
<1>6. CASE route \in CredentialRoutes
  BY <1>6 DEF OnClient, CredentialRoutes, CreateCredentialRoute, ListCredentialsRoute,
     RotateCredentialRoute, RevokeCredentialRoute
<1>7. CASE route \in SigningKeyRoutes
  BY <1>7 DEF OnClient, SigningKeyRoutes, CreateSigningKeyRoute, ListSigningKeysRoute,
     RotateSigningKeyRoute, RevokeSigningKeyRoute
<1>8. CASE route \in {MerchantAuditRoute, OwnAuditRoute}
  BY <1>1, <1>8 DEF OnClient, MerchantAuditRoute, OwnAuditRoute
<1> QED
  BY <1>3, <1>4, <1>5, <1>6, <1>7, <1>8 DEF Routes

-----------------------------------------------------------------------------
(* The tables: a secret has an active client, and what is not revoked has  *)
(* no date of revocation.                                                  *)
TablesInv ==
    /\ AccessTypeOK
    /\ \A s \in Secrets :
         /\ secrets[s].status # "absent" => secrets[s].client \in Clients
         /\ secrets[s].status = "active" => secrets[s].revokedAt = Never
    /\ \A g \in Clients \X Merchants :
         grants[g].status = "active" => grants[g].revokedAt = Never
    /\ \A m, n \in Merchants :
         m # n /\ merchants[m].ref # None => merchants[m].ref # merchants[n].ref
    /\ \A m \in Merchants : merchants[m].status = "absent" => merchants[m].ref = None

(* What a row says of its past does not change; it may be revoked, now.    *)
Lasts(old, new) ==
    old.status # "absent" =>
      new.status # "absent" /\ (new.revokedAt = old.revokedAt \/ new.revokedAt = now)

TablesLast ==
    /\ now' >= now
    /\ \A s \in Secrets :
         /\ Lasts(secrets[s], secrets'[s])
         /\ secrets[s].status # "absent" =>
              secrets'[s].client = secrets[s].client /\ secrets'[s].expires = secrets[s].expires
    /\ \A c \in Clients : clients[c].status = "active" => clients'[c] = clients[c]
    /\ \A g \in Clients \X Merchants :
         /\ Lasts(grants[g], grants'[g])
         /\ grants[g].status # "absent" => grants'[g].scopes = grants[g].scopes

LEMMA TablesStart == AccessAssumption /\ AccessInit => TablesInv
BY DEF AccessAssumption, AccessInit, TablesInv, AccessTypeOK, ClientRow, SecretRow, MerchantRow,
       GrantRow, Times, Never, Moments

LEMMA TablesUnchanged ==
    ASSUME AccessAssumption, TablesInv, UNCHANGED accessVars
    PROVE  TablesInv' /\ TablesLast
BY DEF accessVars, TablesInv, AccessTypeOK, TablesLast, Lasts, Times, AccessAssumption

LEMMA TickKeeps ==
    ASSUME AccessAssumption, TablesInv, Tick
    PROVE  TablesInv' /\ TablesLast
<1>1. now \in Nat /\ now' = now + 1 /\ now < MaxNow
  BY DEF TablesInv, AccessTypeOK, Times, Tick
<1>2. UNCHANGED <<commands, clients, secrets, merchants, grants>>
  BY DEF Tick
<1>3. AccessTypeOK'
  BY <1>1, <1>2 DEF TablesInv, AccessTypeOK, Times, AccessAssumption
<1> QED
  BY <1>1, <1>2, <1>3 DEF TablesInv, TablesLast, Lasts

LEMMA InsertSecretKeeps ==
    ASSUME AccessAssumption, TablesInv, NEW s \in Secrets, NEW c \in Clients,
           NEW expires \in Moments, InsertSecret(s, c, expires),
           now' = now, commands' \in 0..MaxCommands, UNCHANGED <<clients, merchants, grants>>
    PROVE  TablesInv' /\ TablesLast
<1> DEFINE row == [status |-> "active", client |-> c, expires |-> expires, revokedAt |-> Never]
<1>1. row \in SecretRow /\ row.status = "active" /\ row.client = c /\ row.revokedAt = Never
  BY DEF SecretRow, Moments, Never, AccessAssumption
<1>2. secrets[s].status = "absent" /\ secrets' = [secrets EXCEPT ![s] = row]
  BY DEF InsertSecret
<1> HIDE DEF row
<1>3. \A x \in Secrets : secrets'[x] = IF x = s THEN row ELSE secrets[x]
  BY <1>2 DEF TablesInv, AccessTypeOK
<1>4. AccessTypeOK'
  BY <1>1, <1>2 DEF TablesInv, AccessTypeOK
<1>5. TablesInv'
  BY <1>1, <1>3, <1>4 DEF TablesInv
<1>6. now \in Int
  BY DEF TablesInv, AccessTypeOK, Times
<1>7. TablesLast
  BY <1>2, <1>3, <1>6 DEF TablesLast, Lasts
<1> QED
  BY <1>5, <1>7

LEMMA RevokeSecretKeeps ==
    ASSUME AccessAssumption, TablesInv, NEW s \in Secrets, secrets[s].status # "absent",
           RevokeSecret(s), now' = now, commands' \in 0..MaxCommands,
           UNCHANGED <<clients, merchants, grants>>
    PROVE  TablesInv' /\ TablesLast
<1> DEFINE row == [secrets[s] EXCEPT !.status = "revoked", !.revokedAt = now]
<1>1. secrets[s] \in SecretRow /\ now \in Moments /\ now \in Int
  BY DEF TablesInv, AccessTypeOK, Times, Moments, Never, AccessAssumption
<1>2. /\ row \in SecretRow /\ row.status = "revoked" /\ row.client = secrets[s].client
      /\ row.expires = secrets[s].expires /\ row.revokedAt = now
  BY <1>1 DEF SecretRow
<1>3. secrets' = [secrets EXCEPT ![s] = row]
  BY DEF RevokeSecret
<1> HIDE DEF row
<1>4. \A x \in Secrets : secrets'[x] = IF x = s THEN row ELSE secrets[x]
  BY <1>3 DEF TablesInv, AccessTypeOK
<1>5. AccessTypeOK'
  BY <1>2, <1>3 DEF TablesInv, AccessTypeOK
<1>6. TablesInv'
  BY <1>2, <1>4, <1>5 DEF TablesInv
<1>7. TablesLast
  BY <1>1, <1>2, <1>4 DEF TablesLast, Lasts
<1> QED
  BY <1>6, <1>7

(* A merchant, and perhaps the grant of its creator.                       *)
LEMMA InsertMerchantKeeps ==
    ASSUME AccessAssumption, TablesInv, NEW m \in Merchants, NEW ref \in Refs \cup {None},
           InsertMerchant(m, ref), now' = now, commands' \in 0..MaxCommands,
           UNCHANGED <<clients, secrets>>,
           \/ UNCHANGED grants
           \/ \E c \in Clients, n \in Merchants, scopes \in SUBSET UNION ScopeSets :
                InsertGrant(c, n, scopes)
    PROVE  TablesInv' /\ TablesLast
<1> DEFINE row == [status |-> "active", ref |-> ref]
<1>1. row \in MerchantRow /\ row.ref = ref /\ row.status = "active"
  BY DEF MerchantRow
<1>2. merchants' = [merchants EXCEPT ![m] = row] /\ ~RefTaken(ref) /\ merchants[m].status = "absent"
  BY DEF InsertMerchant, IndexRefuses
<1> HIDE DEF row
<1>3. \A n \in Merchants : merchants'[n] = IF n = m THEN row ELSE merchants[n]
  BY <1>2 DEF TablesInv, AccessTypeOK
<1>4. /\ grants' \in [Clients \X Merchants -> GrantRow]
      /\ \A g \in Clients \X Merchants :
           /\ grants'[g].status = "active" => grants'[g].revokedAt = Never
           /\ grants[g].status # "absent" => grants'[g] = grants[g]
  <2>1. CASE UNCHANGED grants
    BY <2>1 DEF TablesInv, AccessTypeOK
  <2>2. ASSUME NEW c \in Clients, NEW n \in Merchants, NEW scopes \in SUBSET UNION ScopeSets,
               InsertGrant(c, n, scopes)
        PROVE  <1>4!1 /\ <1>4!2
    <3> DEFINE grant == [status |-> "active", scopes |-> scopes, revokedAt |-> Never]
    <3>1. grant \in GrantRow /\ grant.revokedAt = Never
      BY DEF GrantRow, Moments, Never, AccessAssumption
    <3>2. grants' = [grants EXCEPT ![<<c, n>>] = grant] /\ grants[<<c, n>>].status = "absent"
      BY <2>2 DEF InsertGrant
    <3> HIDE DEF grant
    <3> QED
      BY <3>1, <3>2 DEF TablesInv, AccessTypeOK
  <2> QED
    BY <2>1, <2>2
<1>5. AccessTypeOK'
  BY <1>1, <1>2, <1>4 DEF TablesInv, AccessTypeOK
<1>6. \A n \in Merchants : n # m /\ ref # None => merchants[n].ref # ref
  BY <1>2 DEF RefTaken
<1>7. TablesInv'
  <2>1. \A x, y \in Merchants : x # y /\ merchants'[x].ref # None => merchants'[x].ref # merchants'[y].ref
    BY <1>1, <1>3, <1>6 DEF TablesInv
  <2> QED
    BY <1>1, <1>3, <1>4, <1>5, <2>1 DEF TablesInv
<1>8. now \in Int
  BY DEF TablesInv, AccessTypeOK, Times
<1>9. TablesLast
  BY <1>4, <1>8 DEF TablesLast, Lasts
<1> QED
  BY <1>7, <1>9

LEMMA GrantsKeep ==
    ASSUME AccessAssumption, TablesInv, NEW c \in Clients, NEW m \in Merchants,
           \/ \E scopes \in SUBSET UNION ScopeSets : InsertGrant(c, m, scopes)
           \/ AdminRevokeGrant(c, m),
           now' = now, commands' \in 0..MaxCommands, UNCHANGED <<clients, secrets, merchants>>
    PROVE  TablesInv' /\ TablesLast
<1> DEFINE g == <<c, m>>
<1>1. grants[g] \in GrantRow /\ now \in Moments /\ now \in Int
  BY DEF TablesInv, AccessTypeOK, Times, Moments, Never, AccessAssumption
<1> DEFINE Written(row) ==
             /\ grants' = [grants EXCEPT ![g] = row]
             /\ row.status = "active" => row.revokedAt = Never
             /\ row.status # "absent"
             /\ grants[g].status # "absent" => row.scopes = grants[g].scopes /\ row.revokedAt = now
<1>2. PICK row \in GrantRow : Written(row)
  <2>1. ASSUME NEW scopes \in SUBSET UNION ScopeSets, InsertGrant(c, m, scopes)
        PROVE  \E row \in GrantRow : Written(row)
    <3> DEFINE row == [status |-> "active", scopes |-> scopes, revokedAt |-> Never]
    <3>1. row \in GrantRow /\ row.revokedAt = Never /\ row.status = "active"
      BY DEF GrantRow, Moments, Never, AccessAssumption
    <3>2. grants' = [grants EXCEPT ![g] = row] /\ grants[g].status = "absent"
      BY <2>1 DEF InsertGrant
    <3> HIDE DEF row
    <3> QED
      BY <3>1, <3>2
  <2>2. CASE AdminRevokeGrant(c, m)
    <3> DEFINE row == [grants[g] EXCEPT !.status = "revoked", !.revokedAt = now]
    <3>1. /\ row \in GrantRow /\ row.revokedAt = now /\ row.status = "revoked"
          /\ row.scopes = grants[g].scopes
      BY <1>1 DEF GrantRow
    <3>2. grants' = [grants EXCEPT ![g] = row]
      BY <2>2 DEF AdminRevokeGrant
    <3> HIDE DEF row
    <3> QED
      BY <3>1, <3>2
  <2> QED
    BY <2>1, <2>2
<1>3. g \in Clients \X Merchants
  OBVIOUS
<1> HIDE DEF g
<1>4. \A h \in Clients \X Merchants : grants'[h] = IF h = g THEN row ELSE grants[h]
  BY <1>2 DEF TablesInv, AccessTypeOK
<1>5. AccessTypeOK'
  BY <1>2, <1>3 DEF TablesInv, AccessTypeOK
<1>6. TablesInv'
  BY <1>2, <1>4, <1>5 DEF TablesInv
<1>7. TablesLast
  BY <1>1, <1>2, <1>4 DEF TablesLast, Lasts
<1> QED
  BY <1>6, <1>7

LEMMA AdminKeeps ==
    ASSUME AccessAssumption, TablesInv, AdminNext
    PROVE  TablesInv' /\ TablesLast
<1>1. now' = now /\ commands' \in 0..MaxCommands
  BY DEF AdminNext, TablesInv, AccessTypeOK, AccessAssumption
<1>2. ASSUME NEW c \in Clients, NEW scopes \in ScopeSets, AdminCreateClient(c, scopes)
      PROVE  TablesInv' /\ TablesLast
  <2> DEFINE row == [status |-> "active", scopes |-> scopes]
  <2>1. row \in ClientRow
    BY DEF ClientRow
  <2>2. /\ clients' = [clients EXCEPT ![c] = row] /\ clients[c].status = "absent"
        /\ UNCHANGED <<secrets, merchants, grants>>
    BY <1>2 DEF AdminCreateClient
  <2> HIDE DEF row
  <2>3. AccessTypeOK'
    BY <1>1, <2>1, <2>2 DEF TablesInv, AccessTypeOK
  <2>4. TablesInv'
    BY <2>2, <2>3 DEF TablesInv
  <2>5. now \in Int /\ \A x \in Clients : clients[x].status = "active" => clients'[x] = clients[x]
    BY <2>2 DEF TablesInv, AccessTypeOK, Times
  <2>6. TablesLast
    BY <1>1, <2>2, <2>5 DEF TablesLast, Lasts
  <2> QED
    BY <2>4, <2>6
<1>3. ASSUME NEW s \in Secrets, NEW c \in Clients, NEW expires \in Moments,
             AdminCreateCredential(s, c, expires) \/ AdminCreateSigningKey(s, c, expires)
      PROVE  TablesInv' /\ TablesLast
  BY <1>1, <1>3, InsertSecretKeeps DEF AdminCreateCredential, AdminCreateSigningKey
<1>4. ASSUME NEW s \in Secrets, AdminRevokeCredential(s) \/ AdminRevokeSigningKey(s)
      PROVE  TablesInv' /\ TablesLast
  BY <1>1, <1>4, RevokeSecretKeeps DEF AdminRevokeCredential, AdminRevokeSigningKey
<1>5. ASSUME NEW m \in Merchants, NEW ref \in Refs \cup {None}, AdminCreateMerchant(m, ref)
      PROVE  TablesInv' /\ TablesLast
  BY <1>1, <1>5, InsertMerchantKeeps DEF AdminCreateMerchant
<1>6. ASSUME NEW c \in Clients, NEW m \in Merchants, NEW scopes \in ScopeSets,
             AdminGrant(c, m, scopes)
      PROVE  TablesInv' /\ TablesLast
  <2>1. scopes \in SUBSET UNION ScopeSets
    OBVIOUS
  <2> QED
    BY <1>1, <1>6, <2>1, GrantsKeep DEF AdminGrant
<1>7. ASSUME NEW c \in Clients, NEW m \in Merchants, AdminRevokeGrant(c, m)
      PROVE  TablesInv' /\ TablesLast
  <2>1. UNCHANGED <<clients, secrets, merchants>>
    BY <1>7 DEF AdminRevokeGrant
  <2> QED
    BY <1>1, <1>7, <2>1, GrantsKeep
<1>8. Never \in Moments /\ Credentials \subseteq Secrets /\ Expiries \subseteq Moments
  BY DEF Never, Moments, Secrets, AccessAssumption
<1>9. CASE Bootstrap
  BY <1>2, <1>3, <1>5, <1>6, <1>8, <1>9 DEF Bootstrap
<1> QED
  BY <1>3, <1>4, <1>7, <1>8, <1>9 DEF AdminNext

-----------------------------------------------------------------------------
(* What is known of a request by where it stands.                          *)
Client(r) == secrets[r.secret].client

Entered == {"nonce", "limit", "authorize"} \cup Acting

WasGood(r) ==
    /\ r.secret \in Secrets /\ r.route \in Offered
    /\ r.since \in Times /\ r.since <= now
    /\ secrets[r.secret].status # "absent"
    /\ secrets[r.secret].revokedAt >= r.since
    /\ secrets[r.secret].expires >= r.since
    /\ clients[Client(r)].status = "active"

WasAllowed(r) ==
    /\ r.subject \in Subjects(Client(r), r.route)
    /\ ScopeAllowed(clients[Client(r)].scopes, r.route.any)
    /\ r.route.subject = "client" => r.subject = Client(r) \/ Privileged(Client(r))
    /\ r.route.subject = "merchant" /\ ~Privileged(Client(r)) =>
         LET grant == grants[<<Client(r), r.subject>>]
         IN  /\ grant.status # "absent"
             /\ grant.revokedAt >= r.since
             /\ ScopeAllowed(grant.scopes, r.route.any)

(* The secret to be revoked, and the one that replaces it, are the         *)
(* subject's.                                                              *)
OldIsOwned(r) ==
    /\ r.pc \in {"retire", "revoke"} =>
         /\ r.route.act \in {"rotate", "revoke"}
         /\ r.route.act = "rotate" =>
              /\ r.fresh \in Secrets /\ secrets[r.fresh].status # "absent"
              /\ secrets[r.fresh].client = r.subject
    /\ r.pc = "revoke" =>
         /\ r.old \in Secrets /\ secrets[r.old].status # "absent"
         /\ secrets[r.old].client = r.subject

CreatedIsHeld(r) ==
    /\ r.pc = "insert" => r.route.act = "create_merchant"
    /\ r.fresh # None => r.pc \in {"retire", "revoke", "done"}
    /\ r.pc = "done" /\ r.fresh # None /\ r.route.act = "create_merchant"
         /\ ~Privileged(Client(r)) =>
           r.fresh \in Merchants /\ grants[<<Client(r), r.fresh>>].status # "absent"

RowOK(r) ==
    /\ r.pc \in Entered => WasGood(r)
    /\ r.pc \in Acting => WasAllowed(r)
    /\ OldIsOwned(r)
    /\ CreatedIsHeld(r)
    /\ r.nonce # None => <<r.secret, r.nonce>> \in used

(* The inductive invariant.                                                *)
RequestsInv ==
    /\ TablesInv
    /\ api \in [Requests -> RequestRow]
    /\ \A q \in Requests : RowOK(api[q])
    /\ SignedOnce

(* Whatever is known of a request stays so while the tables last.          *)
LEMMA RowStands ==
    ASSUME AccessAssumption, TablesInv, TablesInv', TablesLast, used \subseteq used',
           NEW r \in RequestRow, RowOK(r)
    PROVE  RowOK(r)'
<1>1. now \in Times /\ now \in Int
  BY DEF TablesInv, AccessTypeOK, Times
<1>2. ASSUME WasGood(r)
      PROVE  WasGood(r)' /\ Client(r)' = Client(r) /\ Client(r) \in Clients
             /\ clients'[Client(r)] = clients[Client(r)]
  <2>1. /\ r.secret \in Secrets /\ secrets[r.secret].status # "absent"
        /\ r.since \in Int /\ r.since <= now /\ clients[Client(r)].status = "active"
    BY <1>2 DEF WasGood, Times
  <2>2. Client(r) \in Clients /\ clients'[Client(r)] = clients[Client(r)]
    BY <2>1 DEF TablesInv, TablesLast, Client
  <2>3. Client(r)' = Client(r)
    BY <2>1 DEF TablesLast, Client
  <2>4. now' >= now /\ now' \in Int
    BY DEF TablesInv, TablesLast, AccessTypeOK, Times
  <2>5. /\ secrets'[r.secret].status # "absent"
        /\ secrets'[r.secret].revokedAt \in {secrets[r.secret].revokedAt, now}
        /\ secrets'[r.secret].expires = secrets[r.secret].expires
    BY <2>1 DEF TablesLast, Lasts
  <2> QED
    BY <1>1, <1>2, <2>1, <2>2, <2>3, <2>4, <2>5 DEF WasGood
<1>3. ASSUME WasGood(r), WasAllowed(r)
      PROVE  WasAllowed(r)'
  <2>1. /\ Client(r)' = Client(r) /\ Client(r) \in Clients
        /\ clients'[Client(r)] = clients[Client(r)]
    BY <1>2, <1>3
  <2>2. r.since \in Int /\ r.since <= now
    BY <1>3 DEF WasGood, Times
  <2>3. r.route.subject = "merchant" => r.subject \in Merchants
    BY <1>3 DEF WasAllowed, Subjects
  <2>4. ASSUME r.route.subject = "merchant", ~Privileged(Client(r))
        PROVE  LET grant == grants'[<<Client(r), r.subject>>]
               IN  /\ grant.status # "absent"
                   /\ grant.revokedAt >= r.since
                   /\ ScopeAllowed(grant.scopes, r.route.any)
    <3>1. <<Client(r), r.subject>> \in Clients \X Merchants
      BY <2>1, <2>3, <2>4
    <3>2. /\ grants[<<Client(r), r.subject>>].status # "absent"
          /\ grants[<<Client(r), r.subject>>].revokedAt >= r.since
          /\ ScopeAllowed(grants[<<Client(r), r.subject>>].scopes, r.route.any)
      BY <1>3, <2>4 DEF WasAllowed
    <3>3. /\ grants'[<<Client(r), r.subject>>].status # "absent"
          /\ grants'[<<Client(r), r.subject>>].revokedAt
               \in {grants[<<Client(r), r.subject>>].revokedAt, now}
          /\ grants'[<<Client(r), r.subject>>].scopes = grants[<<Client(r), r.subject>>].scopes
      BY <3>1, <3>2 DEF TablesLast, Lasts
    <3> QED
      BY <1>1, <2>2, <3>2, <3>3
  <2> QED
    BY <1>3, <2>1, <2>4 DEF WasAllowed, Subjects
<1>4. OldIsOwned(r)'
  BY DEF RowOK, OldIsOwned, TablesLast, Lasts
<1>5. CreatedIsHeld(r)'
  <2>1. r.pc = "done" => Client(r)' = Client(r) /\ Client(r) \in Clients
    BY <1>2 DEF RowOK, Entered, Acting
  <2> QED
    BY <2>1 DEF RowOK, CreatedIsHeld, TablesLast, Lasts
<1> QED
  BY <1>2, <1>3, <1>4, <1>5 DEF RowOK, Entered

(* A step of one request keeps the invariant if what it leaves of the      *)
(* request is right, and its nonce is the one it had or nobody's.          *)
LEMMA RequestMoves ==
    ASSUME AccessAssumption, RequestsInv, NEW q \in Requests, NEW c \in RequestRow,
           api' = [api EXCEPT ![q] = c], TablesInv', TablesLast, used \subseteq used', RowOK(c)',
           \/ c.nonce = None
           \/ c.secret = api[q].secret /\ c.nonce = api[q].nonce
           \/ <<c.secret, c.nonce>> \notin used
    PROVE  RequestsInv'
<1>1. api \in [Requests -> RequestRow] /\ \A p \in Requests : api'[p] = IF p = q THEN c ELSE api[p]
  BY DEF RequestsInv
<1>2. api' \in [Requests -> RequestRow]
  BY <1>1
<1>3. ASSUME NEW p \in Requests PROVE RowOK(api[p])'
  <2>1. CASE p = q
    BY <1>1, <2>1
  <2>2. CASE p # q
    <3>1. api[p] \in RequestRow /\ RowOK(api[p]) /\ TablesInv
      BY <1>1 DEF RequestsInv
    <3>2. \A r \in RequestRow : RowOK(r) => RowOK(r)'
      BY RowStands DEF RequestsInv
    <3>3. \A r \in RequestRow : r = api[p] => RowOK(r)'
      BY <3>1, <3>2
    <3>4. api'[p] = api[p]
      BY <1>1, <2>2
    <3> QED
      BY <3>1, <3>3, <3>4
  <2> QED
    BY <2>1, <2>2
<1>4. SignedOnce'
  <2> SUFFICES ASSUME NEW p \in Requests, NEW x \in Requests, p # x,
                      api'[p].secret = api'[x].secret, api'[p].nonce # None
               PROVE  api'[p].nonce # api'[x].nonce
    BY DEF SignedOnce
  <2>1. \A y \in Requests : api[y].nonce # None => <<api[y].secret, api[y].nonce>> \in used
    BY DEF RequestsInv, RowOK
  <2>2. \A y, z \in Requests : y # z /\ api[y].secret = api[z].secret /\ api[y].nonce # None =>
          api[y].nonce # api[z].nonce
    BY DEF RequestsInv, SignedOnce
  <2> QED
    BY <1>1, <2>1, <2>2
<1> QED
  BY <1>2, <1>3, <1>4 DEF RequestsInv

(* A step of one request that leaves the tables alone.                     *)
LEMMA RequestGoes ==
    ASSUME AccessAssumption, RequestsInv, NEW q \in Requests, NEW c \in RequestRow,
           api' = [api EXCEPT ![q] = c], UNCHANGED accessVars, used' = used, RowOK(c),
           c.nonce = None \/ (c.secret = api[q].secret /\ c.nonce = api[q].nonce)
    PROVE  RequestsInv'
<1>1. TablesInv' /\ TablesLast
  BY TablesUnchanged DEF RequestsInv
<1>2. RowOK(c)'
  BY <1>1, RowStands DEF RequestsInv
<1> QED
  BY <1>1, <1>2, RequestMoves

LEMMA BlankIsRow == AccessAssumption => Blank \in RequestRow
<1> SUFFICES ASSUME AccessAssumption PROVE Blank \in RequestRow
  OBVIOUS
<1>1. 0 \in Times /\ Never \in Moments
  BY DEF Times, Never, Moments, AccessAssumption
<1> QED
  BY <1>1 DEF Blank, RequestRow, Pcs

LEMMA StoppedIsOK ==
    ASSUME AccessAssumption, RequestsInv, NEW q \in Requests, NEW pc \in {"denied", "failed"}
    PROVE  /\ Stopped(q, pc) \in RequestRow /\ RowOK(Stopped(q, pc))
           /\ Stopped(q, pc).secret = api[q].secret /\ Stopped(q, pc).nonce = api[q].nonce
<1> DEFINE c == Stopped(q, pc)
<1>1. api[q] \in RequestRow /\ RowOK(api[q])
  BY DEF RequestsInv
<1>2. c \in RequestRow
  <2>1. pc \in Pcs
    BY DEF Pcs, Ends
  <2>2. c = [Blank EXCEPT !.pc = pc, !.route = api[q].route, !.secret = api[q].secret,
                          !.nonce = api[q].nonce, !.window = api[q].window]
    BY DEF Stopped
  <2>3. Blank \in RequestRow
    BY BlankIsRow
  <2> HIDE DEF c
  <2> QED
    BY <1>1, <2>1, <2>2, <2>3 DEF RequestRow
<1>3. /\ c.pc = pc /\ c.fresh = None /\ c.secret = api[q].secret /\ c.nonce = api[q].nonce
  BY DEF Stopped, Blank
<1> HIDE DEF c
<1>4. RowOK(c)
  BY <1>1, <1>3 DEF RowOK, Entered, Acting, OldIsOwned, CreatedIsHeld
<1> QED
  BY <1>2, <1>3, <1>4 DEF c

LEMMA StopKeeps ==
    ASSUME AccessAssumption, RequestsInv, NEW q \in Requests, NEW pc \in {"denied", "failed"},
           Stop(q, pc), UNCHANGED accessVars, used' = used
    PROVE  RequestsInv'
<1>1. api' = [api EXCEPT ![q] = Stopped(q, pc)]
  BY DEF Stop
<1> QED
  BY <1>1, StoppedIsOK, RequestGoes

(* A request that is let in: its secret is good now.                       *)
LEMMA PresentKeeps ==
    ASSUME AccessAssumption, RequestsInv, NEW q \in Requests,
           PresentCredential(q) \/ PresentSignature(q)
    PROVE  RequestsInv'
<1>1. PICK s \in Secrets, pc \in {"nonce", "limit"}, route \in Offered :
        /\ secrets[s].status # "absent"
        /\ api' = [api EXCEPT ![q] =
                     IF SecretUsable(s)
                     THEN [Blank EXCEPT !.pc = pc, !.route = route, !.secret = s, !.since = now]
                     ELSE [Blank EXCEPT !.pc = "denied"]]
  BY DEF PresentCredential, PresentSignature, Admitted, Secrets
<1>2. UNCHANGED accessVars /\ used' = used
  BY DEF PresentCredential, PresentSignature
<1>3. CASE SecretUsable(s)
  <2> DEFINE c == [Blank EXCEPT !.pc = pc, !.route = route, !.secret = s, !.since = now]
  <2>1. /\ c.pc = pc /\ c.route = route /\ c.secret = s /\ c.since = now
        /\ c.fresh = None /\ c.nonce = None
    BY DEF Blank
  <2>2. now \in Times /\ now \in Int /\ now <= Never
    BY DEF RequestsInv, TablesInv, AccessTypeOK, Times, Never, AccessAssumption
  <2>3. c \in RequestRow
    BY <2>2, BlankIsRow DEF RequestRow, Pcs
  <2>4. api' = [api EXCEPT ![q] = c]
    BY <1>1, <1>3
  <2> HIDE DEF c
  <2>5. secrets[s].expires \in Int /\ secrets[s].revokedAt = Never /\ Never \in Int
    BY <1>3 DEF RequestsInv, TablesInv, AccessTypeOK, SecretRow, Moments, Never, SecretUsable,
                AccessAssumption
  <2>6. WasGood(c)
    BY <1>1, <1>3, <2>1, <2>2, <2>5 DEF WasGood, SecretUsable, SecretExpired, Client
  <2>7. RowOK(c)
    BY <2>1, <2>6 DEF RowOK, Acting, OldIsOwned, CreatedIsHeld
  <2> QED
    BY <1>2, <2>1, <2>3, <2>4, <2>7, RequestGoes
<1>4. CASE ~SecretUsable(s)
  <2> DEFINE c == [Blank EXCEPT !.pc = "denied"]
  <2>1. c.pc = "denied" /\ c.fresh = None /\ c.nonce = None
    BY DEF Blank
  <2>2. c \in RequestRow
    BY BlankIsRow DEF RequestRow, Pcs, Ends
  <2>3. api' = [api EXCEPT ![q] = c]
    BY <1>1, <1>4
  <2> HIDE DEF c
  <2>4. RowOK(c)
    BY <2>1 DEF RowOK, Entered, Acting, OldIsOwned, CreatedIsHeld
  <2> QED
    BY <1>2, <2>1, <2>2, <2>3, <2>4, RequestGoes
<1> QED
  BY <1>3, <1>4

LEMMA NonceKeeps ==
    ASSUME AccessAssumption, RequestsInv, NEW q \in Requests, ConsumeNonce(q)
    PROVE  RequestsInv'
<1>1. api[q] \in RequestRow /\ RowOK(api[q]) /\ api[q].pc = "nonce" /\ UNCHANGED accessVars
  BY DEF RequestsInv, ConsumeNonce
<1>2. PICK nonce \in Nonces :
        LET key == api[q].secret
        IN  IF NonceIsFree(key, nonce)
            THEN /\ used' = used \cup {<<key, nonce>>}
                 /\ api' = [api EXCEPT ![q].pc = "limit", ![q].nonce = nonce]
            ELSE Stop(q, "denied") /\ UNCHANGED used
  BY DEF ConsumeNonce
<1>3. CASE ~NonceIsFree(api[q].secret, nonce)
  BY <1>1, <1>2, <1>3, StopKeeps
<1>4. CASE NonceIsFree(api[q].secret, nonce)
  <2>1. PICK c \in RequestRow :
          /\ c = [api[q] EXCEPT !.pc = "limit", !.nonce = nonce]
          /\ c.pc = "limit" /\ c.nonce = nonce /\ c.secret = api[q].secret
          /\ c.route = api[q].route /\ c.since = api[q].since /\ c.fresh = api[q].fresh
    <3> DEFINE d == [api[q] EXCEPT !.pc = "limit", !.nonce = nonce]
    <3>1. /\ d \in RequestRow /\ d.pc = "limit" /\ d.nonce = nonce /\ d.secret = api[q].secret
          /\ d.route = api[q].route /\ d.since = api[q].since /\ d.fresh = api[q].fresh
      BY <1>1 DEF RequestRow, Pcs
    <3> QED
      BY <3>1
  <2>2. api' = [api EXCEPT ![q] = c] /\ used' = used \cup {<<c.secret, nonce>>}
    BY <1>2, <1>4, <2>1
  <2>3. TablesInv' /\ TablesLast /\ used \subseteq used'
    BY <1>1, <2>2, TablesUnchanged DEF RequestsInv
  <2>5. c.fresh = None
    BY <1>1, <2>1 DEF RowOK, CreatedIsHeld
  <2>6. WasGood(c)'
    <3>1. WasGood(c)
      BY <1>1, <2>1 DEF RowOK, Entered, WasGood, Client
    <3> QED
      BY <1>1, <3>1 DEF WasGood, Client, accessVars
  <2>7. RowOK(c)'
    BY <2>1, <2>2, <2>5, <2>6 DEF RowOK, Acting, OldIsOwned, CreatedIsHeld
  <2>8. <<c.secret, c.nonce>> \notin used
    BY <1>4, <2>1 DEF NonceIsFree
  <2> QED
    BY <2>1, <2>2, <2>3, <2>7, <2>8, RequestMoves
<1> QED
  BY <1>3, <1>4

(* The limiter and the checks of the handler.                              *)
LEMMA GoKeeps ==
    ASSUME AccessAssumption, RequestsInv, NEW q \in Requests, NEW pc \in Pcs,
           Goto(q, pc), UNCHANGED accessVars, used' = used,
           api[q].pc \in Entered, pc \in Acting => api[q].pc \in Acting,
           pc \notin {"retire", "revoke"}, pc = "insert" => api[q].route.act = "create_merchant",
           pc = "done" \/ api[q].fresh = None,
           pc = "done" => api[q].fresh = None \/ api[q].route.act # "create_merchant"
    PROVE  RequestsInv'
<1> DEFINE c == [api[q] EXCEPT !.pc = pc]
<1>1. api[q] \in RequestRow /\ RowOK(api[q])
  BY DEF RequestsInv
<1>2. /\ c \in RequestRow /\ c.pc = pc /\ c.secret = api[q].secret /\ c.nonce = api[q].nonce
      /\ c.route = api[q].route /\ c.since = api[q].since /\ c.subject = api[q].subject
      /\ c.fresh = api[q].fresh
  BY <1>1 DEF RequestRow
<1>3. api' = [api EXCEPT ![q] = c]
  BY DEF Goto
<1> HIDE DEF c
<1>4. WasGood(c) <=> WasGood(api[q])
  BY <1>2 DEF WasGood, Client
<1>5. WasAllowed(c) <=> WasAllowed(api[q])
  BY <1>2 DEF WasAllowed, Client
<1>6. OldIsOwned(c)
  BY <1>2 DEF OldIsOwned
<1>7. CreatedIsHeld(c)
  BY <1>2 DEF CreatedIsHeld
<1>8. RowOK(c)
  BY <1>1, <1>2, <1>4, <1>5, <1>6, <1>7 DEF RowOK, Entered
<1> QED
  BY <1>2, <1>3, <1>8, RequestGoes

LEMMA LimitKeeps ==
    ASSUME AccessAssumption, RequestsInv, NEW q \in Requests, HitLimits(q)
    PROVE  RequestsInv'
<1>1. /\ api[q] \in RequestRow /\ RowOK(api[q]) /\ api[q].pc = "limit"
      /\ api \in [Requests -> RequestRow] /\ now \in Moments
      /\ UNCHANGED accessVars /\ used' = used
  BY DEF RequestsInv, HitLimits, RouteBucket, TablesInv, AccessTypeOK, Times, Moments, Never, AccessAssumption
<1>2. PICK pc \in {"limited", "authorize"} :
        api' = [[api EXCEPT ![q].window = now] EXCEPT ![q].pc = pc]
  BY DEF HitLimits, RouteBucket
<1> DEFINE c == [api[q] EXCEPT !.window = now, !.pc = pc]
<1>3. /\ c \in RequestRow /\ c.pc = pc /\ c.secret = api[q].secret /\ c.nonce = api[q].nonce
      /\ c.route = api[q].route /\ c.since = api[q].since /\ c.fresh = api[q].fresh
  <2>1. pc \in Pcs
    BY DEF Pcs, Ends
  <2>2. api[q] \in RequestRow /\ now \in Moments
    BY <1>1
  <2>3. c \in RequestRow
    BY <2>1, <2>2 DEF RequestRow
  <2> QED
    BY <2>2, <2>3 DEF RequestRow
<1>4. api' = [api EXCEPT ![q] = c]
  BY <1>1, <1>2
<1> HIDE DEF c
<1>5. c.fresh = None
  BY <1>1, <1>3 DEF RowOK, CreatedIsHeld
<1>6. WasGood(c)
  BY <1>1, <1>3 DEF RowOK, Entered, WasGood, Client
<1>7. RowOK(c)
  BY <1>1, <1>3, <1>5, <1>6 DEF RowOK, Acting, OldIsOwned, CreatedIsHeld
<1> QED
  BY <1>1, <1>3, <1>4, <1>7, RequestGoes

LEMMA AuthorizeKeeps ==
    ASSUME AccessAssumption, RequestsAssumption, RequestsInv, NEW q \in Requests, Authorize(q)
    PROVE  RequestsInv'
<1>1. /\ api[q] \in RequestRow /\ RowOK(api[q]) /\ api[q].pc = "authorize"
      /\ UNCHANGED accessVars /\ used' = used
  BY DEF RequestsInv, Authorize
<1>2. /\ WasGood(api[q]) /\ Caller(q) = Client(api[q]) /\ Caller(q) \in Clients
      /\ api[q].since \in Int /\ api[q].since <= Never /\ Never \in Int /\ api[q].fresh = None
  BY <1>1 DEF RequestsInv, RowOK, Entered, WasGood, CreatedIsHeld, Caller, Client, TablesInv,
              Times, Never, AccessAssumption
<1> DEFINE route == api[q].route
<1>3. PICK subject \in Subjects(Caller(q), route) :
        IF ScopeAllowed(clients[Caller(q)].scopes, route.any) /\ InReach(Caller(q), route, subject)
        THEN api' = [api EXCEPT ![q].pc = "act", ![q].subject = subject]
        ELSE Stop(q, "denied")
  BY DEF Authorize
<1>4. CASE ~(ScopeAllowed(clients[Caller(q)].scopes, route.any)
             /\ InReach(Caller(q), route, subject))
  BY <1>1, <1>3, <1>4, StopKeeps
<1>5. CASE /\ ScopeAllowed(clients[Caller(q)].scopes, route.any)
           /\ InReach(Caller(q), route, subject)
  <2> DEFINE c == [api[q] EXCEPT !.pc = "act", !.subject = subject]
  <2>1. subject \in Clients \cup Merchants \cup Refs \cup {None}
    BY <1>2, <1>3 DEF Subjects, RequestsAssumption
  <2>2. /\ c \in RequestRow /\ c.pc = "act" /\ c.subject = subject
        /\ c.secret = api[q].secret /\ c.nonce = api[q].nonce /\ c.route = route
        /\ c.since = api[q].since /\ c.fresh = api[q].fresh
    <3>1. "act" \in Pcs
      BY DEF Pcs
    <3>2. api[q] \in RequestRow
      BY <1>1
    <3>3. c \in RequestRow
      BY <2>1, <3>1, <3>2 DEF RequestRow
    <3> QED
      BY <3>2, <3>3 DEF RequestRow
  <2>3. api' = [api EXCEPT ![q] = c]
    BY <1>3, <1>5
  <2> HIDE DEF c
  <2>4. WasGood(c) /\ Client(c) = Caller(q)
    BY <1>2, <2>2 DEF WasGood, Client
  <2>5. route.subject = "client" => subject = Caller(q) \/ Privileged(Caller(q))
    BY <1>5 DEF InReach
  <2>6. ASSUME route.subject = "merchant", ~Privileged(Caller(q))
        PROVE  LET grant == grants[<<Caller(q), subject>>]
               IN  /\ grant.status # "absent" /\ grant.revokedAt = Never
                   /\ ScopeAllowed(grant.scopes, route.any)
    <3>1. <<Caller(q), subject>> \in Clients \X Merchants
      BY <1>2, <1>3, <2>6 DEF Subjects
    <3> QED
      BY <1>5, <2>6, <3>1 DEF InReach, GrantAllows, RequestsInv, TablesInv
  <2>7. WasAllowed(c)
    BY <1>2, <1>3, <1>5, <2>2, <2>4, <2>5, <2>6 DEF WasAllowed
  <2>8. RowOK(c)
    BY <1>1, <1>2, <2>2, <2>4, <2>7 DEF RowOK, OldIsOwned, CreatedIsHeld
  <2> QED
    BY <1>1, <2>2, <2>3, <2>8, RequestGoes
<1> QED
  BY <1>4, <1>5

(* The handlers.                                                           *)
LEMMA ActingFacts ==
    ASSUME AccessAssumption, RequestsAssumption, RequestsInv, NEW q \in Requests,
           api[q].pc \in Acting
    PROVE  /\ api[q] \in RequestRow /\ RowOK(api[q]) /\ WasGood(api[q]) /\ WasAllowed(api[q])
           /\ Caller(q) = Client(api[q]) /\ Caller(q) \in Clients
           /\ api[q].route \in Offered /\ api[q].route \in Routes
           /\ api[q].pc \in {"act", "insert"} => api[q].fresh = None
BY DEF RequestsInv, RowOK, Entered, WasGood, CreatedIsHeld, Caller, Client, TablesInv,
       RequestsAssumption

LEMMA PerformKeeps ==
    ASSUME AccessAssumption, RequestsAssumption, RequestsInv, NEW q \in Requests,
           Perform(q) \/ FindMerchant(q)
    PROVE  RequestsInv'
<1>1. /\ api[q].pc = "act" /\ UNCHANGED accessVars /\ used' = used
      /\ Goto(q, "done") \/ (Goto(q, "insert") /\ api[q].route.act = "create_merchant")
  BY DEF Perform, FindMerchant, At
<1>2. api[q].fresh = None
  BY <1>1, ActingFacts DEF Acting
<1> QED
  BY <1>1, <1>2, GoKeeps DEF Acting, Entered, Pcs, Ends

(* The secret that is to be revoked has been read: it is the subject's.    *)
LEMMA FoundKeeps ==
    ASSUME AccessAssumption, RequestsAssumption, RequestsInv, NEW q \in Requests,
           NEW s \in Secrets, api[q].pc \in {"act", "retire"},
           api[q].pc = "act" => api[q].route.act = "revoke",
           secrets[s].status # "absent", secrets[s].client = api[q].subject,
           api' = [api EXCEPT ![q].pc = "revoke", ![q].old = s],
           UNCHANGED accessVars, used' = used
    PROVE  RequestsInv'
<1> DEFINE c == [api[q] EXCEPT !.pc = "revoke", !.old = s]
<1>1. /\ api[q] \in RequestRow /\ RowOK(api[q]) /\ WasGood(api[q]) /\ WasAllowed(api[q])
      /\ api[q].pc = "act" => api[q].fresh = None
  BY ActingFacts DEF Acting
<1>2. /\ c \in RequestRow /\ c.pc = "revoke" /\ c.old = s /\ c.secret = api[q].secret
      /\ c.nonce = api[q].nonce /\ c.route = api[q].route /\ c.since = api[q].since
      /\ c.subject = api[q].subject /\ c.fresh = api[q].fresh
  BY <1>1 DEF RequestRow, Pcs
<1>3. api' = [api EXCEPT ![q] = c]
  OBVIOUS
<1> HIDE DEF c
<1>4. WasGood(c) /\ WasAllowed(c)
  BY <1>1, <1>2 DEF WasGood, WasAllowed, Client
<1>5. OldIsOwned(c)
  BY <1>1, <1>2 DEF RowOK, OldIsOwned
<1>6. CreatedIsHeld(c)
  BY <1>2 DEF CreatedIsHeld
<1>7. RowOK(c)
  BY <1>1, <1>2, <1>4, <1>5, <1>6 DEF RowOK
<1> QED
  BY <1>2, <1>3, <1>7, RequestGoes

LEMMA RetireKeeps ==
    ASSUME AccessAssumption, RequestsAssumption, RequestsInv, NEW q \in Requests, Retire(q)
    PROVE  RequestsInv'
<1>1. /\ api[q].pc = "retire" /\ UNCHANGED accessVars /\ used' = used
      /\ api[q].route.act # "create_merchant"
  BY DEF Retire, RequestsInv, RowOK, OldIsOwned
<1>2. CASE Goto(q, "done")
  BY <1>1, <1>2, GoKeeps DEF Acting, Entered, Pcs, Ends
<1>3. ASSUME NEW s \in Kind(api[q].route), MayRetire(s, api[q].subject),
             api' = [api EXCEPT ![q].pc = "revoke", ![q].old = s]
      PROVE  RequestsInv'
  <2>1. s \in Secrets /\ secrets[s].status # "absent" /\ secrets[s].client = api[q].subject
    BY <1>3 DEF Kind, Secrets, MayRetire
  <2> QED
    BY <1>1, <1>3, <2>1, FoundKeeps
<1> QED
  BY <1>2, <1>3 DEF Retire

LEMMA FindForRevocationKeeps ==
    ASSUME AccessAssumption, RequestsAssumption, RequestsInv, NEW q \in Requests,
           FindForRevocation(q)
    PROVE  RequestsInv'
<1>1. /\ api[q].pc = "act" /\ api[q].route.act = "revoke"
      /\ UNCHANGED accessVars /\ used' = used
  BY DEF FindForRevocation, At
<1>2. api[q].fresh = None
  BY <1>1, ActingFacts DEF Acting
<1>3. PICK s \in Kind(api[q].route) :
        LET owned == secrets[s].status # "absent" /\ secrets[s].client = api[q].subject
        IN  IF owned /\ secrets[s].status # "revoked"
            THEN api' = [api EXCEPT ![q].pc = "revoke", ![q].old = s]
            ELSE IF owned THEN Goto(q, "done") ELSE Stop(q, "failed")
  BY DEF FindForRevocation
<1>4. s \in Secrets
  BY DEF Kind, Secrets
<1>5. CASE Goto(q, "done")
  BY <1>1, <1>2, <1>5, GoKeeps DEF Acting, Entered, Pcs, Ends
<1>6. CASE Stop(q, "failed")
  BY <1>1, <1>6, StopKeeps
<1>7. CASE /\ secrets[s].status # "absent" /\ secrets[s].client = api[q].subject
           /\ api' = [api EXCEPT ![q].pc = "revoke", ![q].old = s]
  BY <1>1, <1>4, <1>7, FoundKeeps
<1> QED
  BY <1>3, <1>5, <1>6, <1>7

LEMMA RevokeFoundKeeps ==
    ASSUME AccessAssumption, RequestsAssumption, RequestsInv, NEW q \in Requests, RevokeFound(q)
    PROVE  RequestsInv'
<1>1. /\ api[q].pc = "revoke" /\ RevokeSecret(api[q].old) /\ Goto(q, "done") /\ used' = used
      /\ UNCHANGED <<now, commands, clients, merchants, grants>>
  BY DEF RevokeFound
<1>2. /\ api[q] \in RequestRow /\ RowOK(api[q]) /\ WasGood(api[q]) /\ WasAllowed(api[q])
  BY <1>1, ActingFacts DEF Acting
<1>3. /\ api[q].old \in Secrets /\ secrets[api[q].old].status # "absent"
      /\ api[q].route.act \in {"rotate", "revoke"}
  BY <1>1, <1>2 DEF RowOK, OldIsOwned
<1>4. commands' \in 0..MaxCommands
  BY <1>1 DEF RequestsInv, TablesInv, AccessTypeOK
<1>5. TablesInv' /\ TablesLast
  BY <1>1, <1>3, <1>4, RevokeSecretKeeps DEF RequestsInv
<1>6. PICK c \in RequestRow :
        /\ c = [api[q] EXCEPT !.pc = "done"] /\ c.pc = "done" /\ c.secret = api[q].secret
        /\ c.nonce = api[q].nonce /\ c.route = api[q].route /\ c.since = api[q].since
        /\ c.subject = api[q].subject /\ c.fresh = api[q].fresh
  <2> DEFINE d == [api[q] EXCEPT !.pc = "done"]
  <2>1. /\ d \in RequestRow /\ d.pc = "done" /\ d.secret = api[q].secret
        /\ d.nonce = api[q].nonce /\ d.route = api[q].route /\ d.since = api[q].since
        /\ d.subject = api[q].subject /\ d.fresh = api[q].fresh
    BY <1>2 DEF RequestRow, Pcs, Ends
  <2> QED
    BY <2>1
<1>7. WasGood(c) /\ WasAllowed(c)
  BY <1>2, <1>6 DEF WasGood, WasAllowed, Client
<1>8. RowOK(c)
  BY <1>2, <1>3, <1>6, <1>7 DEF RowOK, OldIsOwned, CreatedIsHeld
<1>9. RowOK(c)'
  BY <1>1, <1>5, <1>8, RowStands DEF RequestsInv
<1> QED
  BY <1>1, <1>5, <1>6, <1>9, RequestMoves DEF Goto

LEMMA InsertFreshKeeps ==
    ASSUME AccessAssumption, RequestsAssumption, RequestsInv, NEW q \in Requests, InsertFresh(q)
    PROVE  RequestsInv'
<1>1. /\ api[q].pc = "act" /\ api[q].route.act \in {"create", "rotate"} /\ used' = used
      /\ UNCHANGED <<now, commands, clients, merchants, grants>>
  BY DEF InsertFresh, At
<1>2. PICK old \in RequestRow : old = api[q]
  BY <1>1, ActingFacts DEF Acting
<1>3. /\ RowOK(old) /\ WasGood(old) /\ WasAllowed(old) /\ old.route \in Routes
      /\ Client(old) \in Clients
  BY <1>1, <1>2, ActingFacts DEF Acting
<1>4. old.subject \in Clients
  BY <1>1, <1>2, <1>3, RouteSubjects DEF WasAllowed, Subjects
<1>5. PICK s \in Kind(api[q].route), expires \in Expiries :
        IF clients[api[q].subject].status = "active" /\ (api[q].route.future => expires > now)
        THEN /\ InsertSecret(s, api[q].subject, expires)
             /\ api' = [api EXCEPT ![q].fresh = s,
                          ![q].pc = IF api[q].route.act = "rotate" THEN "retire" ELSE "done"]
        ELSE Stop(q, "failed") /\ UNCHANGED secrets
  BY DEF InsertFresh
<1>6. CASE Stop(q, "failed") /\ UNCHANGED secrets
  BY <1>1, <1>6, StopKeeps DEF accessVars
<1>7. CASE /\ InsertSecret(s, api[q].subject, expires)
           /\ api' = [api EXCEPT ![q].fresh = s,
                        ![q].pc = IF api[q].route.act = "rotate" THEN "retire" ELSE "done"]
  <2>1. s \in Secrets /\ expires \in Moments /\ commands' \in 0..MaxCommands
    BY <1>1 DEF Kind, Secrets, AccessAssumption, RequestsInv, TablesInv, AccessTypeOK
  <2>2. TablesInv' /\ TablesLast
    BY <1>1, <1>2, <1>4, <1>7, <2>1, InsertSecretKeeps DEF RequestsInv
  <2>3. RowOK(old)' /\ WasGood(old)' /\ WasAllowed(old)'
    <3>1. RowOK(old)'
      BY <1>1, <1>3, <2>2, RowStands DEF RequestsInv
    <3> QED
      BY <1>1, <1>2, <3>1 DEF RowOK, Entered, Acting
  <2>4. PICK c \in RequestRow :
          /\ api' = [api EXCEPT ![q] = c]
          /\ c.pc = (IF old.route.act = "rotate" THEN "retire" ELSE "done")
          /\ c.fresh = s /\ c.secret = old.secret /\ c.nonce = old.nonce
          /\ c.route = old.route /\ c.since = old.since /\ c.subject = old.subject
    <3>1. PICK next \in Pcs : next = (IF old.route.act = "rotate" THEN "retire" ELSE "done")
      BY DEF Pcs, Ends
    <3> DEFINE d == [old EXCEPT !.fresh = s, !.pc = next]
    <3>2. /\ d \in RequestRow /\ d.pc = next
          /\ d.fresh = s /\ d.secret = old.secret /\ d.nonce = old.nonce
          /\ d.route = old.route /\ d.since = old.since /\ d.subject = old.subject
      BY <2>1 DEF RequestRow
    <3>3. api' = [api EXCEPT ![q] = d]
      BY <1>2, <1>7, <3>1
    <3> HIDE DEF d
    <3> QED
      BY <3>1, <3>2, <3>3
  <2>5. WasGood(c)' /\ WasAllowed(c)'
    BY <2>3, <2>4 DEF WasGood, WasAllowed, Client
  <2>6. secrets'[s].status = "active" /\ secrets'[s].client = old.subject
    BY <1>2, <1>7, <2>1 DEF InsertSecret, RequestsInv, TablesInv, AccessTypeOK
  <2>7. OldIsOwned(c)'
    BY <1>1, <1>2, <2>1, <2>4, <2>6 DEF OldIsOwned
  <2>8. CreatedIsHeld(c)'
    BY <1>1, <1>2, <2>4 DEF CreatedIsHeld
  <2>9. RowOK(c)'
    BY <2>3, <2>4, <2>5, <2>7, <2>8 DEF RowOK
  <2> QED
    BY <1>1, <1>2, <2>2, <2>4, <2>9, RequestMoves
<1> QED
  BY <1>5, <1>6, <1>7

LEMMA CreateMerchantKeeps ==
    ASSUME AccessAssumption, RequestsAssumption, RequestsInv, NEW q \in Requests,
           CreateMerchant(q)
    PROVE  RequestsInv'
<1>1. /\ api[q].pc = "insert" /\ used' = used /\ UNCHANGED <<now, commands, clients, secrets>>
  BY DEF CreateMerchant
<1>2. PICK old \in RequestRow : old = api[q]
  BY <1>1, ActingFacts DEF Acting
<1>3. /\ RowOK(old) /\ WasGood(old) /\ WasAllowed(old) /\ old.route \in Routes
      /\ Client(old) \in Clients /\ Caller(q) = Client(old)
  BY <1>1, <1>2, ActingFacts DEF Acting
<1>4. old.route.act = "create_merchant" /\ old.route.subject = "none"
  BY <1>1, <1>2, <1>3, RouteSubjects DEF RowOK, CreatedIsHeld
<1>5. old.subject \in Refs \cup {None}
  BY <1>3, <1>4 DEF WasAllowed, Subjects, RequestsAssumption
<1>6. PICK m \in Merchants :
        IF IndexRefuses(api[q].subject)
        THEN Stop(q, "failed") /\ UNCHANGED <<merchants, grants>>
        ELSE /\ InsertMerchant(m, api[q].subject)
             /\ IF Privileged(Caller(q)) THEN UNCHANGED grants
                ELSE InsertGrant(Caller(q), m, clients[Caller(q)].scopes)
             /\ api' = [api EXCEPT ![q].pc = "done", ![q].fresh = m]
  BY DEF CreateMerchant
<1>7. CASE IndexRefuses(api[q].subject)
  BY <1>1, <1>6, <1>7, StopKeeps DEF accessVars
<1>8. CASE ~IndexRefuses(api[q].subject)
  <2>1. /\ clients[Caller(q)].scopes \in SUBSET UNION ScopeSets /\ commands' \in 0..MaxCommands
    BY <1>1, <1>3 DEF RequestsInv, TablesInv, AccessTypeOK, ClientRow
  <2>2. \/ UNCHANGED grants
        \/ \E c \in Clients, n \in Merchants, scopes \in SUBSET UNION ScopeSets :
             InsertGrant(c, n, scopes)
    BY <1>3, <1>6, <1>8, <2>1
  <2>3. TablesInv' /\ TablesLast
    BY <1>1, <1>2, <1>5, <1>6, <1>8, <2>1, <2>2, InsertMerchantKeeps DEF RequestsInv
  <2>4. RowOK(old)' /\ WasGood(old)' /\ WasAllowed(old)'
    <3>1. RowOK(old)'
      BY <1>1, <1>3, <2>3, RowStands DEF RequestsInv
    <3> QED
      BY <1>1, <1>2, <3>1 DEF RowOK, Entered, Acting
  <2>5. PICK c \in RequestRow :
          /\ api' = [api EXCEPT ![q] = c]
          /\ c.pc = "done" /\ c.fresh = m /\ c.secret = old.secret /\ c.nonce = old.nonce
          /\ c.route = old.route /\ c.since = old.since /\ c.subject = old.subject
    <3> DEFINE d == [api[q] EXCEPT !.pc = "done", !.fresh = m]
    <3>1. /\ d \in RequestRow /\ d.pc = "done"
          /\ d.fresh = m /\ d.secret = old.secret /\ d.nonce = old.nonce
          /\ d.route = old.route /\ d.since = old.since /\ d.subject = old.subject
      BY <1>2 DEF RequestRow, Pcs, Ends
    <3>2. api' = [api EXCEPT ![q] = d]
      BY <1>6, <1>8
    <3> HIDE DEF d
    <3> QED
      BY <3>1, <3>2
  <2>6. WasGood(c)' /\ WasAllowed(c)'
    BY <2>4, <2>5 DEF WasGood, WasAllowed, Client
  <2>7. Privileged(Client(old)) \/ grants'[<<Client(old), m>>].status # "absent"
    <3>1. CASE ~Privileged(Client(old))
      <4>1. InsertGrant(Client(old), m, clients[Client(old)].scopes)
        BY <1>3, <1>6, <1>8, <3>1
      <4>2. <<Client(old), m>> \in Clients \X Merchants
        BY <1>3
      <4> QED
        BY <4>1, <4>2 DEF InsertGrant, RequestsInv, TablesInv, AccessTypeOK
    <3> QED
      BY <3>1
  <2>8. Client(c)' = Client(old)
    BY <1>1, <2>5 DEF Client
  <2>9. OldIsOwned(c)' /\ CreatedIsHeld(c)'
    BY <2>5, <2>7, <2>8 DEF OldIsOwned, CreatedIsHeld
  <2>10. RowOK(c)'
    BY <2>4, <2>5, <2>6, <2>9 DEF RowOK
  <2> QED
    BY <1>1, <1>2, <2>3, <2>5, <2>10, RequestMoves
<1> QED
  BY <1>7, <1>8

LEMMA RestartKeeps ==
    ASSUME AccessAssumption, RequestsInv, Restart
    PROVE  RequestsInv'
<1>1. TablesInv' /\ TablesLast /\ used' = used
  BY TablesUnchanged DEF Restart, RequestsInv
<1>2. ASSUME NEW q \in Requests
      PROVE  /\ api'[q] \in RequestRow /\ RowOK(api[q]) /\ api[q] \in RequestRow
             /\ api'[q] = api[q] \/ api'[q] = Stopped(q, "failed")
             /\ api'[q].secret = api[q].secret /\ api'[q].nonce = api[q].nonce
  <2>1. api'[q] = IF api[q].pc \in Ends \cup {"idle"} THEN api[q] ELSE Stopped(q, "failed")
    BY DEF Restart
  <2>2. api[q] \in RequestRow /\ RowOK(api[q])
    BY DEF RequestsInv
  <2>3. /\ Stopped(q, "failed") \in RequestRow
        /\ Stopped(q, "failed").secret = api[q].secret /\ Stopped(q, "failed").nonce = api[q].nonce
    BY StoppedIsOK
  <2> QED
    BY <2>1, <2>2, <2>3
<1>3. api' \in [Requests -> RequestRow]
  BY <1>2 DEF Restart
<1>4. ASSUME NEW q \in Requests PROVE RowOK(api[q])'
  <2>1. PICK r \in RequestRow : r = api'[q] /\ RowOK(r)
    BY <1>2, StoppedIsOK
  <2>2. RowOK(r)'
    BY <1>1, <2>1, RowStands DEF RequestsInv
  <2> QED
    BY <2>1, <2>2
<1>5. SignedOnce'
  BY <1>2 DEF RequestsInv, SignedOnce
<1> QED
  BY <1>1, <1>3, <1>4, <1>5 DEF RequestsInv

(* What others do to the tables, and time.                                 *)
LEMMA OthersKeep ==
    ASSUME AccessAssumption, RequestsInv, api' = api, used' = used, TablesInv', TablesLast
    PROVE  RequestsInv'
<1>1. ASSUME NEW q \in Requests PROVE RowOK(api[q])'
  <2>1. PICK r \in RequestRow : r = api[q] /\ RowOK(r)
    BY DEF RequestsInv
  <2>2. RowOK(r)'
    BY <2>1, RowStands DEF RequestsInv
  <2> QED
    BY <2>1, <2>2
<1> QED
  BY <1>1 DEF RequestsInv, SignedOnce

LEMMA RequestsKeep ==
    ASSUME AccessAssumption, RequestsAssumption, RequestsInv, [RequestsNext]_rvars
    PROVE  RequestsInv'
<1>1. CASE UNCHANGED rvars
  BY <1>1, TablesUnchanged, OthersKeep DEF rvars, requestVars, RequestsInv
<1>2. CASE NextTick
  BY <1>2, TickKeeps, OthersKeep DEF NextTick, RequestsInv
<1>3. CASE AdminNext /\ UNCHANGED requestVars
  BY <1>3, AdminKeeps, OthersKeep DEF requestVars, RequestsInv
<1>4. CASE Restart
  BY <1>4, RestartKeeps
<1>5. ASSUME NEW q \in Requests, Malformed(q) \/ Fail(q) PROVE RequestsInv'
  BY <1>5, StopKeeps DEF Malformed, Fail
<1>6. ASSUME NEW q \in Requests,
             \/ PresentCredential(q) \/ PresentSignature(q) \/ ConsumeNonce(q) \/ HitLimits(q)
             \/ Authorize(q) \/ Perform(q) \/ InsertFresh(q) \/ Retire(q)
             \/ FindForRevocation(q) \/ RevokeFound(q) \/ FindMerchant(q) \/ CreateMerchant(q)
      PROVE  RequestsInv'
  BY <1>6, PresentKeeps, NonceKeeps, LimitKeeps, AuthorizeKeeps, PerformKeeps, InsertFreshKeeps,
     RetireKeeps, FindForRevocationKeeps, RevokeFoundKeeps, CreateMerchantKeeps
<1> QED
  BY <1>1, <1>2, <1>3, <1>4, <1>5, <1>6 DEF RequestsNext

(* What is known of every request is kept by every step of every request,  *)
(* of the operator, of the clock, and by a restart.                        *)
THEOREM RequestsHold == RequestsSpec => []RequestsInv
<1>1. RequestsInit => RequestsInv
  <2> SUFFICES ASSUME RequestsInit PROVE RequestsInv
    OBVIOUS
  <2>1. TablesInv
    BY TablesStart, AccessAssumption DEF RequestsInit
  <2>2. Blank.pc = "idle" /\ Blank.fresh = None /\ Blank.nonce = None
    BY DEF Blank
  <2>3. \A q \in Requests : RowOK(api[q])
    BY <2>2 DEF RequestsInit, RowOK, Entered, Acting, OldIsOwned, CreatedIsHeld
  <2>4. SignedOnce
    BY <2>2 DEF RequestsInit, SignedOnce
  <2> QED
    BY <2>1, <2>3, <2>4, BlankIsRow, AccessAssumption DEF RequestsInit, RequestsInv
<1>2. RequestsInv /\ [RequestsNext]_rvars => RequestsInv'
  BY RequestsKeep, AccessAssumption, RequestsAssumption
<1> QED
  BY <1>1, <1>2, PTL DEF RequestsSpec

(* A request that acts was let in with a secret, a client and a grant that *)
(* were good when it came.                                                 *)
THEOREM EffectsAreAllowed == RequestsSpec => []EffectsWereAllowed
<1>1. RequestsInv => EffectsWereAllowed
  BY DEF RequestsInv, RowOK, Entered, WasGood, WasAllowed, EffectsWereAllowed, Caller, Client
<1> QED
  BY <1>1, RequestsHold, PTL

(* A signed request sent again gets past its nonce once.                   *)
THEOREM NoncesAreUsedOnce == RequestsSpec => []SignedOnce
<1>1. RequestsInv => SignedOnce
  BY DEF RequestsInv
<1> QED
  BY <1>1, RequestsHold, PTL

(* No two merchants share a reference, and whoever created one holds it.   *)
THEOREM CreatedMerchantsAreHeld == RequestsSpec => []MerchantsAreHeld
<1>1. RequestsInv => MerchantsAreHeld
  <2> SUFFICES ASSUME RequestsInv PROVE MerchantsAreHeld
    OBVIOUS
  <2>1. \A m, n \in Merchants :
          m # n /\ merchants[m].ref # None => merchants[m].ref # merchants[n].ref
    BY DEF RequestsInv, TablesInv
  <2>2. ASSUME NEW q \in Requests, api[q].route = CreateMerchantRoute, api[q].fresh # None,
               ~Privileged(Caller(q))
        PROVE  grants[<<Caller(q), api[q].fresh>>].status # "absent"
    <3>1. api[q].route.act = "create_merchant"
      BY <2>2 DEF CreateMerchantRoute
    <3> QED
      BY <2>2, <3>1 DEF RequestsInv, RowOK, OldIsOwned, CreatedIsHeld, Caller, Client
  <2> QED
    BY <2>1, <2>2 DEF MerchantsAreHeld
<1> QED
  BY <1>1, RequestsHold, PTL

(* A request ends a secret only of its own client, and a rotation only     *)
(* once the replacement is stored.                                         *)
THEOREM SecretsEndByOwners == RequestsSpec => OnlyOwnersEnd
<1>1. ASSUME RequestsInv, [RequestsNext]_rvars, NEW s \in Secrets,
             secrets[s].status = "active", secrets'[s].status = "revoked", api' # api
      PROVE  \E q \in Requests :
               /\ api[q].pc = "revoke" /\ api[q].old = s
               /\ secrets[s].client = Caller(q) \/ Privileged(Caller(q))
               /\ api[q].route.act = "rotate" =>
                    /\ secrets[api[q].fresh].status # "absent"
                    /\ secrets[api[q].fresh].client = secrets[s].client
  <2>1. secrets \in [Secrets -> SecretRow] /\ secrets'[s] # secrets[s] /\ secrets' # secrets
    BY <1>1 DEF RequestsInv, TablesInv, AccessTypeOK
  <2>2. PICK q \in Requests : InsertFresh(q) \/ RevokeFound(q)
    BY <1>1, <2>1 DEF RequestsNext, NextTick, Tick, Restart, requestVars, rvars, accessVars,
       PresentCredential, PresentSignature, Malformed, ConsumeNonce, HitLimits, Authorize,
       Perform, Retire, FindForRevocation, FindMerchant, CreateMerchant, Fail
  <2>3. ~InsertFresh(q)
    <3> SUFFICES ASSUME InsertFresh(q) PROVE FALSE
      OBVIOUS
    <3>1. PICK x \in Kind(api[q].route), expires \in Expiries :
            InsertSecret(x, api[q].subject, expires) \/ UNCHANGED secrets
      BY DEF InsertFresh
    <3> QED
      BY <1>1, <2>1, <3>1 DEF InsertSecret
  <2>4. /\ api[q].pc = "revoke" /\ RowOK(api[q])
        /\ secrets' = [secrets EXCEPT ![api[q].old].status = "revoked",
                                      ![api[q].old].revokedAt = now]
    BY <1>1, <2>2, <2>3 DEF RevokeFound, RevokeSecret, RequestsInv
  <2>5. api[q].old = s
    BY <2>1, <2>4
  <2>6. WasAllowed(api[q]) /\ OldIsOwned(api[q]) /\ WasGood(api[q])
    BY <2>4 DEF RowOK, Acting, Entered
  <2>7. api[q].route.subject = "client"
    BY <2>4, <2>6, RequestsAssumption, RouteSubjects DEF OldIsOwned, WasGood, RequestsAssumption
  <2> QED
    BY <2>4, <2>5, <2>6, <2>7 DEF WasAllowed, OldIsOwned, Caller, Client
<1>2. RequestsInv /\ [RequestsNext]_rvars =>
        [\A s \in Secrets :
           secrets[s].status = "active" /\ secrets'[s].status = "revoked" =>
              \/ UNCHANGED api
              \/ \E q \in Requests :
                   /\ api[q].pc = "revoke" /\ api[q].old = s
                   /\ secrets[s].client = Caller(q) \/ Privileged(Caller(q))
                   /\ api[q].route.act = "rotate" =>
                        /\ secrets[api[q].fresh].status # "absent"
                        /\ secrets[api[q].fresh].client = secrets[s].client]_rvars
  BY <1>1
<1> QED
  BY <1>2, RequestsHold, PTL DEF RequestsSpec, OnlyOwnersEnd
-----------------------------------------------------------------------------
(***************************************************************************)
(* The limiter.  What it has counted of a client in this tick is never     *)
(* more than the requests of the client that it saw in this tick: a        *)
(* restart forgets hits, but what has been seen stays seen.                *)
(***************************************************************************)
Came(c, w) == {p \in Requests : api[p].window = w /\ Caller(p) = c}

CameBy(c, w, m) == {p \in Came(c, w) : api[p].route.method = m}

(* A request that the limiter has seen.                                    *)
Seen(r) == r.window # Never

Before == {"idle", "nonce", "limit"}

SeenOK(r) ==
    /\ Seen(r) => /\ r.secret \in Secrets /\ secrets[r.secret].status # "absent"
                  /\ r.route \in Offered /\ r.window <= now
                  /\ r.pc \notin Before
    /\ r.pc = "limited" => Seen(r)

LimiterInv ==
    /\ hits \in [Clients \X Buckets -> Nat]
    /\ \A q \in Requests : SeenOK(api[q])
    /\ \A c \in Clients :
         /\ hits[<<c, "global">>] <= Cardinality(Came(c, now))
         /\ \A m \in Methods : hits[<<c, m>>] <= Cardinality(CameBy(c, now, m))
    /\ RefusalsAreEarned

(* A secret that is there stays, with its client, and time goes on.        *)
SecretsStay ==
    /\ now' >= now
    /\ \A s \in Secrets : secrets[s].status # "absent" =>
         secrets'[s].status # "absent" /\ secrets'[s].client = secrets[s].client

LEMMA SecretsStayHere ==
    ASSUME AccessAssumption, RequestsInv, [RequestsNext]_rvars
    PROVE  SecretsStay
<1>1. TablesInv /\ secrets \in [Secrets -> SecretRow] /\ now \in Int
  BY DEF RequestsInv, TablesInv, AccessTypeOK, Times
<1>2. TablesLast => SecretsStay
  BY DEF TablesLast, SecretsStay, Lasts
<1>3. CASE UNCHANGED <<now, secrets>>
  BY <1>1, <1>3 DEF SecretsStay
<1>4. CASE NextTick
  BY <1>1, <1>2, <1>4, TickKeeps DEF NextTick
<1>5. CASE AdminNext
  BY <1>1, <1>2, <1>5, AdminKeeps
<1>6. ASSUME NEW q \in Requests, InsertFresh(q) PROVE SecretsStay
  <2>1. PICK s \in Kind(api[q].route), expires \in Expiries :
          InsertSecret(s, api[q].subject, expires) \/ UNCHANGED secrets
    BY <1>6 DEF InsertFresh
  <2>2. now' = now
    BY <1>6 DEF InsertFresh
  <2> QED
    BY <1>1, <2>1, <2>2 DEF InsertSecret, SecretsStay
<1>7. ASSUME NEW q \in Requests, RevokeFound(q) PROVE SecretsStay
  <2>1. RevokeSecret(api[q].old) /\ now' = now
    BY <1>7 DEF RevokeFound
  <2>2. ASSUME NEW s \in Secrets
        PROVE  \/ secrets'[s] = secrets[s]
               \/ secrets'[s].status = "revoked" /\ secrets'[s].client = secrets[s].client
    <3>1. secrets[s] \in SecretRow
      BY <1>1
    <3> QED
      BY <1>1, <2>1, <3>1 DEF RevokeSecret, SecretRow
  <2> QED
    BY <1>1, <2>1, <2>2 DEF SecretsStay
<1>8. CASE Restart
  BY <1>3, <1>8 DEF Restart, accessVars
<1>9. ASSUME NEW q \in Requests,
             \/ PresentCredential(q) \/ PresentSignature(q) \/ Malformed(q) \/ ConsumeNonce(q)
             \/ HitLimits(q) \/ Authorize(q) \/ Perform(q) \/ Retire(q) \/ FindForRevocation(q)
             \/ FindMerchant(q) \/ CreateMerchant(q) \/ Fail(q)
      PROVE  UNCHANGED <<now, secrets>>
  BY <1>9 DEF PresentCredential, PresentSignature, Malformed, ConsumeNonce, HitLimits, Authorize,
     Perform, Retire, FindForRevocation, FindMerchant, CreateMerchant, Fail, accessVars
<1>10. CASE UNCHANGED rvars
  BY <1>3, <1>10 DEF rvars, accessVars
<1> QED
  BY <1>3, <1>4, <1>5, <1>6, <1>7, <1>8, <1>9, <1>10 DEF RequestsNext

(* What has been seen of a request stays.                                  *)
Kept(p) ==
    Seen(api[p]) => /\ api'[p].window = api[p].window /\ api'[p].secret = api[p].secret
                    /\ api'[p].route = api[p].route

(* Nothing else becomes of a request outside of the limiter.               *)
Passed(p) ==
    /\ Kept(p)
    /\ api'[p].window = api[p].window
    /\ Seen(api[p]) => api'[p].pc \notin Before
    /\ api'[p].pc = "limited" => api[p].pc = "limited"

LEMMA CameGrows ==
    ASSUME AccessAssumption, RequestsAssumption, RequestsInv, SecretsStay,
           \A p \in Requests : SeenOK(api[p]) /\ Kept(p),
           NEW c, NEW w \in Times
    PROVE  /\ Came(c, w) \subseteq Came(c, w)'
           /\ \A m : CameBy(c, w, m) \subseteq CameBy(c, w, m)'
           /\ Cardinality(Came(c, w)) <= Cardinality(Came(c, w)')
           /\ \A m : Cardinality(CameBy(c, w, m)) <= Cardinality(CameBy(c, w, m)')
<1>1. w # Never
  BY DEF Times, Never, AccessAssumption
<1>2. ASSUME NEW p \in Requests, api[p].window = w
      PROVE  Caller(p)' = Caller(p) /\ api'[p].window = w /\ api'[p].route = api[p].route
  <2>1. Seen(api[p])
    BY <1>1, <1>2 DEF Seen
  <2>2. /\ api[p].secret \in Secrets /\ secrets[api[p].secret].status # "absent"
    BY <2>1 DEF SeenOK
  <2> QED
    BY <1>2, <2>1, <2>2 DEF Kept, SecretsStay, Caller
<1>3. Came(c, w) \subseteq Came(c, w)'
  BY <1>2 DEF Came
<1>4. ASSUME NEW m PROVE CameBy(c, w, m) \subseteq CameBy(c, w, m)'
  BY <1>2, <1>3 DEF CameBy, Came
<1>5. IsFiniteSet(Came(c, w)')
  <2>1. Came(c, w)' \in SUBSET Requests
    BY DEF Came
  <2> QED
    BY <2>1, FS_Subset DEF RequestsAssumption
<1>6. ASSUME NEW m PROVE IsFiniteSet(CameBy(c, w, m)')
  <2>1. CameBy(c, w, m)' \in SUBSET (Came(c, w)')
    BY DEF CameBy
  <2> QED
    BY <1>5, <2>1, FS_Subset
<1>7. Cardinality(Came(c, w)) <= Cardinality(Came(c, w)')
  <2>1. Came(c, w) \in SUBSET (Came(c, w)')
    BY <1>3
  <2> QED
    BY <1>5, <2>1, FS_Subset
<1>8. ASSUME NEW m PROVE Cardinality(CameBy(c, w, m)) <= Cardinality(CameBy(c, w, m)')
  <2>1. CameBy(c, w, m) \in SUBSET (CameBy(c, w, m)')
    BY <1>4
  <2> QED
    BY <1>6, <2>1, FS_Subset
<1> QED
  BY <1>3, <1>4, <1>7, <1>8

LEMMA CameTypes ==
    ASSUME RequestsAssumption, NEW c, NEW w, NEW m
    PROVE  /\ IsFiniteSet(Came(c, w)) /\ Cardinality(Came(c, w)) \in Nat
           /\ IsFiniteSet(CameBy(c, w, m)) /\ Cardinality(CameBy(c, w, m)) \in Nat
<1>1. Came(c, w) \in SUBSET Requests /\ CameBy(c, w, m) \in SUBSET Requests
  BY DEF Came, CameBy
<1> QED
  BY <1>1, FS_Subset, FS_CardinalityType DEF RequestsAssumption

(* A refusal that was earned stays earned.                                 *)
Earned(q) ==
    \/ Cardinality(Came(Caller(q), api[q].window)) > GlobalLimit
    \/ Cardinality(CameBy(Caller(q), api[q].window, api[q].route.method)) > RouteLimit

LEMMA EarnedStays ==
    ASSUME AccessAssumption, RequestsAssumption, RequestsInv, SecretsStay,
           \A p \in Requests : SeenOK(api[p]) /\ Kept(p),
           NEW q \in Requests, Seen(api[q]), Earned(q)
    PROVE  Earned(q)'
<1>1. PICK c, w, m : c = Caller(q) /\ w = api[q].window /\ m = api[q].route.method
  OBVIOUS
<1>2. w \in Times
  BY <1>1 DEF Seen, RequestsInv, RequestRow, Moments, Times, Never, AccessAssumption
<1>3. Caller(q)' = c /\ api'[q].window = w /\ api'[q].route.method = m
  BY <1>1 DEF Kept, SeenOK, SecretsStay, Caller
<1>4. Came(Caller(q), api[q].window)' = Came(c, w)'
  BY <1>3 DEF Came
<1>5. CameBy(Caller(q), api[q].window, api[q].route.method)' = CameBy(c, w, m)'
  BY <1>3 DEF CameBy, Came
<1>6. /\ Cardinality(Came(c, w)) <= Cardinality(Came(c, w)')
      /\ Cardinality(CameBy(c, w, m)) <= Cardinality(CameBy(c, w, m)')
  BY <1>2, CameGrows
<1>7. Cardinality(Came(c, w)) \in Nat /\ Cardinality(CameBy(c, w, m)) \in Nat
  BY CameTypes
<1>8. Cardinality(Came(c, w)') \in Nat /\ Cardinality(CameBy(c, w, m)') \in Nat
  <2>1. Came(c, w)' \in SUBSET Requests /\ CameBy(c, w, m)' \in SUBSET Requests
    BY DEF Came, CameBy
  <2> QED
    BY <2>1, FS_Subset, FS_CardinalityType DEF RequestsAssumption
<1>9. Cardinality(Came(c, w)) > GlobalLimit \/ Cardinality(CameBy(c, w, m)) > RouteLimit
  BY <1>1 DEF Earned
<1>10. Cardinality(Came(c, w)') > GlobalLimit \/ Cardinality(CameBy(c, w, m)') > RouteLimit
  BY <1>6, <1>7, <1>8, <1>9 DEF RequestsAssumption
<1> QED
  BY <1>4, <1>5, <1>10 DEF Earned

(* Steps outside of the limiter, and those that drop its windows.          *)
LEMMA LimiterRests ==
    ASSUME AccessAssumption, RequestsAssumption, RequestsInv, RequestsInv', SecretsStay,
           LimiterInv, \A p \in Requests : Passed(p),
           (hits' = hits /\ now' = now) \/ hits' = NoHits
    PROVE  LimiterInv'
<1>1. \A p \in Requests : SeenOK(api[p]) /\ Kept(p)
  BY DEF LimiterInv, Passed
<1>2. hits' \in [Clients \X Buckets -> Nat]
  BY DEF LimiterInv, NoHits
<1>3. ASSUME NEW p \in Requests PROVE SeenOK(api[p])'
  <2>1. now \in Int /\ now' \in Int /\ now' >= now
    BY DEF RequestsInv, TablesInv, AccessTypeOK, Times, SecretsStay
  <2>2. Seen(api[p]) => api[p].window \in Int
    BY DEF RequestsInv, RequestRow, Moments
  <2>3. SeenOK(api[p]) /\ Passed(p)
    BY <1>1
  <2> QED
    BY <2>1, <2>2, <2>3 DEF SeenOK, Passed, Kept, Seen, SecretsStay
<1>4. ASSUME NEW c \in Clients
      PROVE  /\ hits'[<<c, "global">>] <= Cardinality(Came(c, now))'
             /\ \A m \in Methods : hits'[<<c, m>>] <= Cardinality(CameBy(c, now, m))'
  <2>1. ASSUME NEW m
        PROVE  Cardinality(Came(c, now))' \in Nat /\ Cardinality(CameBy(c, now, m))' \in Nat
    <3>1. Came(c, now)' \in SUBSET Requests /\ CameBy(c, now, m)' \in SUBSET Requests
      BY DEF Came, CameBy
    <3> QED
      BY <3>1, FS_Subset, FS_CardinalityType DEF RequestsAssumption
  <2>2. CASE hits' = NoHits
    <3>1. /\ hits'[<<c, "global">>] = 0
          /\ \A m \in Methods : hits'[<<c, m>>] = 0
      BY <2>2 DEF NoHits, Buckets
    <3> QED
      BY <2>1, <3>1
  <2>3. CASE hits' = hits /\ now' = now
    <3>1. PICK w \in Times : w = now
      BY DEF RequestsInv, TablesInv, AccessTypeOK
    <3>2. /\ Came(c, now)' = Came(c, w)'
          /\ \A m : CameBy(c, now, m)' = CameBy(c, w, m)'
      BY <2>3, <3>1 DEF Came, CameBy
    <3>3. /\ Cardinality(Came(c, w)) <= Cardinality(Came(c, w)')
          /\ \A m : Cardinality(CameBy(c, w, m)) <= Cardinality(CameBy(c, w, m)')
      BY <1>1, CameGrows
    <3>4. /\ hits[<<c, "global">>] <= Cardinality(Came(c, w))
          /\ \A m \in Methods : hits[<<c, m>>] <= Cardinality(CameBy(c, w, m))
      BY <3>1 DEF LimiterInv
    <3>5. /\ hits[<<c, "global">>] \in Nat
          /\ \A m \in Methods : hits[<<c, m>>] \in Nat
      BY DEF LimiterInv, Buckets
    <3>6. \A m : Cardinality(Came(c, w)) \in Nat /\ Cardinality(CameBy(c, w, m)) \in Nat
      BY CameTypes
    <3>7. hits'[<<c, "global">>] <= Cardinality(Came(c, now))'
      BY <2>1, <2>3, <3>2, <3>3, <3>4, <3>5, <3>6
    <3>8. ASSUME NEW m \in Methods PROVE hits'[<<c, m>>] <= Cardinality(CameBy(c, now, m))'
      BY <2>1, <2>3, <3>2, <3>3, <3>4, <3>5, <3>6
    <3> QED
      BY <3>7, <3>8
  <2> QED
    BY <2>2, <2>3
<1>5. RefusalsAreEarned'
  <2> SUFFICES ASSUME NEW q \in Requests, api'[q].pc = "limited" PROVE Earned(q)'
    BY DEF RefusalsAreEarned, Earned, Came, CameBy
  <2>1. api[q].pc = "limited" /\ Seen(api[q])
    BY <1>1 DEF Passed, SeenOK
  <2>2. Earned(q)
    BY <2>1 DEF LimiterInv, RefusalsAreEarned, Earned, Came, CameBy
  <2> QED
    BY <1>1, <2>1, <2>2, EarnedStays
<1> QED
  BY <1>2, <1>3, <1>4, <1>5 DEF LimiterInv

(* A hit counts the request that makes it, which was not seen before.      *)
LEMMA HitCounts ==
    ASSUME AccessAssumption, RequestsAssumption, RequestsInv, RequestsInv', SecretsStay,
           LimiterInv, NEW q \in Requests, HitLimits(q)
    PROVE  LimiterInv'
<1>1. /\ api[q] \in RequestRow /\ RowOK(api[q]) /\ api[q].pc = "limit" /\ ~Seen(api[q])
      /\ api \in [Requests -> RequestRow] /\ UNCHANGED accessVars /\ now \in Times
      /\ SeenOK(api[q])
  BY DEF RequestsInv, HitLimits, RouteBucket, LimiterInv, SeenOK, Before, TablesInv, AccessTypeOK
<1>2. /\ WasGood(api[q]) /\ Caller(q) \in Clients /\ api[q].route.method \in Methods
      /\ secrets' = secrets /\ now' = now /\ now \in Int /\ now # Never
  BY <1>1 DEF RowOK, Entered, WasGood, RequestsInv, TablesInv, Caller, Methods, accessVars, Times,
              Never, AccessAssumption
<1>3. PICK c \in Clients, m \in Methods, pc \in {"limited", "authorize"} :
        /\ c = Caller(q) /\ m = api[q].route.method
        /\ api' = [[api EXCEPT ![q].window = now] EXCEPT ![q].pc = pc]
        /\ IF hits[<<c, "global">>] + 1 > GlobalLimit
           THEN /\ pc = "limited"
                /\ hits' = [hits EXCEPT ![<<c, "global">>] = @ + 1]
           ELSE /\ hits' = [[hits EXCEPT ![<<c, "global">>] = @ + 1] EXCEPT ![<<c, m>>] = @ + 1]
                /\ pc = "limited" => hits[<<c, m>>] + 1 > RouteLimit
  <2>1. \A c \in Clients, m \in Methods :
          /\ m # "global" /\ <<c, "global">> # <<c, m>>
          /\ <<c, "global">> \in Clients \X Buckets /\ <<c, m>> \in Clients \X Buckets
    BY RouteSubjects DEF Methods, Buckets, RequestsAssumption
  <2>2. hits \in [Clients \X Buckets -> Nat]
    BY DEF LimiterInv
  <2>3. PICK c \in Clients, m \in Methods : c = Caller(q) /\ m = api[q].route.method
    BY <1>2
  <2>4. [hits EXCEPT ![<<c, "global">>] = @ + 1][<<c, "global">>] = hits[<<c, "global">>] + 1
    BY <2>1, <2>2
  <2>5. [[hits EXCEPT ![<<c, "global">>] = @ + 1] EXCEPT ![<<c, m>>] = @ + 1][<<c, m>>]
          = hits[<<c, m>>] + 1
    BY <2>1, <2>2
  <2>6. CASE hits[<<c, "global">>] + 1 > GlobalLimit
    BY <2>3, <2>4, <2>6 DEF HitLimits, RouteBucket
  <2>7. CASE ~(hits[<<c, "global">>] + 1 > GlobalLimit)
    <3>1. PICK pc \in {"limited", "authorize"} :
            pc = (IF hits[<<c, m>>] + 1 > RouteLimit THEN "limited" ELSE "authorize")
      OBVIOUS
    <3>2. /\ hits' = [[hits EXCEPT ![<<c, "global">>] = @ + 1] EXCEPT ![<<c, m>>] = @ + 1]
          /\ api' = [[api EXCEPT ![q].window = now] EXCEPT ![q].pc = pc]
      BY <2>3, <2>4, <2>5, <2>7, <3>1 DEF HitLimits, RouteBucket
    <3> QED
      BY <2>3, <2>7, <3>1, <3>2
  <2> QED
    BY <2>6, <2>7
<1>4. /\ m # "global" /\ hits \in [Clients \X Buckets -> Nat]
      /\ \A d \in Clients : <<d, "global">> \in Clients \X Buckets
      /\ \A d \in Clients, x \in Methods : x # "global" /\ <<d, x>> \in Clients \X Buckets
  BY RouteSubjects DEF Methods, Buckets, RequestsAssumption, LimiterInv
<1>5. \A p \in Requests : p # q => api'[p] = api[p]
  BY <1>1, <1>3
<1>6. /\ api'[q].window = now /\ api'[q].secret = api[q].secret /\ api'[q].route = api[q].route
      /\ api'[q].pc = pc
  <2> DEFINE r == [api[q] EXCEPT !.window = now, !.pc = pc]
  <2>1. /\ r.window = now /\ r.secret = api[q].secret /\ r.route = api[q].route /\ r.pc = pc
    BY <1>1 DEF RequestRow
  <2>2. api' = [api EXCEPT ![q] = r]
    BY <1>1, <1>3
  <2> HIDE DEF r
  <2> QED
    BY <1>1, <2>1, <2>2
<1>7. \A p \in Requests : SeenOK(api[p]) /\ Kept(p)
  BY <1>1, <1>5 DEF LimiterInv, Kept
<1>8. ASSUME NEW p \in Requests PROVE SeenOK(api[p])'
  <2>1. CASE p = q
    BY <1>1, <1>2, <1>6, <2>1 DEF SeenOK, Seen, WasGood, Before
  <2>2. CASE p # q
    BY <1>2, <1>5, <1>7, <2>2 DEF SeenOK, Seen
  <2> QED
    BY <2>1, <2>2
<1>9. hits' \in [Clients \X Buckets -> Nat]
  BY <1>3, <1>4
<1>10. PICK w \in Times : w = now
  BY <1>1
<1>11. \A p \in Requests : Caller(p)' = Caller(p)
  <2>1. ASSUME NEW p \in Requests PROVE api'[p].secret = api[p].secret
    BY <1>5, <1>6
  <2> QED
    BY <1>2, <2>1 DEF Caller
<1>12. /\ Came(c, w)' = Came(c, w) \cup {q} /\ CameBy(c, w, m)' = CameBy(c, w, m) \cup {q}
       /\ q \notin Came(c, w) /\ q \notin CameBy(c, w, m)
  BY <1>1, <1>2, <1>3, <1>5, <1>6, <1>10, <1>11 DEF Came, CameBy, Seen
<1>13. /\ Cardinality(Came(c, w)') = Cardinality(Came(c, w)) + 1
       /\ Cardinality(CameBy(c, w, m)') = Cardinality(CameBy(c, w, m)) + 1
  BY <1>12, CameTypes, FS_AddElement
<1>14. ASSUME NEW d \in Clients
       PROVE  /\ hits'[<<d, "global">>] <= Cardinality(Came(d, w)')
              /\ \A x \in Methods : hits'[<<d, x>>] <= Cardinality(CameBy(d, w, x)')
  <2>1. /\ Cardinality(Came(d, w)) <= Cardinality(Came(d, w)')
        /\ \A x : Cardinality(CameBy(d, w, x)) <= Cardinality(CameBy(d, w, x)')
    BY <1>7, CameGrows
  <2>2. ASSUME NEW x
        PROVE  /\ Cardinality(Came(d, w)) \in Nat /\ Cardinality(CameBy(d, w, x)) \in Nat
               /\ Cardinality(Came(d, w)') \in Nat /\ Cardinality(CameBy(d, w, x)') \in Nat
    <3>1. Came(d, w)' \in SUBSET Requests /\ CameBy(d, w, x)' \in SUBSET Requests
      BY DEF Came, CameBy
    <3> QED
      BY <3>1, CameTypes, FS_Subset, FS_CardinalityType DEF RequestsAssumption
  <2>3. /\ hits[<<d, "global">>] <= Cardinality(Came(d, w))
        /\ \A x \in Methods : hits[<<d, x>>] <= Cardinality(CameBy(d, w, x))
    BY <1>10 DEF LimiterInv
  <2>4. /\ hits'[<<d, "global">>] = hits[<<d, "global">>] + (IF d = c THEN 1 ELSE 0)
        /\ \A x \in Methods : hits'[<<d, x>>] \in
             {hits[<<d, x>>], hits[<<d, x>>] + (IF d = c /\ x = m THEN 1 ELSE 0)}
    BY <1>3, <1>4
  <2>5. hits'[<<d, "global">>] <= Cardinality(Came(d, w)')
    BY <1>4, <1>13, <2>1, <2>2, <2>3, <2>4
  <2>6. ASSUME NEW x \in Methods PROVE hits'[<<d, x>>] <= Cardinality(CameBy(d, w, x)')
    <3>1. hits[<<d, x>>] \in Nat
      BY <1>4
    <3>2. CASE d = c /\ x = m
      BY <1>13, <2>2, <2>3, <2>4, <3>1, <3>2
    <3>3. CASE ~(d = c /\ x = m)
      BY <2>1, <2>2, <2>3, <2>4, <3>1, <3>3
    <3> QED
      BY <3>2, <3>3
  <2> QED
    BY <2>5, <2>6
<1>15. ASSUME NEW d \in Clients
       PROVE  /\ hits'[<<d, "global">>] <= Cardinality(Came(d, now))'
              /\ \A x \in Methods : hits'[<<d, x>>] <= Cardinality(CameBy(d, now, x))'
  <2>1. /\ Came(d, now)' = Came(d, w)'
        /\ \A x : CameBy(d, now, x)' = CameBy(d, w, x)'
    BY <1>2, <1>10 DEF Came, CameBy
  <2> QED
    BY <1>14, <2>1
<1>16. RefusalsAreEarned'
  <2> SUFFICES ASSUME NEW p \in Requests, api'[p].pc = "limited" PROVE Earned(p)'
    BY DEF RefusalsAreEarned, Earned, Came, CameBy
  <2>1. CASE p # q
    <3>1. api[p].pc = "limited" /\ Seen(api[p])
      BY <1>5, <1>7, <2>1 DEF SeenOK
    <3>2. Earned(p)
      BY <3>1 DEF LimiterInv, RefusalsAreEarned, Earned, Came, CameBy
    <3> QED
      BY <1>7, <3>1, <3>2, EarnedStays
  <2>2. CASE p = q
    <3>1. Caller(q)' = c /\ api'[q].window = w /\ api'[q].route.method = m
      BY <1>3, <1>6, <1>10, <1>11
    <3>2. Came(Caller(q), api[q].window)' = Came(c, w)'
      BY <3>1 DEF Came
    <3>3. CameBy(Caller(q), api[q].window, api[q].route.method)' = CameBy(c, w, m)'
      BY <3>1 DEF CameBy, Came
    <3>4. \/ hits[<<c, "global">>] + 1 > GlobalLimit
          \/ hits[<<c, m>>] + 1 > RouteLimit
      BY <1>3, <1>6, <2>2
    <3>5. /\ hits[<<c, "global">>] <= Cardinality(Came(c, w))
          /\ hits[<<c, m>>] <= Cardinality(CameBy(c, w, m))
      BY <1>10 DEF LimiterInv
    <3>6. /\ hits[<<c, "global">>] \in Nat /\ hits[<<c, m>>] \in Nat
          /\ Cardinality(Came(c, w)) \in Nat /\ Cardinality(CameBy(c, w, m)) \in Nat
      BY <1>4, CameTypes
    <3>7. Cardinality(Came(c, w)') > GlobalLimit \/ Cardinality(CameBy(c, w, m)') > RouteLimit
      BY <1>13, <3>4, <3>5, <3>6 DEF RequestsAssumption
    <3> QED
      BY <2>2, <3>2, <3>3, <3>7 DEF Earned
  <2> QED
    BY <2>1, <2>2
<1> QED
  BY <1>8, <1>9, <1>15, <1>16 DEF LimiterInv

(* A step of a request that is not the limiter's.                          *)
LEMMA RequestPasses ==
    ASSUME AccessAssumption, RequestsInv, LimiterInv, NEW q \in Requests,
           \/ PresentCredential(q) \/ PresentSignature(q) \/ Malformed(q) \/ ConsumeNonce(q)
           \/ Authorize(q) \/ Perform(q) \/ InsertFresh(q) \/ Retire(q) \/ FindForRevocation(q)
           \/ RevokeFound(q) \/ FindMerchant(q) \/ CreateMerchant(q) \/ Fail(q)
    PROVE  (\A p \in Requests : Passed(p)) /\ hits' = hits /\ now' = now
<1>1. api \in [Requests -> RequestRow] /\ SeenOK(api[q]) /\ api[q] \in RequestRow
  BY DEF RequestsInv, LimiterInv
<1>2. hits' = hits /\ now' = now
  BY DEF PresentCredential, PresentSignature, Malformed, ConsumeNonce, Authorize, Perform,
     InsertFresh, Retire, FindForRevocation, RevokeFound, FindMerchant, CreateMerchant, Fail,
     accessVars
<1> DEFINE Goes(r) ==
             /\ r.window = api[q].window
             /\ Seen(api[q]) => /\ r.secret = api[q].secret /\ r.route = api[q].route
                                /\ r.pc \notin Before
             /\ r.pc # "limited"
<1>3. SUFFICES \E r : api' = [api EXCEPT ![q] = r] /\ Goes(r)
  <2> SUFFICES ASSUME NEW r, api' = [api EXCEPT ![q] = r], Goes(r), NEW p \in Requests
               PROVE  Passed(p)
    BY <1>2
  <2>1. CASE p = q
    BY <1>1, <2>1 DEF Passed, Kept
  <2>2. CASE p # q
    <3>1. api'[p] = api[p] /\ SeenOK(api[p])
      BY <1>1, <2>2 DEF LimiterInv
    <3> QED
      BY <3>1 DEF Passed, Kept, SeenOK
  <2> QED
    BY <2>1, <2>2
<1>4. ASSUME NEW pc, Stop(q, pc), pc \notin Before \cup {"limited"}
      PROVE  \E r : api' = [api EXCEPT ![q] = r] /\ Goes(r)
  <2>1. /\ Stopped(q, pc).pc = pc /\ Stopped(q, pc).window = api[q].window
        /\ Stopped(q, pc).secret = api[q].secret /\ Stopped(q, pc).route = api[q].route
    BY DEF Stopped, Blank
  <2> QED
    BY <1>4, <2>1 DEF Stop
<1>5. ASSUME NEW pc, Goto(q, pc), pc \notin Before \cup {"limited"}
      PROVE  \E r : api' = [api EXCEPT ![q] = r] /\ Goes(r)
  <2> DEFINE r == [api[q] EXCEPT !.pc = pc]
  <2>1. Goes(r)
    BY <1>1, <1>5 DEF RequestRow
  <2>2. api' = [api EXCEPT ![q] = r]
    BY <1>5 DEF Goto
  <2> QED
    BY <2>1, <2>2
<1>6. CASE Malformed(q) \/ Fail(q)
  BY <1>4, <1>6 DEF Malformed, Fail, Before
<1>7. CASE PresentCredential(q) \/ PresentSignature(q)
  <2>1. api[q].window = Never /\ ~Seen(api[q])
    BY <1>1, <1>7 DEF PresentCredential, PresentSignature, SeenOK, Seen, Before
  <2>2. PICK s \in Secrets, pc \in {"nonce", "limit"}, route \in Offered :
          api' = [api EXCEPT ![q] =
                    IF SecretUsable(s)
                    THEN [Blank EXCEPT !.pc = pc, !.route = route, !.secret = s, !.since = now]
                    ELSE [Blank EXCEPT !.pc = "denied"]]
    BY <1>7 DEF PresentCredential, PresentSignature, Admitted, Secrets
  <2> DEFINE r == IF SecretUsable(s)
                  THEN [Blank EXCEPT !.pc = pc, !.route = route, !.secret = s, !.since = now]
                  ELSE [Blank EXCEPT !.pc = "denied"]
  <2>3. r.window = Never /\ r.pc # "limited"
    BY DEF Blank
  <2> QED
    BY <2>1, <2>2, <2>3
<1>8. CASE ConsumeNonce(q)
  <2>1. ~Seen(api[q]) /\ api[q].pc = "nonce"
    BY <1>1, <1>8 DEF ConsumeNonce, SeenOK, Before
  <2>2. PICK nonce \in Nonces :
          \/ api' = [api EXCEPT ![q].pc = "limit", ![q].nonce = nonce]
          \/ Stop(q, "denied")
    BY <1>8 DEF ConsumeNonce
  <2>3. CASE Stop(q, "denied")
    BY <1>4, <2>3 DEF Before
  <2>4. CASE api' = [api EXCEPT ![q].pc = "limit", ![q].nonce = nonce]
    <3> DEFINE r == [api[q] EXCEPT !.pc = "limit", !.nonce = nonce]
    <3>1. r.window = api[q].window /\ r.pc = "limit"
      BY <1>1 DEF RequestRow
    <3>2. api' = [api EXCEPT ![q] = r]
      BY <1>1, <2>4
    <3> QED
      BY <2>1, <3>1, <3>2
  <2> QED
    BY <2>2, <2>3, <2>4
<1>9. CASE Authorize(q)
  <2>1. PICK subject :
          \/ api' = [api EXCEPT ![q].pc = "act", ![q].subject = subject]
          \/ Stop(q, "denied")
    BY <1>9 DEF Authorize
  <2> DEFINE r == [api[q] EXCEPT !.pc = "act", !.subject = subject]
  <2>2. Goes(r)
    BY <1>1 DEF RequestRow, Before
  <2>3. CASE api' = [api EXCEPT ![q].pc = "act", ![q].subject = subject]
    <3>1. api' = [api EXCEPT ![q] = r]
      BY <1>1, <2>3
    <3> QED
      BY <2>2, <3>1
  <2> QED
    BY <1>4, <2>1, <2>3 DEF Before
<1>10. CASE Perform(q) \/ FindMerchant(q) \/ RevokeFound(q)
  BY <1>5, <1>10 DEF Perform, FindMerchant, RevokeFound, Before
<1>11. CASE InsertFresh(q)
  <2>1. PICK s \in Kind(api[q].route), pc \in {"retire", "done"} :
          api' = [api EXCEPT ![q].fresh = s, ![q].pc = pc] \/ Stop(q, "failed")
    <3>1. PICK pc \in {"retire", "done"} :
            pc = (IF api[q].route.act = "rotate" THEN "retire" ELSE "done")
      OBVIOUS
    <3>2. PICK s \in Kind(api[q].route), expires \in Expiries :
            \/ api' = [api EXCEPT ![q].fresh = s,
                         ![q].pc = IF api[q].route.act = "rotate" THEN "retire" ELSE "done"]
            \/ Stop(q, "failed")
      BY <1>11 DEF InsertFresh
    <3> QED
      BY <3>1, <3>2
  <2> DEFINE r == [api[q] EXCEPT !.fresh = s, !.pc = pc]
  <2>2. Goes(r)
    BY <1>1 DEF RequestRow, Before
  <2>3. CASE api' = [api EXCEPT ![q].fresh = s, ![q].pc = pc]
    <3>1. api' = [api EXCEPT ![q] = r]
      BY <1>1, <2>3
    <3> QED
      BY <2>2, <3>1
  <2> QED
    BY <1>4, <2>1, <2>3 DEF Before
<1>12. CASE Retire(q) \/ FindForRevocation(q)
  <2>1. PICK s : \/ api' = [api EXCEPT ![q].pc = "revoke", ![q].old = s]
                 \/ Goto(q, "done") \/ Stop(q, "failed")
    BY <1>12 DEF Retire, FindForRevocation
  <2> DEFINE r == [api[q] EXCEPT !.pc = "revoke", !.old = s]
  <2>2. Goes(r)
    BY <1>1 DEF RequestRow, Before
  <2>3. CASE api' = [api EXCEPT ![q].pc = "revoke", ![q].old = s]
    <3>1. api' = [api EXCEPT ![q] = r]
      BY <1>1, <2>3
    <3> QED
      BY <2>2, <3>1
  <2> QED
    BY <1>4, <1>5, <2>1, <2>3 DEF Before
<1>13. CASE CreateMerchant(q)
  <2>1. PICK m : api' = [api EXCEPT ![q].pc = "done", ![q].fresh = m] \/ Stop(q, "failed")
    BY <1>13 DEF CreateMerchant
  <2> DEFINE r == [api[q] EXCEPT !.pc = "done", !.fresh = m]
  <2>2. Goes(r)
    BY <1>1 DEF RequestRow, Before
  <2>3. CASE api' = [api EXCEPT ![q].pc = "done", ![q].fresh = m]
    <3>1. api' = [api EXCEPT ![q] = r]
      BY <1>1, <2>3
    <3> QED
      BY <2>2, <3>1
  <2> QED
    BY <1>4, <2>1, <2>3 DEF Before
<1> QED
  BY <1>6, <1>7, <1>8, <1>9, <1>10, <1>11, <1>12, <1>13

LEMMA LimiterKeeps ==
    ASSUME AccessAssumption, RequestsAssumption, RequestsInv, RequestsInv', LimiterInv,
           [RequestsNext]_rvars
    PROVE  LimiterInv'
<1>1. SecretsStay
  BY SecretsStayHere
<1>2. \A p \in Requests : SeenOK(api[p])
  BY DEF LimiterInv
<1>3. CASE api' = api /\ (hits' = NoHits \/ (hits' = hits /\ now' = now))
  <2>1. \A p \in Requests : Passed(p)
    BY <1>2, <1>3 DEF Passed, Kept, SeenOK
  <2> QED
    BY <1>1, <1>3, <2>1, LimiterRests
<1>4. CASE UNCHANGED rvars
  BY <1>3, <1>4 DEF rvars, requestVars, accessVars
<1>5. CASE NextTick
  BY <1>3, <1>5 DEF NextTick, FreshWindows
<1>6. CASE AdminNext /\ UNCHANGED requestVars
  BY <1>3, <1>6 DEF AdminNext, requestVars
<1>7. CASE Restart
  <2>1. ASSUME NEW p \in Requests PROVE Passed(p)
    <3>1. api'[p] = IF api[p].pc \in Ends \cup {"idle"} THEN api[p] ELSE Stopped(p, "failed")
      BY <1>7 DEF Restart
    <3>2. /\ Stopped(p, "failed").pc = "failed" /\ Stopped(p, "failed").window = api[p].window
          /\ Stopped(p, "failed").secret = api[p].secret
          /\ Stopped(p, "failed").route = api[p].route
      BY DEF Stopped, Blank
    <3> QED
      BY <1>2, <3>1, <3>2 DEF Passed, Kept, SeenOK, Before
  <2> QED
    BY <1>1, <1>7, <2>1, LimiterRests DEF Restart
<1>8. ASSUME NEW q \in Requests, HitLimits(q) PROVE LimiterInv'
  BY <1>1, <1>8, HitCounts
<1>9. ASSUME NEW q \in Requests,
             \/ PresentCredential(q) \/ PresentSignature(q) \/ Malformed(q) \/ ConsumeNonce(q)
             \/ Authorize(q) \/ Perform(q) \/ InsertFresh(q) \/ Retire(q) \/ FindForRevocation(q)
             \/ RevokeFound(q) \/ FindMerchant(q) \/ CreateMerchant(q) \/ Fail(q)
      PROVE  LimiterInv'
  BY <1>1, <1>9, RequestPasses, LimiterRests
<1> QED
  BY <1>4, <1>5, <1>6, <1>7, <1>8, <1>9 DEF RequestsNext

(* A client that is refused for its rate has sent more requests in that    *)
(* window than one of the limits allows, whatever restarts and other       *)
(* clients' requests there were.                                           *)
THEOREM OnlyTheEarnedRefused == RequestsSpec => []RefusalsAreEarned
<1>1. RequestsInit => LimiterInv
  <2> SUFFICES ASSUME RequestsInit PROVE LimiterInv
    OBVIOUS
  <2>1. \A q \in Requests : api[q].window = Never /\ api[q].pc = "idle"
    BY DEF RequestsInit, Blank
  <2>2. \A q \in Requests : SeenOK(api[q])
    BY <2>1 DEF SeenOK, Seen
  <2>3. RefusalsAreEarned
    BY <2>1 DEF RefusalsAreEarned
  <2>4. hits = NoHits
    BY DEF RequestsInit
  <2>5. ASSUME NEW c \in Clients, NEW m \in Methods
        PROVE  /\ hits[<<c, "global">>] <= Cardinality(Came(c, now))
               /\ hits[<<c, m>>] <= Cardinality(CameBy(c, now, m))
    <3>1. hits[<<c, "global">>] = 0 /\ hits[<<c, m>>] = 0
      BY <2>4 DEF NoHits, Buckets
    <3>2. Came(c, now) \in SUBSET Requests /\ CameBy(c, now, m) \in SUBSET Requests
      BY DEF Came, CameBy
    <3>3. Cardinality(Came(c, now)) \in Nat /\ Cardinality(CameBy(c, now, m)) \in Nat
      BY <3>2, FS_Subset, FS_CardinalityType, RequestsAssumption DEF RequestsAssumption
    <3> QED
      BY <3>1, <3>3
  <2>6. ASSUME NEW c \in Clients PROVE hits[<<c, "global">>] <= Cardinality(Came(c, now))
    <3>1. hits[<<c, "global">>] = 0
      BY <2>4 DEF NoHits, Buckets
    <3>2. Came(c, now) \in SUBSET Requests
      BY DEF Came
    <3>3. Cardinality(Came(c, now)) \in Nat
      BY <3>2, FS_Subset, FS_CardinalityType, RequestsAssumption DEF RequestsAssumption
    <3> QED
      BY <3>1, <3>3
  <2>7. hits \in [Clients \X Buckets -> Nat]
    BY <2>4 DEF NoHits
  <2> QED
    BY <2>2, <2>3, <2>5, <2>6, <2>7 DEF LimiterInv
<1>2. RequestsInv /\ RequestsInv' /\ LimiterInv /\ [RequestsNext]_rvars => LimiterInv'
  BY LimiterKeeps, AccessAssumption, RequestsAssumption
<1>3. LimiterInv => RefusalsAreEarned
  BY DEF LimiterInv
<1> QED
  BY <1>1, <1>2, <1>3, RequestsHold, PTL DEF RequestsSpec
=============================================================================
