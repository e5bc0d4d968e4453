---------------------------- MODULE ApiRequests ----------------------------
(***************************************************************************)
(* An authenticated request, from its secret to its effect: authentication *)
(* by bearer credential or signature, the rate limiter, the scope and      *)
(* grant checks of its route, and the statements of the handlers that      *)
(* create, rotate and revoke secrets or create merchants.  Requests run    *)
(* concurrently with each other and with the operator's commands.          *)
(*                                                                         *)
(* A parameter of a request is chosen where it is first used.  A tick is a *)
(* window of the limiter.  The shared service token acts as a system       *)
(* client does, and has no row.                                            *)
(***************************************************************************)
EXTENDS ClientAccess

CONSTANTS Requests, Nonces,
          Offered,        \* the routes that requests are made to
          RefsOf,         \* the references whose source app a client may name
          GlobalLimit,    \* requests of one client per window,
          RouteLimit      \* and of one client in one bucket of routes

ASSUME RequestsAssumption ==
    /\ Offered \subseteq Routes
    /\ RefsOf \in [Clients -> SUBSET Refs]
    /\ GlobalLimit \in Nat /\ RouteLimit \in Nat
    /\ IsFiniteSet(Requests) /\ None \notin Requests \cup Nonces

VARIABLES
    api,      \* request -> what the handler has in hand
    used,     \* po_request_nonces: <<key, nonce>>, which nothing deletes
    hits      \* the in-memory windows: <<client, bucket>> -> hits in this tick

requestVars == <<api, used, hits>>

Methods == {route.method : route \in Offered}
Buckets == Methods \cup {"global"}

(* "limited" was refused by the limiter, "denied" by authentication or     *)
(* authorisation; "failed" ended with an error, or with the process.       *)
Ends == {"done", "denied", "limited", "failed"}
Pcs == {"idle", "nonce", "limit", "authorize", "act", "insert", "retire", "revoke"} \cup Ends

Blank == [pc |-> "idle", route |-> None, secret |-> None, subject |-> None, old |-> None,
          fresh |-> None, nonce |-> None, since |-> 0, window |-> Never]

RequestRow ==
    [pc: Pcs, route: Offered \cup {None}, secret: Secrets \cup {None},
     subject: Clients \cup Merchants \cup Refs \cup {None}, old: Secrets \cup {None},
     fresh: Secrets \cup Merchants \cup {None}, nonce: Nonces \cup {None},
     since: Times, window: Moments]

RequestsTypeOK ==
    /\ AccessTypeOK
    /\ api \in [Requests -> RequestRow]
    /\ used \in SUBSET (SigningKeys \X Nonces)
    /\ hits \in [Clients \X Buckets -> Nat]

NoHits == [b \in Clients \X Buckets |-> 0]

RequestsInit ==
    /\ AccessInit
    /\ api = [q \in Requests |-> Blank]
    /\ used = {}
    /\ hits = NoHits

(* The client a request speaks for: req.auth.                              *)
Caller(q) == secrets[api[q].secret].client

Goto(q, pc) == api' = [api EXCEPT ![q].pc = pc]

(* A request that ends without an answer of its handler: of what it had in *)
(* hand only what others saw of it is kept.                                *)
Stopped(q, pc) ==
    [Blank EXCEPT !.pc = pc, !.route = api[q].route, !.secret = api[q].secret,
                  !.nonce = api[q].nonce, !.window = api[q].window]

Stop(q, pc) == api' = [api EXCEPT ![q] = Stopped(q, pc)]

(***************************************************************************)
(* createAuthMiddleware and verifySignedRequest.                           *)
(***************************************************************************)

Admitted(q, s, pc) ==
    \E route \in Offered :
        api' = [api EXCEPT ![q] =
                  IF SecretUsable(s)
                  THEN [Blank EXCEPT !.pc = pc, !.route = route, !.secret = s, !.since = now]
                  ELSE [Blank EXCEPT !.pc = "denied"]]

(* A bearer credential: its status, its expiry and its client are read.    *)
PresentCredential(q) ==
    /\ api[q].pc = "idle"
    /\ \E s \in Credentials : secrets[s].status # "absent" /\ Admitted(q, s, "limit")
    /\ UNCHANGED <<accessVars, used, hits>>

(* A signature: its key's status and expiry, the timestamp and the digest. *)
(* (The client is read after the nonce; it does not change.)               *)
PresentSignature(q) ==
    /\ api[q].pc = "idle"
    /\ \E s \in SigningKeys : secrets[s].status # "absent" /\ Admitted(q, s, "nonce")
    /\ UNCHANGED <<accessVars, used, hits>>

(* Headers or a secret that are not there, a wrong digest, or a timestamp  *)
(* outside the skew.                                                       *)
Malformed(q) ==
    /\ api[q].pc = "idle"
    /\ Stop(q, "denied")
    /\ UNCHANGED <<accessVars, used, hits>>

(* The unique index on (signing_key_id, nonce) decides.  (A mutant does    *)
(* not look.)                                                              *)
MutantNonceIsFree(key, nonce) == nonce \in Nonces
NonceIsFree(key, nonce) == <<key, nonce>> \notin used

ConsumeNonce(q) ==
    /\ api[q].pc = "nonce"
    /\ \E nonce \in Nonces :
         LET key == api[q].secret
         IN  IF NonceIsFree(key, nonce)
             THEN /\ used' = used \cup {<<key, nonce>>}
                  /\ api' = [api EXCEPT ![q].pc = "limit", ![q].nonce = nonce]
             ELSE Stop(q, "denied") /\ UNCHANGED used
    /\ UNCHANGED <<accessVars, hits>>

(***************************************************************************)
(* createRateLimitMiddleware over InMemoryRateLimiterStore.                *)
(***************************************************************************)

(* The windows of the tick before are dropped.  (A mutant keeps them.)     *)
MutantKeepWindows == hits
FreshWindows == NoHits

(* The second bucket of a request, which the code keys by method and route *)
(* group.  resolveRouteGroup looks for paths that begin with /v1, which    *)
(* app.use has taken off req.path, so the group is always the default one  *)
(* and what is left of the key is the method.  (A mutant leaves that out.) *)
MutantOneBucket(route) == CHOOSE method \in Methods : route \in Offered
RouteBucket(route) == route.method

(* A hit counts, and is then allowed if the count is within the limit; a   *)
(* request over the global limit does not reach its route's.               *)
HitLimits(q) ==
    LET global == <<Caller(q), "global">>
        route == <<Caller(q), RouteBucket(api[q].route)>>
        counted == [hits EXCEPT ![global] = @ + 1]
        both == [counted EXCEPT ![route] = @ + 1]
        passed == [api EXCEPT ![q].window = now]
    IN  /\ api[q].pc = "limit"
        /\ IF counted[global] > GlobalLimit
           THEN hits' = counted /\ api' = [passed EXCEPT ![q].pc = "limited"]
           ELSE /\ hits' = both
                /\ api' = [passed EXCEPT ![q].pc =
                             IF both[route] > RouteLimit THEN "limited" ELSE "authorize"]
        /\ UNCHANGED <<accessVars, used>>

(***************************************************************************)
(* The checks of a handler, before it acts.                                *)
(***************************************************************************)

(* Whom or what the request names is within its reach: a merchant by a     *)
(* grant, a client's secrets if it is the client, a reference if it is of  *)
(* the client's own source app.                                            *)
InReach(c, route, subject) ==
    CASE route.subject = "merchant" -> GrantAllows(c, subject, route.any)
      [] route.subject = "client" -> subject = c \/ Privileged(c)
      [] OTHER -> TRUE

Subjects(c, route) ==
    CASE route.subject = "merchant" -> Merchants
      [] route.subject = "client" -> Clients
      [] OTHER -> RefsOf[c] \cup {None}

Authorize(q) ==
    LET c == Caller(q)
        route == api[q].route
    IN  /\ api[q].pc = "authorize"
        /\ \E subject \in Subjects(c, route) :
             IF ScopeAllowed(clients[c].scopes, route.any) /\ InReach(c, route, subject)
             THEN api' = [api EXCEPT ![q].pc = "act", ![q].subject = subject]
             ELSE Stop(q, "denied")
        /\ UNCHANGED <<accessVars, used, hits>>

(***************************************************************************)
(* What the handlers do.                                                   *)
(***************************************************************************)
At(q, acts) == api[q].pc = "act" /\ api[q].route.act \in acts

Kind(route) == IF route \in SigningKeyRoutes THEN SigningKeys ELSE Credentials

(* One use case runs, for the merchant or client that was checked.         *)
Perform(q) ==
    /\ At(q, {"read", "write"})
    /\ Goto(q, "done")
    /\ UNCHANGED <<accessVars, used, hits>>

(* The client must exist; then the new secret's row is inserted.           *)
InsertFresh(q) ==
    /\ At(q, {"create", "rotate"})
    /\ \E s \in Kind(api[q].route), expires \in Expiries :
         IF /\ clients[api[q].subject].status = "active"
            /\ api[q].route.future => expires > now
         THEN /\ InsertSecret(s, api[q].subject, expires)
              /\ api' = [api EXCEPT ![q].fresh = s,
                           ![q].pc = IF api[q].route.act = "rotate" THEN "retire" ELSE "done"]
         ELSE Stop(q, "failed") /\ UNCHANGED secrets
    /\ UNCHANGED <<now, commands, clients, merchants, grants, used, hits>>

(* The old secret is read.  One that is not there or not the client's is   *)
(* passed over in silence.  (A mutant does not compare the owner.)         *)
MutantMayRetire(s, c) == secrets[s].status = "active"
MayRetire(s, c) == secrets[s].status = "active" /\ secrets[s].client = c

Retire(q) ==
    /\ api[q].pc = "retire"
    /\ \/ Goto(q, "done")
       \/ \E s \in Kind(api[q].route) :
            IF MayRetire(s, api[q].subject)
            THEN api' = [api EXCEPT ![q].pc = "revoke", ![q].old = s]
            ELSE Goto(q, "done")
    /\ UNCHANGED <<accessVars, used, hits>>

(* The secret named by a revocation is read; one already revoked is left.  *)
FindForRevocation(q) ==
    /\ At(q, {"revoke"})
    /\ \E s \in Kind(api[q].route) :
         LET owned == secrets[s].status # "absent" /\ secrets[s].client = api[q].subject
         IN  IF owned /\ secrets[s].status # "revoked"
             THEN api' = [api EXCEPT ![q].pc = "revoke", ![q].old = s]
             ELSE IF owned THEN Goto(q, "done") ELSE Stop(q, "failed")
    /\ UNCHANGED <<accessVars, used, hits>>

(* The write has no condition: a secret revoked meanwhile is revoked again *)
(* with a later date.                                                      *)
RevokeFound(q) ==
    /\ api[q].pc = "revoke"
    /\ RevokeSecret(api[q].old)
    /\ Goto(q, "done")
    /\ UNCHANGED <<now, commands, clients, merchants, grants, used, hits>>

(* A reference that is taken is answered with its merchant, and nobody is  *)
(* given access.                                                           *)
FindMerchant(q) ==
    /\ At(q, {"create_merchant"})
    /\ Goto(q, IF RefTaken(api[q].subject) THEN "done" ELSE "insert")
    /\ UNCHANGED <<accessVars, used, hits>>

(* createMerchantWithGrantAtomic: the merchant and, unless the client is a *)
(* system client, its grant; the index on the reference undoes both.       *)
CreateMerchant(q) ==
    /\ api[q].pc = "insert"
    /\ \E m \in Merchants :
         IF IndexRefuses(api[q].subject)
         THEN Stop(q, "failed") /\ UNCHANGED <<merchants, grants>>
         ELSE /\ InsertMerchant(m, api[q].subject)
              /\ IF Privileged(Caller(q)) THEN UNCHANGED grants
                 ELSE InsertGrant(Caller(q), m, clients[Caller(q)].scopes)
              /\ api' = [api EXCEPT ![q].pc = "done", ![q].fresh = m]
    /\ UNCHANGED <<now, commands, clients, secrets, used, hits>>

(* A statement fails.                                                      *)
Fail(q) ==
    /\ api[q].pc \notin Ends \cup {"idle", "limit"}
    /\ Stop(q, "failed")
    /\ UNCHANGED <<accessVars, used, hits>>

(* The process stops: its requests end where they are, and its windows are *)
(* forgotten.                                                              *)
Restart ==
    /\ api' = [q \in Requests |->
                 IF api[q].pc \in Ends \cup {"idle"} THEN api[q]
                 ELSE Stopped(q, "failed")]
    /\ hits' = NoHits
    /\ UNCHANGED <<accessVars, used>>

NextTick ==
    /\ Tick
    /\ hits' = FreshWindows
    /\ UNCHANGED <<api, used>>

RequestsNext ==
    \/ NextTick
    \/ AdminNext /\ UNCHANGED requestVars
    \/ Restart
    \/ \E q \in Requests :
         \/ PresentCredential(q) \/ PresentSignature(q) \/ Malformed(q)
         \/ ConsumeNonce(q) \/ HitLimits(q)
         \/ Authorize(q) \/ Perform(q) \/ InsertFresh(q) \/ Retire(q)
         \/ FindForRevocation(q) \/ RevokeFound(q) \/ FindMerchant(q)
         \/ CreateMerchant(q) \/ Fail(q)

rvars == <<accessVars, requestVars>>

RequestsSpec == RequestsInit /\ [][RequestsNext]_rvars
-----------------------------------------------------------------------------
(***************************************************************************)
(* Properties.                                                             *)
(***************************************************************************)
Acting == {"act", "insert", "retire", "revoke", "done"}

(* A request that gets to act was entitled to when it came: its client and *)
(* its secret, on a merchant also its client's grant, were good then, with *)
(* a scope the route asks for, however many commands, rotations, restarts  *)
(* and other requests ran since.  What was revoked in an earlier tick      *)
(* cannot act again.                                                       *)
EffectsWereAllowed ==
    \A q \in Requests : api[q].pc \in Acting =>
      LET r == api[q]
          c == Caller(q)
          grant == grants[<<c, r.subject>>]
      IN  /\ secrets[r.secret].revokedAt >= r.since
          /\ secrets[r.secret].expires >= r.since
          /\ clients[c].status = "active"
          /\ ScopeAllowed(clients[c].scopes, r.route.any)
          /\ r.route.subject = "client" => r.subject = c \/ Privileged(c)
          /\ r.route.subject = "merchant" /\ ~Privileged(c) =>
               /\ grant.revokedAt >= r.since
               /\ ScopeAllowed(grant.scopes, r.route.any)

(* A signed request that is sent again, at once or after a restart, gets   *)
(* past its nonce once.                                                    *)
SignedOnce ==
    \A p, q \in Requests :
        p # q /\ api[p].secret = api[q].secret /\ api[p].nonce # None =>
           api[p].nonce # api[q].nonce

(* A client is refused for its rate only if, in the same window, more of   *)
(* its requests came than the global limit allows, or more with the method *)
(* of the refused one than the route limit does: no other window, client   *)
(* or method counts against it, also across restarts.  (The documents say  *)
(* route group where the code counts a method: see RouteBucket.)           *)
RefusalsAreEarned ==
    \A q \in Requests : api[q].pc = "limited" =>
      LET seen == {p \in Requests : /\ api[p].window = api[q].window
                                    /\ Caller(p) = Caller(q)}
          same == {p \in seen : api[p].route.method = api[q].route.method}
      IN  Cardinality(seen) > GlobalLimit \/ Cardinality(same) > RouteLimit

(* No two merchants share a reference, and a client that creates one holds *)
(* a grant on it, however its request and others like it interleave.       *)
MerchantsAreHeld ==
    /\ \A m, n \in Merchants : m # n /\ merchants[m].ref # None => merchants[m].ref # merchants[n].ref
    /\ \A q \in Requests :
         /\ api[q].route = CreateMerchantRoute /\ api[q].fresh # None
         /\ ~Privileged(Caller(q))
         => grants[<<Caller(q), api[q].fresh>>].status # "absent"

(* A request ends a secret only of its own client, or of any for a system  *)
(* client; and one that rotates, only when the replacement is stored and   *)
(* belongs to the same client: no failure between the statements takes the *)
(* old secret without a new one.  (That the new one is still good is not   *)
(* said: a credential rotation takes an expiresAt that has passed.)        *)
OnlyOwnersEnd ==
    [][\A s \in Secrets :
         secrets[s].status = "active" /\ secrets'[s].status = "revoked" =>
            \/ UNCHANGED api
            \/ \E q \in Requests :
                 /\ api[q].pc = "revoke" /\ api[q].old = s
                 /\ secrets[s].client = Caller(q) \/ Privileged(Caller(q))
                 /\ api[q].route.act = "rotate" =>
                      /\ secrets[api[q].fresh].status # "absent"
                      /\ secrets[api[q].fresh].client = secrets[s].client]_rvars
=============================================================================
