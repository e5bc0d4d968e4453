---------------------------- MODULE ClientAccess ----------------------------
(***************************************************************************)
(* Who may call: API clients, their secrets (bearer credentials and        *)
(* signing keys), merchants, and the grants of clients on merchants; the   *)
(* statements on those tables; and the operator's nf-admin commands.       *)
(*                                                                         *)
(* Time is counted in ticks.  No statement updates a client after it was   *)
(* created, and no row is ever deleted.                                    *)
(***************************************************************************)
EXTENDS Integers, FiniteSets, HttpRoutes

CONSTANTS Clients,
          SystemClients,  \* those whose sourceApp is 'internal'
          Credentials,    \* ids of bearer credentials
          SigningKeys,    \* ids of signing keys
          Merchants,
          Refs,           \* external references, each with the source app it is of
          ScopeSets,      \* what an operator may put on a client or a grant
          Expiries,       \* the expiries a secret may be given
          MaxNow,         \* bounds of the model: the last tick,
          MaxCommands,    \* and the operator's commands
          None

Secrets == Credentials \cup SigningKeys
Times == 0..MaxNow
Never == MaxNow + 1       \* no expiry, not revoked
Moments == 0..Never

ASSUME AccessAssumption ==
    /\ SystemClients \subseteq Clients
    /\ MaxNow \in Nat /\ MaxCommands \in Nat /\ Expiries \subseteq Moments
    /\ None \notin Clients /\ None \notin Credentials \cup SigningKeys /\ None \notin Refs

VARIABLES now, commands, clients, secrets, merchants, grants

accessVars == <<now, commands, clients, secrets, merchants, grants>>

ClientRow == [status: {"absent", "active"}, scopes: SUBSET UNION ScopeSets]
SecretRow == [status: {"absent", "active", "revoked"}, client: Clients \cup {None},
              expires: Moments, revokedAt: Moments]
MerchantRow == [status: {"absent", "active"}, ref: Refs \cup {None}]
GrantRow == [status: {"absent", "active", "revoked"}, scopes: SUBSET UNION ScopeSets,
             revokedAt: Moments]

AccessTypeOK ==
    /\ now \in Times
    /\ commands \in 0..MaxCommands
    /\ clients \in [Clients -> ClientRow]
    /\ secrets \in [Secrets -> SecretRow]
    /\ merchants \in [Merchants -> MerchantRow]
    /\ grants \in [Clients \X Merchants -> GrantRow]

AccessInit ==
    /\ now = 0
    /\ commands = 0
    /\ clients = [c \in Clients |-> [status |-> "absent", scopes |-> {}]]
    /\ secrets = [s \in Secrets |-> [status |-> "absent", client |-> None,
                                     expires |-> Never, revokedAt |-> Never]]
    /\ merchants = [m \in Merchants |-> [status |-> "absent", ref |-> None]]
    /\ grants = [g \in Clients \X Merchants |->
                   [status |-> "absent", scopes |-> {}, revokedAt |-> Never]]

Tick ==
    /\ now < MaxNow
    /\ now' = now + 1
    /\ UNCHANGED <<commands, clients, secrets, merchants, grants>>

(***************************************************************************)
(* Reads.                                                                  *)
(***************************************************************************)
Privileged(c) == c \in SystemClients

SecretExpired(s) == secrets[s].expires < now

(* The status, the expiry and the client of a secret, as both kinds of     *)
(* authentication read them.  (A mutant forgets the status.)               *)
MutantIgnoresRevocation(s) ==
    /\ secrets[s].status # "absent"
    /\ ~SecretExpired(s)
    /\ clients[secrets[s].client].status = "active"

SecretUsable(s) ==
    /\ secrets[s].status = "active"
    /\ ~SecretExpired(s)
    /\ clients[secrets[s].client].status = "active"

(* assertMerchantAccessWithScope, or with any scope of the list.  (A       *)
(* mutant finds a grant and forgets its status.)                           *)
MutantAnyGrant(c, m, any) ==
    \/ Privileged(c)
    \/ grants[<<c, m>>].status # "absent" /\ ScopeAllowed(grants[<<c, m>>].scopes, any)

GrantAllows(c, m, any) ==
    \/ Privileged(c)
    \/ grants[<<c, m>>].status = "active" /\ ScopeAllowed(grants[<<c, m>>].scopes, any)

RefTaken(ref) == ref # None /\ \E m \in Merchants : merchants[m].ref = ref

(***************************************************************************)
(* Statements.                                                             *)
(***************************************************************************)
InsertSecret(s, c, expires) ==
    /\ secrets[s].status = "absent"
    /\ secrets' = [secrets EXCEPT ![s] = [status |-> "active", client |-> c,
                                          expires |-> expires, revokedAt |-> Never]]

RevokeSecret(s) == secrets' = [secrets EXCEPT ![s].status = "revoked", ![s].revokedAt = now]

(* The index on (source_app, external_ref).  (A mutant has none.)          *)
MutantNoIndex(ref) == ref # None /\ ref \notin Refs
IndexRefuses(ref) == RefTaken(ref)

InsertMerchant(m, ref) ==
    /\ merchants[m].status = "absent"
    /\ ~IndexRefuses(ref)
    /\ merchants' = [merchants EXCEPT ![m] = [status |-> "active", ref |-> ref]]

(* The index on (client_id, merchant_id): a revoked row takes its place    *)
(* for good.                                                               *)
InsertGrant(c, m, scopes) ==
    /\ grants[<<c, m>>].status = "absent"
    /\ grants' = [grants EXCEPT ![<<c, m>>] = [status |-> "active", scopes |-> scopes,
                                               revokedAt |-> Never]]

(***************************************************************************)
(* nf-admin.  A command checks and then writes.  What it checks cannot be  *)
(* undone in between, an index refuses the write, or it writes once more   *)
(* what another has just written, so each is one step.                     *)
(***************************************************************************)
AdminCreateClient(c, scopes) ==
    /\ clients[c].status = "absent"
    /\ clients' = [clients EXCEPT ![c] = [status |-> "active", scopes |-> scopes]]
    /\ UNCHANGED <<secrets, merchants, grants>>

AdminCreateCredential(s, c, expires) ==
    /\ s \in Credentials
    /\ clients[c].status = "active"
    /\ expires > now
    /\ InsertSecret(s, c, expires)
    /\ UNCHANGED <<clients, merchants, grants>>

AdminCreateSigningKey(s, c, expires) ==
    /\ s \in SigningKeys
    /\ clients[c].status = "active"
    /\ expires > now
    /\ InsertSecret(s, c, expires)
    /\ UNCHANGED <<clients, merchants, grants>>

AdminRevokeCredential(s) ==
    /\ s \in Credentials
    /\ secrets[s].status = "active"
    /\ RevokeSecret(s)
    /\ UNCHANGED <<clients, merchants, grants>>

AdminRevokeSigningKey(s) ==
    /\ s \in SigningKeys
    /\ secrets[s].status = "active"
    /\ RevokeSecret(s)
    /\ UNCHANGED <<clients, merchants, grants>>

AdminCreateMerchant(m, ref) ==
    /\ InsertMerchant(m, ref)
    /\ UNCHANGED <<clients, secrets, grants>>

AdminGrant(c, m, scopes) ==
    /\ clients[c].status = "active"
    /\ merchants[m].status = "active"
    /\ InsertGrant(c, m, scopes)
    /\ UNCHANGED <<clients, secrets, merchants>>

AdminRevokeGrant(c, m) ==
    /\ grants[<<c, m>>].status = "active"
    /\ grants' = [grants EXCEPT ![<<c, m>>].status = "revoked",
                                ![<<c, m>>].revokedAt = now]
    /\ UNCHANGED <<clients, secrets, merchants>>

(* bootstrap-bundle is these four in a row, and stops where one fails.     *)
Bootstrap ==
    \/ \E c \in Clients, scopes \in ScopeSets : AdminCreateClient(c, scopes)
    \/ \E s \in Credentials, c \in Clients : AdminCreateCredential(s, c, Never)
    \/ \E m \in Merchants, ref \in Refs \cup {None} : AdminCreateMerchant(m, ref)
    \/ \E c \in Clients, m \in Merchants, scopes \in ScopeSets : AdminGrant(c, m, scopes)

AdminNext ==
    /\ commands < MaxCommands
    /\ commands' = commands + 1
    /\ UNCHANGED now
    /\ \/ Bootstrap
       \/ \E s \in Secrets, c \in Clients, expires \in Expiries :
            AdminCreateCredential(s, c, expires) \/ AdminCreateSigningKey(s, c, expires)
       \/ \E s \in Secrets : AdminRevokeCredential(s) \/ AdminRevokeSigningKey(s)
       \/ \E c \in Clients, m \in Merchants : AdminRevokeGrant(c, m)
=============================================================================
