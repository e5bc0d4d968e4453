--------------------------- MODULE MCApiRequests ---------------------------
(***************************************************************************)
(* A small instance of ApiRequests, from states that commands of nf-admin  *)
(* leave: one client with a credential, a signing key and a grant on the   *)
(* first merchant (Bundled), and, for the limiter, two clients (Hurried).  *)
(***************************************************************************)
EXTENDS ApiRequests, TLC

CONSTANTS app, internal, b1, b2, b3, k1, m1, m2, m3, q1, q2, q3

(* What has no row yet is interchangeable.                                 *)
Symmetry == Permutations({q1, q2}) \cup Permutations({b2, b3}) \cup Permutations({m2, m3})

SomeRoutes ==
    {UpsertMethodRoute, CreateMerchantRoute, RotateCredentialRoute, RevokeCredentialRoute}

All == {"*"}
MethodsOnly == {"payment_method:write"}
VoidsOnly == {"payment:void"}
SomeScopes == {All, MethodsOnly}

AtOnceOrNever == {0, Never}

OwnRefs == [c \in Clients |-> Refs]

Secret(c) == [status |-> "active", client |-> c, expires |-> Never, revokedAt |-> Never]

Grant(g, there, scopes) ==
    IF g \in there THEN [status |-> "active", scopes |-> scopes, revokedAt |-> Never]
    ELSE [status |-> "absent", scopes |-> {}, revokedAt |-> Never]

NoSecret == [Secret(None) EXCEPT !.status = "absent"]
Quiet == used = {} /\ hits = NoHits

(* Two requests among secrets, grants, merchants and an operator; a third  *)
(* was malformed.                                                          *)
Bundled ==
    /\ now = 0 /\ commands = 0
    /\ \E scopes \in SomeScopes, there \in {{app}, Clients} :
         /\ clients = [c \in Clients |-> IF c \in there THEN [status |-> "active", scopes |-> All]
                                         ELSE [status |-> "absent", scopes |-> {}]]
         /\ grants = [g \in Clients \X Merchants |-> Grant(g, {<<app, m1>>}, scopes)]
    /\ secrets = [s \in Secrets |-> IF s \in {b1, k1} THEN Secret(app) ELSE NoSecret]
    /\ merchants = [m \in Merchants |-> [status |-> IF m = m1 THEN "active" ELSE "absent",
                                         ref |-> None]]
    /\ api = [q \in Requests |-> IF q = q3 THEN [Blank EXCEPT !.pc = "denied"] ELSE Blank]
    /\ Quiet

(* Three requests of two clients that will be denied, as their scopes are  *)
(* for other routes, with the operator's commands spent: what decides      *)
(* before that is the limiter.                                             *)
Hurried ==
    /\ now = 0 /\ commands = MaxCommands
    /\ clients = [c \in Clients |-> [status |-> "active", scopes |-> VoidsOnly]]
    /\ grants = [g \in Clients \X Merchants |-> Grant(g, {<<app, m1>>}, VoidsOnly)]
    /\ secrets = [s \in Secrets |-> CASE s = b1 -> Secret(app)
                                      [] s = b2 -> Secret(internal)
                                      [] OTHER -> NoSecret]
    /\ merchants = [m \in Merchants |-> [status |-> "active", ref |-> None]]
    /\ api = [q \in Requests |-> Blank]
    /\ Quiet

MCSpec == (Bundled \/ Hurried) /\ [][RequestsNext]_rvars
=============================================================================
