--------------------------- MODULE MethodCatalog ---------------------------
(***************************************************************************)
(* The payment methods of provider accounts: the rows that PUT methods,    *)
(* nf-admin enable- and disable-payment-method and the synchronisation     *)
(* with the provider's adapter write, and the check they are for, which    *)
(* every gateway payment makes.                                            *)
(*                                                                         *)
(* The terms of a method are the currency and the amounts it takes.        *)
(***************************************************************************)
EXTENDS Naturals

CONSTANTS Accounts,       \* provider accounts
          PayMethods,     \* names of methods
          Terms,
          DeclaredBy,     \* account -> methods its adapter declares
          AdapterTerms,   \* the Terms an adapter declares
          DefaultTerms,   \* of Terms: IDR, any amount
          Editors, Syncs, \* calls that run concurrently
          None

VARIABLES
    opened,   \* accounts CreateProviderAccount has inserted
    methods,  \* <<account, method>> -> its row
    edit,     \* editor -> what its call asked for and will write
    sync      \* sync -> the account, the rows it read and the methods left

catalogVars == <<opened, methods, edit, sync>>

Statuses == {"active", "disabled", "unsupported"}
MethodRow == [status: Statuses \cup {"absent"}, terms: Terms]

NoEdit == [on |-> None, asked |-> None, row |-> None]
NoSync == [account |-> None, seen |-> {}, left |-> {}]

CatalogTypeOK ==
    /\ opened \subseteq Accounts
    /\ methods \in [Accounts \X PayMethods -> MethodRow]
    /\ edit \in [Editors -> [on: (Accounts \X PayMethods) \cup {None},
                             asked: Statuses \cup {None}, row: MethodRow \cup {None}]]
    /\ sync \in [Syncs -> [account: Accounts \cup {None}, seen: SUBSET PayMethods,
                           left: SUBSET PayMethods]]

CatalogInit ==
    /\ opened = {}
    /\ methods = [k \in Accounts \X PayMethods |-> [status |-> "absent", terms |-> DefaultTerms]]
    /\ edit = [e \in Editors |-> NoEdit]
    /\ sync = [s \in Syncs |-> NoSync]

OpenAccount(a) ==
    /\ a \notin opened
    /\ opened' = opened \cup {a}
    /\ UNCHANGED <<methods, edit, sync>>

(* upsert: on conflict, every column but the status.                       *)
Upsert(k, status, terms) ==
    methods' = [methods EXCEPT ![k] =
        [status |-> IF @.status = "absent" THEN status ELSE @.status, terms |-> terms]]

(***************************************************************************)
(* UpsertProviderAccountMethod: what is not given is taken from the row    *)
(* as it is read, or by default.                                           *)
(***************************************************************************)
LoadEdit(e, asked, given) ==
    /\ edit[e].on = None
    /\ \E a \in opened, m \in PayMethods :
         LET found == methods[<<a, m>>]
             status == IF asked # None THEN asked
                       ELSE IF found.status # "absent" THEN found.status ELSE "active"
             terms == IF given # None THEN given ELSE found.terms
         IN  edit' = [edit EXCEPT ![e] = [on |-> <<a, m>>, asked |-> asked,
                                          row |-> [status |-> status, terms |-> terms]]]
    /\ UNCHANGED <<opened, methods, sync>>

PutMethod(e) ==
    \E asked \in Statuses \cup {None}, given \in Terms \cup {None} : LoadEdit(e, asked, given)

EnableMethod(e) == \E given \in Terms \cup {None} : LoadEdit(e, "active", given)

DisableMethod(e) == LoadEdit(e, "disabled", None)

WriteEdit(e) ==
    /\ edit[e].on # None
    /\ Upsert(edit[e].on, edit[e].row.status, edit[e].row.terms)
    /\ edit' = [edit EXCEPT ![e] = NoEdit]
    /\ UNCHANGED <<opened, sync>>

AbandonEdit(e) ==
    /\ edit' = [edit EXCEPT ![e] = NoEdit]
    /\ UNCHANGED <<opened, methods, sync>>

(***************************************************************************)
(* SyncProviderAccountMethods: the rows are read once, then each declared  *)
(* method is written; seen are those that were disabled.  No adapter       *)
(* implements the live hook, and one that declares nothing changes nothing.*)
(***************************************************************************)
LoadSync(s) ==
    /\ sync[s].account = None
    /\ \E a \in opened :
         /\ DeclaredBy[a] # {}
         /\ sync' = [sync EXCEPT ![s] =
              [account |-> a, left |-> DeclaredBy[a],
               seen |-> {m \in PayMethods : methods[<<a, m>>].status = "disabled"}]]
    /\ UNCHANGED <<opened, methods, edit>>

SyncOne(s) ==
    /\ \E m \in sync[s].left :
         /\ Upsert(<<sync[s].account, m>>, IF m \in sync[s].seen THEN "disabled" ELSE "active",
                   AdapterTerms)
         /\ sync' = [sync EXCEPT ![s] = IF @.left = {m} THEN NoSync ELSE [@ EXCEPT !.left = @ \ {m}]]
    /\ UNCHANGED <<opened, edit>>

AbandonSync(s) ==
    /\ sync' = [sync EXCEPT ![s] = NoSync]
    /\ UNCHANGED <<opened, methods, edit>>

(* The method check of CreateGatewayPayment, and the filter of             *)
(* GetPaymentMethodOptions and of the merchant's list: only active rows    *)
(* are taken, and offered.                                                 *)
Payable(row) == row.status = "active"

CatalogNext ==
    \/ \E a \in Accounts : OpenAccount(a)
    \/ \E e \in Editors :
         PutMethod(e) \/ EnableMethod(e) \/ DisableMethod(e) \/ WriteEdit(e) \/ AbandonEdit(e)
    \/ \E s \in Syncs : LoadSync(s) \/ SyncOne(s) \/ AbandonSync(s)

CatalogSpec == CatalogInit /\ [][CatalogNext]_catalogVars
-----------------------------------------------------------------------------
(* disable-payment-method: "Disable a payment method on a provider         *)
(* account"; the upsert does not override the status "unless explicitly    *)
(* set".  So once a call that asked for disabled has written, the method   *)
(* takes no payment.                                                       *)
DisableTakesEffect ==
    [][\A e \in Editors, k \in Accounts \X PayMethods :
         edit[e].on = k /\ edit[e].asked = "disabled" /\ WriteEdit(e) =>
            ~Payable(methods'[k])]_catalogVars
=============================================================================
