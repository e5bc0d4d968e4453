--------------------------- MODULE PaymentAccount ---------------------------
(***************************************************************************)
(* What the payment tables promise, whoever writes them: an intent is an   *)
(* account that is opened with an amount due, credited by payments up to   *)
(* that amount and debited by refunds up to what was paid.  Every payment  *)
(* and every refund counts at most once, on one account.                   *)
(***************************************************************************)
EXTENDS Integers

CONSTANTS Intents, Payments, Refunds, Dues, Amounts

VARIABLES due,      \* what each account is to be paid; 0 before it is opened
          paid, refunded,
          settled   \* the payments and refunds that were counted

accountVars == <<due, paid, refunded, settled>>

Init ==
    /\ due = [i \in Intents |-> 0]
    /\ paid = [i \in Intents |-> 0]
    /\ refunded = [i \in Intents |-> 0]
    /\ settled = {}

Open(i, d) ==
    /\ due[i] = 0
    /\ due' = [due EXCEPT ![i] = d]
    /\ UNCHANGED <<paid, refunded, settled>>

Pay(i, p, a) ==
    /\ p \notin settled
    /\ paid[i] + a <= due[i]
    /\ paid' = [paid EXCEPT ![i] = @ + a]
    /\ settled' = settled \cup {p}
    /\ UNCHANGED <<due, refunded>>

Refund(i, r, a) ==
    /\ r \notin settled
    /\ refunded[i] + a <= paid[i]
    /\ refunded' = [refunded EXCEPT ![i] = @ + a]
    /\ settled' = settled \cup {r}
    /\ UNCHANGED <<due, paid>>

Next ==
    \E i \in Intents :
        \/ \E d \in Dues : Open(i, d)
        \/ \E p \in Payments, a \in Amounts : Pay(i, p, a)
        \/ \E r \in Refunds, a \in Amounts : Refund(i, r, a)

Spec == Init /\ [][Next]_accountVars
=============================================================================
