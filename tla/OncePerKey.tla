----------------------------- MODULE OncePerKey -----------------------------
(***************************************************************************)
(* What an idempotency key promises: the calls made under one key have one *)
(* effect between them, and a call that is answered with a result is       *)
(* answered with that effect, for as long as the key is used.              *)
(***************************************************************************)
CONSTANTS Calls, Keys, Effects, None

VARIABLES key,     \* the key of each call, once it is made
          effect,  \* the effect of each key
          answer   \* what each call was answered with

vars == <<key, effect, answer>>

Init ==
    /\ key = [c \in Calls |-> None]
    /\ effect = [k \in Keys |-> None]
    /\ answer = [c \in Calls |-> None]

Ask(c, k) ==
    /\ key[c] = None
    /\ key' = [key EXCEPT ![c] = k]
    /\ UNCHANGED <<effect, answer>>

Perform(c, x) ==
    /\ key[c] \in Keys
    /\ effect[key[c]] = None
    /\ \A k \in Keys : effect[k] # x
    /\ effect' = [effect EXCEPT ![key[c]] = x]
    /\ UNCHANGED <<key, answer>>

Answer(c) ==
    /\ key[c] \in Keys
    /\ answer[c] = None
    /\ effect[key[c]] \in Effects
    /\ answer' = [answer EXCEPT ![c] = effect[key[c]]]
    /\ UNCHANGED <<key, effect>>

Next == \E c \in Calls :
    \/ \E k \in Keys : Ask(c, k)
    \/ \E x \in Effects : Perform(c, x)
    \/ Answer(c)

Spec == Init /\ [][Next]_vars
=============================================================================
