-------------------------- MODULE MCPaymentSystem --------------------------
(***************************************************************************)
(* Small instances of PaymentSystem.  Calls of one kind are                *)
(* interchangeable, and so are intents, keys and events.                   *)
(***************************************************************************)
EXTENDS PaymentSystem, TLC

Symmetry ==
    Permutations(Payments) \cup Permutations(Refunds) \cup Permutations(Intents)
      \cup Permutations(Keys) \cup Permutations(Confirms) \cup Permutations(Hooks)
      \cup Permutations(Events) \cup Permutations(Voids) \cup Permutations(Sweeps)

OneUnit == {1}
OneOrTwo == {1, 2}
JustTwo == {2}
=============================================================================
