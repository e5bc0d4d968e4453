-------------------------- MODULE MCMethodCatalog --------------------------
(***************************************************************************)
(* A small instance of MethodCatalog: an account whose adapter declares    *)
(* every method.                                                           *)
(***************************************************************************)
EXTENDS MethodCatalog

BothDeclared == [a \in Accounts |-> PayMethods]
=============================================================================
