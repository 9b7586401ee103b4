---- MODULE MCTransaction ----
(* Model-checking instances of Transaction: the accounts, and the callers, *)
(* are interchangeable.                                                    *)
EXTENDS Transaction, TLC

Symmetric == Permutations(Accounts) \cup Permutations(Callers)
====
