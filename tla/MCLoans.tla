---- MODULE MCLoans ----
(* Model-checking instances of Loans. *)
EXTENDS Loans
====
