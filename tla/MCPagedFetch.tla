---- MODULE MCPagedFetch ----
(* Model-checking instances of PagedFetch. *)
EXTENDS PagedFetch
====
