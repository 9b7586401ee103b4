---- MODULE MCOrderBook ----
(* Model-checking instances of OrderBook. *)
EXTENDS OrderBook
====
