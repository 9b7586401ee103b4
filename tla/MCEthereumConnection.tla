---- MODULE MCEthereumConnection ----
(* Model-checking instances of EthereumConnection.  The calls of connect   *)
(* and the sockets are numbered in the order they are made, so there is no *)
(* symmetry to use.                                                        *)
EXTENDS EthereumConnection
====
