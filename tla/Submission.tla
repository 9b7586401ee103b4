------------------------------ MODULE Submission ------------------------------
(***************************************************************************)
(* What an application may rely on when it hands one transaction to        *)
(* src/src/Transaction.ts, without signatures, listeners or handlers: some *)
(* facts about the transaction, each learnt once and never taken back, and *)
(* the answers to the promises, each given once and true when given.       *)
(***************************************************************************)
EXTENDS Naturals

CONSTANTS
    Receipts, NoReceipt,
    Askers              \* the promises of a receipt, confirmed or not

VARIABLES
    sent,               \* how often web3 was given the transaction
    error,              \* an error was reported
    hash,               \* the transaction has a hash
    receipt,            \* its receipt, or NoReceipt
    reverted,           \* how often "txRevert" was emitted
    hashAnswer,         \* of the promise of the hash
    answers             \* of the promises of a receipt

facts == <<sent, error, hash, receipt, reverted>>
vars == <<facts, hashAnswer, answers>>

Open == [st |-> "open", val |-> NoReceipt]

Init ==
    /\ sent = 0 /\ error = FALSE /\ hash = FALSE /\ receipt = NoReceipt /\ reverted = 0
    /\ hashAnswer = "open"
    /\ answers = [a \in Askers |-> Open]

-----------------------------------------------------------------------------
(* The facts *)

Send ==
    /\ sent = 0 /\ sent' = 1
    /\ UNCHANGED <<error, hash, receipt, reverted>>

Accept ==
    /\ sent = 1 /\ ~hash /\ ~error
    /\ hash' = TRUE
    /\ UNCHANGED <<sent, error, receipt, reverted>>

(* Not sent, refused, reverted, or web3 gave up.  Without a hash that is   *)
(* the end of it; with one, the receipt may have to be looked up first.    *)
Fail ==
    /\ ~error /\ error' = TRUE
    /\ reverted' = reverted \/ (hash /\ receipt # NoReceipt /\ reverted' = 1)
    /\ UNCHANGED <<sent, hash, receipt>>

Include ==
    /\ hash /\ ~error /\ receipt = NoReceipt
    /\ receipt' \in Receipts
    /\ UNCHANGED <<sent, error, hash, reverted>>

(* "txRevert" after the look-up, which may have found a receipt. *)
Revert ==
    /\ hash /\ error /\ reverted = 0
    /\ reverted' = 1
    /\ receipt' = receipt \/ (receipt = NoReceipt /\ receipt' \in Receipts)
    /\ UNCHANGED <<sent, error, hash>>

-----------------------------------------------------------------------------
(* The answers, in the same step as a fact or later *)

AnswerHash ==
    \/ UNCHANGED hashAnswer
    \/ hashAnswer = "open" /\ hash' /\ hashAnswer' = "resolved"
    \/ hashAnswer = "open" /\ error' /\ ~hash' /\ hashAnswer' = "rejected"

Answer(a) ==
    \/ answers'[a] = answers[a]
    \/ answers[a] = Open /\ answers'[a] = [st |-> "resolved", val |-> receipt']
    \/ /\ answers[a] = Open /\ error' /\ receipt' = NoReceipt
       /\ answers'[a] = [st |-> "rejected", val |-> NoReceipt]

Next ==
    /\ Send \/ Accept \/ Fail \/ Include \/ Revert \/ UNCHANGED facts
    /\ AnswerHash
    /\ \A a \in Askers : Answer(a)

Spec == Init /\ [][Next]_vars
===============================================================================
