----------------------------- MODULE PromiEvent -----------------------------
(***************************************************************************)
(* EXTERNAL.  The web3 PromiEvent that Transaction.send listens to, and    *)
(* the chain behind it, as src/src/Transaction.ts uses them (lines 350-389 *)
(* and the comments there about web3js beta36): one transaction is handed  *)
(* to web3; web3 reports a hash or a sending error; the chain mines it or  *)
(* not; web3 reports a receipt, a REVERT error, or gives up with an error  *)
(* (block timeout, failing receipt poll); it counts confirmations.  After  *)
(* an "error" web3 drops every listener of the emitter, which is what the  *)
(* workarounds at lines 366 and 370 are about.                             *)
(*                                                                         *)
(* This module is only the emitter's side.  Who listens, and what the      *)
(* listeners do, is module Transaction.                                    *)
(***************************************************************************)
EXTENDS Integers

CONSTANTS
    Receipts,          \* the receipts the chain may produce for the transaction
    RevertedReceipts,  \* those with status = false
    NoReceipt,         \* null / undefined
    MaxConfirmations,  \* web3 stops counting confirmations here
    MaxReorgs          \* bound on how often the chain moves the transaction

ASSUME ReceiptsAssumption ==
    /\ NoReceipt \notin Receipts
    /\ RevertedReceipts \subseteq Receipts
    /\ MaxConfirmations \in Nat \ {0}
    /\ MaxReorgs \in Nat

VARIABLES
    phase,             \* how far the transaction got
    chainReceipt,      \* the receipt the chain holds now
    reorgs,            \* how often it was replaced
    watching,          \* web3 still polls the chain for this transaction
    outcome,           \* what web3 reported: nothing yet, the receipt, an error
    nextConfirmation   \* number of the next "confirmation" event

promiVars == <<phase, chainReceipt, reorgs, watching, outcome, nextConfirmation>>

Phases == {"idle", "submitted", "pending", "mined", "refused"}

PromiTypeOK ==
    /\ phase \in Phases
    /\ chainReceipt \in Receipts \cup {NoReceipt}
    /\ reorgs \in 0 .. MaxReorgs
    /\ watching \in BOOLEAN
    /\ outcome \in {"none", "receipt", "error"}
    /\ nextConfirmation \in 0 .. (MaxConfirmations + 1)

PromiInit ==
    /\ phase = "idle"
    /\ chainReceipt = NoReceipt
    /\ reorgs = 0
    /\ watching = FALSE
    /\ outcome = "none"
    /\ nextConfirmation = 0

(* tx.send(..) or sendSignedTransaction(..) returned an emitter.  web3     *)
(* takes any number of them.                                               *)
Submit ==
    /\ phase' = "submitted"
    /\ watching' = TRUE
    /\ UNCHANGED <<chainReceipt, reorgs, outcome, nextConfirmation>>

(* The node accepted the transaction: "transactionHash" is emitted. *)
ReportHash ==
    /\ phase = "submitted"
    /\ phase' = "pending"
    /\ UNCHANGED <<chainReceipt, reorgs, watching, outcome, nextConfirmation>>

(* The node refused it: "error" without a hash. *)
ReportRefusal ==
    /\ phase = "submitted"
    /\ phase' = "refused"
    /\ watching' = FALSE
    /\ outcome' = "error"
    /\ UNCHANGED <<chainReceipt, reorgs, nextConfirmation>>

(* A block includes the transaction; web3 may have given up by then. *)
Mine ==
    /\ phase = "pending"
    /\ phase' = "mined"
    /\ chainReceipt' \in Receipts
    /\ UNCHANGED <<reorgs, watching, outcome, nextConfirmation>>

(* The chain reorganises and the transaction has another receipt. *)
Reorg ==
    /\ phase = "mined"
    /\ reorgs < MaxReorgs
    /\ chainReceipt' \in Receipts \ {chainReceipt}
    /\ reorgs' = reorgs + 1
    /\ UNCHANGED <<phase, watching, outcome, nextConfirmation>>

(* web3 polled a receipt with status = true: "receipt" is emitted. *)
ReportReceipt ==
    /\ phase = "mined" /\ watching /\ outcome = "none"
    /\ chainReceipt \notin RevertedReceipts
    /\ outcome' = "receipt"
    /\ UNCHANGED <<phase, chainReceipt, reorgs, watching, nextConfirmation>>

(* web3 polled a receipt with status = false: "error", polling goes on. *)
ReportRevert ==
    /\ phase = "mined" /\ watching /\ outcome = "none"
    /\ chainReceipt \in RevertedReceipts
    /\ outcome' = "error"
    /\ UNCHANGED <<phase, chainReceipt, reorgs, watching, nextConfirmation>>

(* web3 gives up (not mined in time, receipt poll fails): "error" and the  *)
(* end of polling, whether or not the transaction is or will be mined.     *)
ReportGivenUp ==
    /\ phase \in {"pending", "mined"} /\ watching
    /\ outcome # "error"
    /\ watching' = FALSE
    /\ outcome' = "error"
    /\ UNCHANGED <<phase, chainReceipt, reorgs, nextConfirmation>>

(* "confirmation" n, only emitted while somebody listens for it.  Number 0 *)
(* comes with the block that has the receipt, in either order with         *)
(* "receipt"; the others only after the outcome was reported; after the    *)
(* last one web3 stops polling.                                            *)
ReportConfirmation ==
    /\ phase = "mined" /\ watching
    /\ nextConfirmation <= MaxConfirmations
    /\ nextConfirmation > 0 => outcome # "none"
    /\ nextConfirmation' = nextConfirmation + 1
    /\ watching' = (nextConfirmation < MaxConfirmations)
    /\ UNCHANGED <<phase, chainReceipt, reorgs, outcome>>
=============================================================================
