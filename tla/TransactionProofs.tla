-------------------------- MODULE TransactionProofs --------------------------
(***************************************************************************)
(* Proofs about module Transaction, for any number of accounts, callers,   *)
(* signatures, confirmations and reorganisations, and whatever the node    *)
(* answers to the error handler.                                           *)
(***************************************************************************)
EXTENDS Transaction, TLAPS

USE DEF promiVars, signVars, sendVars, fieldVars, promiseVars, listenerVars,
        eventVars

-----------------------------------------------------------------------------
(* Type correctness *)

(* One step keeps the types, whatever action it is (all of Transaction.ts). *)
LEMMA TypeStep == TypeOK /\ [Next]_vars => TypeOK'
<1> SUFFICES ASSUME TypeOK, [Next]_vars PROVE TypeOK'
  OBVIOUS
<1> USE ReceiptsAssumption, TransactionAssumption
<1>1. ASSUME NEW f \in Senders, Sign(f) PROVE TypeOK'
  BY <1>1 DEF TypeOK, PromiTypeOK, ReceiptPromises, Sign, MergedFrom, AlreadySent, Senders
<1>2. ASSUME NEW f \in Senders, SendSigned(f) PROVE TypeOK'
  BY <1>2 DEF TypeOK, PromiTypeOK, ReceiptPromises, SendSigned, MergedFrom, AlreadySent, Senders
<1>3. ASSUME NEW f \in Senders, SendUnsigned(f) PROVE TypeOK'
  <2>1. from' \in Accounts \cup {NoFrom} /\ isTxSent' = TRUE
    BY <1>3 DEF TypeOK, SendUnsigned, MergedFrom, Senders
  <2>2. CASE HandToWeb3(0) /\ UNCHANGED sendError
    BY <1>3, <2>1, <2>2 DEF TypeOK, PromiTypeOK, Phases, SendUnsigned, HandToWeb3, Submit
  <2>3. CASE /\ sending' \in {"stopped", "failed"} /\ sendError' \in BOOLEAN
             /\ UNCHANGED <<promiVars, sentTx, submissions, confListeners>>
    <3>1. UNCHANGED <<signVars, awaitingSends, txHash, txReceipt, confirmationCount,
                      promiseVars, errorHandler, eventVars>>
      BY <1>3 DEF SendUnsigned
    <3> QED
      BY <2>1, <2>3, <3>1 DEF TypeOK, PromiTypeOK
  <2> QED
    <3>1. sendError \in BOOLEAN
      BY DEF TypeOK
    <3> QED
      BY <1>3, <2>2, <2>3, <3>1 DEF SendUnsigned
<1>4. ASSUME NEW i \in 1 .. nSigns, SignatureDone(i) PROVE TypeOK'
  <2>1. i \in 1 .. MaxSigns
    BY DEF TypeOK
  <2>2. signs[i].from \in Accounts \cup {NoFrom}
    BY <2>1 DEF TypeOK
  <2>3. signs' \in [1 .. MaxSigns -> [st : {"none", "pending", "signed", "failed"},
                                      from : Accounts \cup {NoFrom}]]
    BY <1>4, <2>1, <2>2 DEF TypeOK, SignatureDone
  <2> QED
    BY <1>4, <2>1, <2>3 DEF TypeOK, PromiTypeOK, SignatureDone
<1>5. ASSUME NEW i \in 1 .. nSigns, SignatureFails(i) PROVE TypeOK'
  <2>1. i \in 1 .. MaxSigns
    BY DEF TypeOK
  <2>2. signs[i].from \in Accounts \cup {NoFrom}
    BY <2>1 DEF TypeOK
  <2>3. signs' \in [1 .. MaxSigns -> [st : {"none", "pending", "signed", "failed"},
                                      from : Accounts \cup {NoFrom}]]
    BY <1>5, <2>1, <2>2 DEF TypeOK, SignatureFails
  <2> QED
    BY <1>5, <2>1, <2>3 DEF TypeOK, PromiTypeOK, SignatureFails
<1>6. CASE SignatureReady
  <2>1. awaitingSends' \in Nat
    BY <1>6 DEF TypeOK, SignatureReady
  <2>2. CASE HandToWeb3(nSigns)
    BY <1>6, <2>1, <2>2 DEF TypeOK, PromiTypeOK, Phases, SignatureReady, HandToWeb3, Submit
  <2>3. CASE sending' = "stopped" /\ UNCHANGED <<promiVars, sentTx, submissions, confListeners>>
    BY <1>6, <2>1, <2>3 DEF TypeOK, PromiTypeOK, SignatureReady
  <2> QED
    BY <1>6, <2>2, <2>3 DEF SignatureReady, SignatureToSend
<1>7. CASE GetTxHash
  BY <1>7 DEF TypeOK, PromiTypeOK, ReceiptPromises, GetTxHash, HashNow
<1>8. CASE GetTxReceipt
  BY <1>8 DEF TypeOK, PromiTypeOK, ReceiptPromises, GetTxReceipt, Resolved, Rejected, Pending
<1>9. ASSUME NEW c \in Callers, NEW n \in Targets, GetConfirmedReceipt(c, n) PROVE TypeOK'
  BY <1>9 DEF TypeOK, PromiTypeOK, ReceiptPromises, GetConfirmedReceipt, AskConfirmed
<1>10. ASSUME NEW c \in Callers, NEW n \in Targets, OnceConfirmedReceipt(c, n) PROVE TypeOK'
  BY <1>10 DEF TypeOK, PromiTypeOK, ReceiptPromises, OnceConfirmedReceipt
<1>11. CASE OnTransactionHash
  BY <1>11 DEF TypeOK, PromiTypeOK, ReceiptPromises, Phases, OnTransactionHash, ReportHash,
               AskConfirmed
<1>12. CASE OnReceipt
  BY <1>12 DEF TypeOK, PromiTypeOK, ReceiptPromises, OnReceipt, ReportReceipt, SetReceipt,
               OnReceiptEvent, Resolved
<1>13. CASE OnError
  <2>1. PromiTypeOK'
    BY <1>13 DEF TypeOK, PromiTypeOK, Phases, OnError, ReportRefusal, ReportRevert, ReportGivenUp
  <2>2. /\ revertEvents' \in Nat
        /\ errorHandler' \in {"none", "lookup", "done", "crashed"}
        /\ txHashPromise' \in {"none", "pending", "resolved", "rejected"}
        /\ txReceiptPromise' \in ReceiptPromises
    BY <1>13 DEF TypeOK, ReceiptPromises, OnError, AwaitReceipt, HashOnError, ReceiptOnError,
                 Resolved, Rejected
  <2> QED
    BY <1>13, <2>1, <2>2 DEF TypeOK, OnError, ListenersAfterError
<1>14. CASE OnConfirmation
  <2>1. /\ PromiTypeOK'
        /\ nextConfirmation \in 0 .. MaxConfirmations
        /\ confirmationCount' \in -1 .. MaxConfirmations
    BY <1>14 DEF TypeOK, PromiTypeOK, OnConfirmation, ReportConfirmation, Counted
  <2>2. confEvents' \in [0 .. MaxConfirmations -> Nat]
    BY <1>14, <2>1 DEF TypeOK, OnConfirmation
  <2>3. callers' \in [Callers -> [st : {"none", "armed", "waiting", "resolved", "rejected"},
                                  n : Targets \cup {0},
                                  val : Receipts \cup {NoReceipt}]]
    BY <1>14 DEF TypeOK, OnConfirmation, ServedBy
  <2> QED
    BY <1>14, <2>1, <2>2, <2>3 DEF TypeOK, OnConfirmation
<1>15. CASE LookupReturns
  BY <1>15 DEF TypeOK, PromiTypeOK, ReceiptPromises, LookupReturns, SetReceipt, ReceiptOnError,
               HashOnError, ListenAgain, Resolved, Rejected
<1>16. CASE LookupFails
  BY <1>16 DEF TypeOK, PromiTypeOK, ReceiptPromises, LookupFails
<1>17. CASE Chain
  BY <1>17 DEF TypeOK, PromiTypeOK, ReceiptPromises, Phases, Chain, Mine, Reorg
<1>18. CASE UNCHANGED vars
  BY <1>18 DEF TypeOK, PromiTypeOK, vars
<1> QED
  BY <1>1, <1>2, <1>3, <1>4, <1>5, <1>6, <1>7, <1>8, <1>9, <1>10, <1>11, <1>12, <1>13,
     <1>14, <1>15, <1>16, <1>17, <1>18, Zenon DEF Next

(* The fields of a Transaction keep their types (Transaction.ts lines 99-121). *)
THEOREM TypeCorrect == Spec => []TypeOK
<1> USE ReceiptsAssumption, TransactionAssumption
<1>1. Init => TypeOK
  <2> SUFFICES ASSUME Init PROVE TypeOK
    OBVIOUS
  <2>1. PromiTypeOK
    <3>1. PromiInit
      BY DEF Init
    <3>2. 0 \in 0 .. MaxReorgs /\ 0 \in 0 .. (MaxConfirmations + 1)
      BY ReceiptsAssumption
    <3> QED
      BY <3>1, <3>2 DEF PromiInit, PromiTypeOK, Phases
  <2>2. txReceiptPromise \in ReceiptPromises
    BY DEF Init, ReceiptPromises, Unasked
  <2>3. confEvents \in [0 .. MaxConfirmations -> Nat]
    BY DEF Init
  <2>4. -1 \in -1 .. MaxConfirmations /\ 0 \in 0 .. MaxSigns
    OBVIOUS
  <2>5. signs \in [1 .. MaxSigns -> [st : {"none", "pending", "signed", "failed"},
                                     from : Accounts \cup {NoFrom}]]
    BY DEF Init
  <2>6. callers \in [Callers -> [st : {"none", "armed", "waiting", "resolved", "rejected"},
                                 n : Targets \cup {0},
                                 val : Receipts \cup {NoReceipt}]]
    BY DEF Init
  <2>7. /\ nSigns \in 0 .. MaxSigns /\ signedTx \in 0 .. MaxSigns
        /\ sentTx \in 0 .. MaxSigns /\ confirmationCount \in -1 .. MaxConfirmations
    BY <2>4 DEF Init
  <2>8. /\ isTxSent \in BOOLEAN /\ from \in Accounts \cup {NoFrom}
        /\ sending \in {"no", "awaitSignature", "sent", "stopped", "failed"}
        /\ awaitingSends \in Nat /\ txHash \in BOOLEAN
        /\ txReceipt \in Receipts \cup {NoReceipt} /\ sendError \in BOOLEAN
        /\ txHashPromise \in {"none", "pending", "resolved", "rejected"}
        /\ confListeners \in Nat /\ errorHandler \in {"none", "lookup", "done", "crashed"}
        /\ submissions \in Nat /\ receiptEvents \in Nat /\ revertEvents \in Nat
    BY DEF Init
  <2> QED
    BY <2>1, <2>2, <2>3, <2>5, <2>6, <2>7, <2>8 DEF TypeOK
<1> QED
  BY <1>1, TypeStep, PTL DEF Spec

-----------------------------------------------------------------------------
(* The inductive invariant.  It says what the fields of the object have in *)
(* common with the web3 emitter, which no single action shows:             *)

(* send passes its guard once, and until web3 has the transaction there is *)
(* at most one continuation that can hand it over.                         *)
SendInv ==
    /\ ~isTxSent => awaitingSends = 0 /\ submissions = 0 /\ ~sendError
    /\ awaitingSends + submissions <= 1
    /\ submissions = 0 => phase = "idle" /\ sentTx = 0
    /\ submissions # 0 => phase # "idle" /\ sending = "sent"
    /\ awaitingSends > 0 => ~sendError

(* The hash is known exactly while the chain may have the transaction, and *)
(* an error without a hash is the end of it.                               *)
HashInv ==
    /\ txHash <=> phase \in {"pending", "mined"}
    /\ sendError => phase # "submitted"
    /\ txHashPromise = "rejected" => sendError

(* web3 reports an error once; the handler ran then, and only then.        *)
ErrorInv ==
    /\ phase \in {"idle", "submitted"} => outcome = "none" /\ errorHandler = "none"
    /\ errorHandler # "none" => outcome = "error" /\ sendError
    /\ revertEvents > 0 => errorHandler = "done"
    /\ outcome = "error" => errorHandler # "none"

(* At most one "confirmation" listener, none while the handler waits, and  *)
(* the object has counted what web3 has emitted.                           *)
ListenerInv ==
    /\ confListeners \in {0, 1}
    /\ errorHandler = "lookup" => confListeners = 0
    /\ nextConfirmation = confirmationCount + 1

(* The promise of getTxHash agrees with the object's own hash: resolved    *)
(* only with one, rejected only if the transaction never got one, whenever *)
(* it was asked for (lines 228-259).                                       *)
HashPromiseSound ==
    /\ txHashPromise = "resolved" => txHash
    /\ txHashPromise = "rejected" => ~txHash /\ phase # "pending" /\ phase # "mined"

Inv == SendInv /\ SentAsSigned /\ HashInv /\ HashPromiseSound /\ ErrorInv /\ OneReceipt
       /\ ListenerInv /\ ConfirmationsOnce /\ ConfirmedAreServed

(* A fresh Transaction satisfies all parts (lines 99-143). *)
LEMMA InvInit == Init => Inv
BY ReceiptsAssumption, TransactionAssumption
   DEF Init, PromiInit, Inv, SendInv, SentAsSigned, HashInv, HashPromiseSound, ErrorInv, OneReceipt, Unasked,
       ListenerInv, ConfirmationsOnce, ConfirmedAreServed

(* One step keeps the invariant: send, the getters, and every listener of  *)
(* addTxListeners (Transaction.ts lines 155-396).                          *)
LEMMA InvStep == TypeOK /\ Inv /\ [Next]_vars => Inv'
<1> SUFFICES ASSUME TypeOK, Inv, [Next]_vars PROVE Inv'
  OBVIOUS
<1> USE ReceiptsAssumption, TransactionAssumption DEF Inv
<1>0. /\ confirmationCount \in Int
      /\ \A c \in Callers : callers[c].n \in Nat
  <2>1. confirmationCount \in Int
    <3>1. confirmationCount \in -1 .. MaxConfirmations
      BY DEF TypeOK
    <3> QED
      BY <3>1
  <2>2. Targets \cup {0} \subseteq Nat
    BY DEF TransactionAssumption
  <2>3. ASSUME NEW c \in Callers PROVE callers[c].n \in Nat
    <3>1. callers[c].n \in Targets \cup {0}
      BY DEF TypeOK
    <3> QED
      BY <2>2, <3>1
  <2> QED
    BY <2>1, <2>3
<1>1. ASSUME NEW f \in Senders, Sign(f) PROVE Inv'
  BY <1>1 DEF TypeOK, PromiTypeOK, SendInv, SentAsSigned, HashInv, HashPromiseSound,
         ErrorInv, OneReceipt, ListenerInv, ConfirmationsOnce, ConfirmedAreServed, Sign,
         MergedFrom, AlreadySent, Senders
<1>2. ASSUME NEW f \in Senders, SendSigned(f) PROVE Inv'
  BY <1>2 DEF TypeOK, PromiTypeOK, SendInv, SentAsSigned, HashInv, HashPromiseSound,
         ErrorInv, OneReceipt, ListenerInv, ConfirmationsOnce, ConfirmedAreServed,
         SendSigned, MergedFrom, AlreadySent, Senders
<1>3. ASSUME NEW f \in Senders, SendUnsigned(f) PROVE Inv'
  BY <1>3 DEF TypeOK, PromiTypeOK, SendInv, SentAsSigned, HashInv, HashPromiseSound,
         ErrorInv, OneReceipt, ListenerInv, ConfirmationsOnce, ConfirmedAreServed,
         SendUnsigned, MergedFrom, AlreadySent, Senders, HandToWeb3, Submit
<1>4. ASSUME NEW i \in 1 .. nSigns, SignatureDone(i) PROVE Inv'
  BY <1>4 DEF TypeOK, PromiTypeOK, SendInv, SentAsSigned, HashInv, HashPromiseSound,
         ErrorInv, OneReceipt, ListenerInv, ConfirmationsOnce, ConfirmedAreServed,
         SignatureDone
<1>5. ASSUME NEW i \in 1 .. nSigns, SignatureFails(i) PROVE Inv'
  BY <1>5 DEF TypeOK, PromiTypeOK, SendInv, SentAsSigned, HashInv, HashPromiseSound,
         ErrorInv, OneReceipt, ListenerInv, ConfirmationsOnce, ConfirmedAreServed,
         SignatureFails
<1>6. CASE SignatureReady
  BY <1>6 DEF TypeOK, PromiTypeOK, SendInv, SentAsSigned, HashInv, HashPromiseSound,
         ErrorInv, OneReceipt, ListenerInv, ConfirmationsOnce, ConfirmedAreServed,
         SignatureReady, SignatureToSend, HandToWeb3, Submit
<1>7. CASE GetTxHash
  BY <1>7 DEF TypeOK, PromiTypeOK, SendInv, SentAsSigned, HashInv, HashPromiseSound,
         ErrorInv, OneReceipt, ListenerInv, ConfirmationsOnce, ConfirmedAreServed,
         GetTxHash, HashNow
<1>8. CASE GetTxReceipt
  BY <1>8 DEF TypeOK, PromiTypeOK, SendInv, SentAsSigned, HashInv, HashPromiseSound,
         ErrorInv, OneReceipt, ListenerInv, ConfirmationsOnce, ConfirmedAreServed,
         GetTxReceipt, Resolved, Rejected, Pending
<1>9. ASSUME NEW c \in Callers, NEW n \in Targets, GetConfirmedReceipt(c, n) PROVE Inv'
  <2>1. callers' = [callers EXCEPT ![c] = AskConfirmed(n)] /\ n \in Nat
    BY <1>9 DEF GetConfirmedReceipt
  <2>2. OneReceipt'
    BY <1>9, <2>1 DEF TypeOK, OneReceipt, GetConfirmedReceipt, AskConfirmed
  <2>3. ConfirmedAreServed'
    BY <1>0, <1>9, <2>1 DEF TypeOK, ConfirmedAreServed, GetConfirmedReceipt, AskConfirmed
  <2> QED
    BY <1>9, <2>2, <2>3 DEF GetConfirmedReceipt, SendInv, SentAsSigned, HashInv, HashPromiseSound, ErrorInv,
         ListenerInv, ConfirmationsOnce
<1>10. ASSUME NEW c \in Callers, NEW n \in Targets, OnceConfirmedReceipt(c, n) PROVE Inv'
  BY <1>10 DEF TypeOK, PromiTypeOK, SendInv, SentAsSigned, HashInv, HashPromiseSound,
         ErrorInv, OneReceipt, ListenerInv, ConfirmationsOnce, ConfirmedAreServed,
         OnceConfirmedReceipt
<1>11. CASE OnTransactionHash
  <2>1. ConfirmedAreServed'
    <3> SUFFICES ASSUME NEW c \in Callers, callers'[c].st = "waiting"
                 PROVE  confirmationCount <= 0 \/ confirmationCount < callers'[c].n
      BY <1>11 DEF OnTransactionHash, ConfirmedAreServed
    <3>1. CASE callers[c].st = "armed"
      BY <1>0, <1>11, <3>1 DEF OnTransactionHash, AskConfirmed
    <3>2. CASE callers[c].st # "armed"
      BY <1>11, <3>2 DEF OnTransactionHash, ConfirmedAreServed
    <3> QED
      BY <3>1, <3>2
  <2>2. OneReceipt'
    BY <1>11 DEF TypeOK, OnTransactionHash, OneReceipt, AskConfirmed
  <2> QED
    BY <1>11, <2>1, <2>2 DEF TypeOK, PromiTypeOK, OnTransactionHash, ReportHash, SendInv,
         SentAsSigned, HashInv, HashPromiseSound, ErrorInv, ListenerInv, ConfirmationsOnce
<1>12. CASE OnReceipt
  BY <1>12 DEF TypeOK, PromiTypeOK, SendInv, SentAsSigned, HashInv, HashPromiseSound,
         ErrorInv, OneReceipt, ListenerInv, ConfirmationsOnce, ConfirmedAreServed,
         OnReceipt, ReportReceipt, SetReceipt, OnReceiptEvent, Resolved, Pending
<1>13. CASE OnError
  BY <1>13 DEF TypeOK, PromiTypeOK, SendInv, SentAsSigned, HashInv, HashPromiseSound,
         ErrorInv, OneReceipt, ListenerInv, ConfirmationsOnce, ConfirmedAreServed,
         OnError, ReportRefusal, ReportRevert, ReportGivenUp, ListenersAfterError,
         AwaitReceipt, HashOnError, ReceiptOnError, Resolved, Rejected
<1>14. CASE OnConfirmation
  <2> DEFINE k == nextConfirmation
  <2>1. /\ k \in 0 .. MaxConfirmations
        /\ k = confirmationCount + 1
        /\ confirmationCount' = k
        /\ confListeners = 1
    BY <1>14 DEF TypeOK, PromiTypeOK, OnConfirmation, ReportConfirmation, Counted, ListenerInv
  <2>2. ConfirmationsOnce'
    <3> SUFFICES ASSUME NEW j \in 0 .. MaxConfirmations
                 PROVE  confEvents'[j] = IF j <= k THEN 1 ELSE 0
      BY <2>1 DEF ConfirmationsOnce
    <3>1. confEvents' = [confEvents EXCEPT ![k] = @ + 1]
      BY <1>14, <2>1 DEF OnConfirmation
    <3>2. confEvents[j] = IF j <= confirmationCount THEN 1 ELSE 0
      BY DEF ConfirmationsOnce
    <3>3. confEvents \in [0 .. MaxConfirmations -> Nat]
      BY DEF TypeOK
    <3> QED
      BY <1>0, <2>1, <3>1, <3>2, <3>3
  <2>3. ConfirmedAreServed'
    <3> SUFFICES ASSUME NEW c \in Callers, callers'[c].st = "waiting"
                 PROVE  k < callers'[c].n
      BY <2>1 DEF ConfirmedAreServed
    <3>1. callers'[c] = IF callers[c].st = "waiting" /\ k >= callers[c].n
                        THEN [st |-> "resolved", n |-> callers[c].n, val |-> txReceipt]
                        ELSE callers[c]
      BY <1>14 DEF OnConfirmation, ServedBy
    <3> QED
      BY <1>0, <2>1, <3>1
  <2>4. OneReceipt'
    BY <1>14 DEF TypeOK, OnConfirmation, ServedBy, OneReceipt
  <2> QED
    BY <1>14, <2>1, <2>2, <2>3, <2>4 DEF TypeOK, PromiTypeOK, OnConfirmation,
         ReportConfirmation, SendInv, SentAsSigned, HashInv, HashPromiseSound, ErrorInv, ListenerInv
<1>15. CASE LookupReturns
  BY <1>15 DEF TypeOK, PromiTypeOK, SendInv, SentAsSigned, HashInv, HashPromiseSound,
         ErrorInv, OneReceipt, ListenerInv, ConfirmationsOnce, ConfirmedAreServed,
         LookupReturns, SetReceipt, ReceiptOnError, HashOnError, ListenAgain, Resolved,
         Rejected
<1>16. CASE LookupFails
  BY <1>16 DEF TypeOK, PromiTypeOK, SendInv, SentAsSigned, HashInv, HashPromiseSound,
         ErrorInv, OneReceipt, ListenerInv, ConfirmationsOnce, ConfirmedAreServed,
         LookupFails
<1>17. CASE Chain
  BY <1>17 DEF TypeOK, PromiTypeOK, SendInv, SentAsSigned, HashInv, HashPromiseSound,
         ErrorInv, OneReceipt, ListenerInv, ConfirmationsOnce, ConfirmedAreServed,
         Chain, Mine, Reorg
<1>18. CASE UNCHANGED vars
  BY <1>18 DEF TypeOK, PromiTypeOK, SendInv, SentAsSigned, HashInv, HashPromiseSound,
         ErrorInv, OneReceipt, ListenerInv, ConfirmationsOnce, ConfirmedAreServed, vars
<1> QED
  BY <1>1, <1>2, <1>3, <1>4, <1>5, <1>6, <1>7, <1>8, <1>9, <1>10, <1>11, <1>12, <1>13,
     <1>14, <1>15, <1>16, <1>17, <1>18, Zenon DEF Next

(* The inductive invariant of one Transaction, in all its parts. *)
THEOREM Invariance == Spec => [](TypeOK /\ Inv)
BY TypeCorrect, InvInit, InvStep, PTL DEF Spec

-----------------------------------------------------------------------------
(* The properties the runs check *)

(* A Transaction hands at most one transaction to web3 (lines 186-208). *)
THEOREM SentAtMostOnce == Spec => []NeverSentTwice
<1>1. TypeOK /\ Inv => NeverSentTwice
  BY DEF TypeOK, Inv, SendInv, NeverSentTwice
<1> QED
  BY <1>1, Invariance, PTL

(* What it hands over is what was signed last, by the sender that send     *)
(* names (lines 155-208).                                                  *)
THEOREM SentIsSigned == Spec => []SentAsSigned
<1>1. Inv => SentAsSigned
  BY DEF Inv
<1> QED
  BY <1>1, Invariance, PTL

(* Every promise of a receipt is about the one receipt of the object       *)
(* (lines 261-317, 391-396).                                               *)
THEOREM ReceiptIsOne == Spec => []OneReceipt
<1>1. Inv => OneReceipt
  BY DEF Inv
<1> QED
  BY <1>1, Invariance, PTL

(* Every confirmation is emitted once and in order, across a revert        *)
(* (lines 361-388).                                                        *)
THEOREM ConfirmationsAreOnce == Spec => []ConfirmationsOnce
<1>1. Inv => ConfirmationsOnce
  BY DEF Inv
<1> QED
  BY <1>1, Invariance, PTL

(* No caller waits for a confirmation that was counted (lines 293-317). *)
THEOREM ConfirmedCallersServed == Spec => []ConfirmedAreServed
<1>1. Inv => ConfirmedAreServed
  BY DEF Inv
<1> QED
  BY <1>1, Invariance, PTL

(* Nothing is announced about the receipt once "txRevert" was emitted      *)
(* (lines 361-383).                                                        *)
THEOREM RevertStaysFinal == Spec => RevertIsFinal
<1>1. TypeOK /\ Inv /\ [Next]_vars
        => [revertEvents > 0 => UNCHANGED <<txReceipt, receiptEvents>>]_vars
  <2> SUFFICES ASSUME TypeOK, Inv, Next, revertEvents > 0
               PROVE  UNCHANGED <<txReceipt, receiptEvents>>
    OBVIOUS
  <2>1. errorHandler = "done" /\ outcome = "error"
    BY DEF Inv, ErrorInv
  <2>2. ~OnReceipt /\ ~LookupReturns
    BY <2>1 DEF OnReceipt, ReportReceipt, LookupReturns
  <2> QED
    BY <2>2 DEF Next, Sign, SendSigned, SendUnsigned, SignatureDone, SignatureFails,
         SignatureReady, GetTxHash, GetTxReceipt, GetConfirmedReceipt, OnceConfirmedReceipt,
         OnTransactionHash, OnError, OnConfirmation, LookupFails, Chain
<1> QED
  BY <1>1, Invariance, PTL DEF Spec, RevertIsFinal

-----------------------------------------------------------------------------
(* The refinement of module Submission *)

(* What the object knows agrees with what web3 reported. *)
ReportInv ==
    /\ errorHandler = "lookup" => txHash
    /\ sendError => outcome = "error" \/ submissions = 0
    /\ phase = "mined" <=> chainReceipt # NoReceipt
    /\ outcome = "receipt" => phase = "mined" /\ txReceipt # NoReceipt
    /\ outcome = "error" /\ phase # "mined" => ~watching

(* It holds of a fresh Transaction, and one step keeps it (lines 350-396). *)
LEMMA ReportInitially == Init => ReportInv
BY DEF Init, PromiInit, ReportInv

LEMMA ReportStep == TypeOK /\ Inv /\ ReportInv /\ [Next]_vars => ReportInv'
<1> SUFFICES ASSUME TypeOK, Inv, ReportInv, [Next]_vars PROVE ReportInv'
  OBVIOUS
<1> USE ReceiptsAssumption, TransactionAssumption
<1>1. ASSUME NEW f \in Senders, Sign(f) PROVE ReportInv'
  BY <1>1 DEF ReportInv, TypeOK, PromiTypeOK, Inv, SendInv, HashInv, ErrorInv, Sign
<1>2. ASSUME NEW f \in Senders, SendSigned(f) PROVE ReportInv'
  BY <1>2 DEF ReportInv, TypeOK, PromiTypeOK, Inv, SendInv, HashInv, ErrorInv, SendSigned
<1>3. ASSUME NEW f \in Senders, SendUnsigned(f) PROVE ReportInv'
  BY <1>3 DEF ReportInv, TypeOK, PromiTypeOK, Inv, SendInv, HashInv, ErrorInv, AlreadySent, SendUnsigned,
             HandToWeb3, Submit
<1>4. ASSUME NEW i \in 1 .. nSigns, SignatureDone(i) PROVE ReportInv'
  BY <1>4 DEF ReportInv, TypeOK, PromiTypeOK, Inv, SendInv, HashInv, ErrorInv, SignatureDone
<1>5. ASSUME NEW i \in 1 .. nSigns, SignatureFails(i) PROVE ReportInv'
  BY <1>5 DEF ReportInv, TypeOK, PromiTypeOK, Inv, SendInv, HashInv, ErrorInv, SignatureFails
<1>6. CASE SignatureReady
  BY <1>6 DEF ReportInv, TypeOK, PromiTypeOK, Inv, SendInv, HashInv, ErrorInv, SignatureReady, HandToWeb3, Submit
<1>7. CASE GetTxHash
  BY <1>7 DEF ReportInv, TypeOK, PromiTypeOK, Inv, SendInv, HashInv, ErrorInv, GetTxHash
<1>8. CASE GetTxReceipt
  BY <1>8 DEF ReportInv, TypeOK, PromiTypeOK, Inv, SendInv, HashInv, ErrorInv, GetTxReceipt
<1>9. ASSUME NEW c \in Callers, NEW n \in Targets, GetConfirmedReceipt(c, n) PROVE ReportInv'
  BY <1>9 DEF ReportInv, TypeOK, PromiTypeOK, Inv, SendInv, HashInv, ErrorInv, GetConfirmedReceipt
<1>10. ASSUME NEW c \in Callers, NEW n \in Targets, OnceConfirmedReceipt(c, n) PROVE ReportInv'
  BY <1>10 DEF ReportInv, TypeOK, PromiTypeOK, Inv, SendInv, HashInv, ErrorInv, OnceConfirmedReceipt
<1>11. CASE OnTransactionHash
  BY <1>11 DEF ReportInv, TypeOK, PromiTypeOK, Inv, SendInv, HashInv, ErrorInv, OnTransactionHash, ReportHash
<1>12. CASE OnReceipt
  BY <1>12 DEF ReportInv, TypeOK, PromiTypeOK, Inv, SendInv, HashInv, ErrorInv, OnReceipt, ReportReceipt, SetReceipt
<1>13. CASE OnError
  BY <1>13 DEF ReportInv, TypeOK, PromiTypeOK, Inv, SendInv, HashInv, ErrorInv, OnError, ReportRefusal, ReportRevert, ReportGivenUp, AwaitReceipt
<1>14. CASE OnConfirmation
  BY <1>14 DEF ReportInv, TypeOK, PromiTypeOK, Inv, SendInv, HashInv, ErrorInv, OnConfirmation, ReportConfirmation
<1>15. CASE LookupReturns
  BY <1>15 DEF ReportInv, TypeOK, PromiTypeOK, Inv, SendInv, HashInv, ErrorInv, LookupReturns, SetReceipt
<1>16. CASE LookupFails
  BY <1>16 DEF ReportInv, TypeOK, PromiTypeOK, Inv, SendInv, HashInv, ErrorInv, LookupFails
<1>17. CASE Chain
  BY <1>17 DEF ReportInv, TypeOK, PromiTypeOK, Inv, SendInv, HashInv, ErrorInv, Chain, Mine, Reorg
<1>18. CASE UNCHANGED vars
  BY <1>18 DEF ReportInv, TypeOK, PromiTypeOK, Inv, SendInv, HashInv, ErrorInv, vars
<1> QED
  BY <1>1, <1>2, <1>3, <1>4, <1>5, <1>6, <1>7, <1>8, <1>9, <1>10, <1>11, <1>12, <1>13, <1>14, <1>15, <1>16, <1>17, <1>18, Zenon DEF Next

(* Where a confirmation may come from and what is known by then, if the    *)
(* node that confirms also knows the receipt.                              *)
CountInv ==
    /\ errorHandler = "crashed" => confListeners = 0
    /\ errorHandler = "done" /\ confListeners > 0 /\ watching => txReceipt # NoReceipt
    /\ confirmationCount > 0 => txReceipt # NoReceipt
    /\ ConfirmedHasReceipt

(* One step keeps it (lines 293-317, 361-388). *)
LEMMA CountStep ==
    ASSUME ~LookupMayMiss, TypeOK, Inv, ReportInv, CountInv, [Next]_vars PROVE CountInv'
<1> USE ReceiptsAssumption, TransactionAssumption
<1>1. ASSUME NEW f \in Senders, Sign(f) PROVE CountInv'
  BY <1>1 DEF CountInv, ConfirmedHasReceipt, TypeOK, PromiTypeOK, Inv, SendInv,
         HashInv, ErrorInv, ReportInv, Sign
<1>2. ASSUME NEW f \in Senders, SendSigned(f) PROVE CountInv'
  BY <1>2 DEF CountInv, ConfirmedHasReceipt, TypeOK, PromiTypeOK, Inv, SendInv,
         HashInv, ErrorInv, ReportInv, SendSigned
<1>3. ASSUME NEW f \in Senders, SendUnsigned(f) PROVE CountInv'
  BY <1>3 DEF CountInv, ConfirmedHasReceipt, TypeOK, PromiTypeOK, Inv, SendInv,
         HashInv, ErrorInv, ReportInv, SendUnsigned, HandToWeb3, Submit,
         AlreadySent
<1>4. ASSUME NEW i \in 1 .. nSigns, SignatureDone(i) PROVE CountInv'
  BY <1>4 DEF CountInv, ConfirmedHasReceipt, TypeOK, PromiTypeOK, Inv, SendInv,
         HashInv, ErrorInv, ReportInv, SignatureDone
<1>5. ASSUME NEW i \in 1 .. nSigns, SignatureFails(i) PROVE CountInv'
  BY <1>5 DEF CountInv, ConfirmedHasReceipt, TypeOK, PromiTypeOK, Inv, SendInv,
         HashInv, ErrorInv, ReportInv, SignatureFails
<1>6. CASE SignatureReady
  BY <1>6 DEF CountInv, ConfirmedHasReceipt, TypeOK, PromiTypeOK, Inv, SendInv,
         HashInv, ErrorInv, ReportInv, SignatureReady, HandToWeb3, Submit
<1>7. CASE GetTxHash
  BY <1>7 DEF CountInv, ConfirmedHasReceipt, TypeOK, PromiTypeOK, Inv, SendInv,
         HashInv, ErrorInv, ReportInv, GetTxHash
<1>8. CASE GetTxReceipt
  BY <1>8 DEF CountInv, ConfirmedHasReceipt, TypeOK, PromiTypeOK, Inv, SendInv,
         HashInv, ErrorInv, ReportInv, GetTxReceipt
<1>9. ASSUME NEW c \in Callers, NEW n \in Targets, GetConfirmedReceipt(c, n) PROVE CountInv'
  BY <1>9 DEF CountInv, ConfirmedHasReceipt, TypeOK, PromiTypeOK, Inv, SendInv,
         HashInv, ErrorInv, ReportInv, GetConfirmedReceipt, AskConfirmed
<1>10. ASSUME NEW c \in Callers, NEW n \in Targets, OnceConfirmedReceipt(c, n) PROVE CountInv'
  BY <1>10 DEF CountInv, ConfirmedHasReceipt, TypeOK, PromiTypeOK, Inv, SendInv,
         HashInv, ErrorInv, ReportInv, OnceConfirmedReceipt
<1>11. CASE OnTransactionHash
  BY <1>11 DEF CountInv, ConfirmedHasReceipt, TypeOK, PromiTypeOK, Inv, SendInv,
         HashInv, ErrorInv, ReportInv, OnTransactionHash, ReportHash,
         AskConfirmed
<1>12. CASE OnReceipt
  BY <1>12 DEF CountInv, ConfirmedHasReceipt, TypeOK, PromiTypeOK, Inv, SendInv,
         HashInv, ErrorInv, ReportInv, OnReceipt, ReportReceipt, SetReceipt
<1>13. CASE OnError
  BY <1>13 DEF CountInv, ConfirmedHasReceipt, TypeOK, PromiTypeOK, Inv, SendInv,
         HashInv, ErrorInv, ReportInv, OnError, ReportRefusal, ReportRevert,
         ReportGivenUp, AwaitReceipt, ListenersAfterError
<1>14. CASE OnConfirmation
  <2>1. nextConfirmation > 0 => txReceipt # NoReceipt
    <3> SUFFICES ASSUME nextConfirmation > 0 PROVE txReceipt # NoReceipt
      OBVIOUS
    <3>1. confListeners > 0 /\ watching /\ outcome # "none"
      BY <1>14 DEF OnConfirmation, ReportConfirmation
    <3>2. CASE outcome = "error"
      BY <3>1, <3>2 DEF TypeOK, Inv, ErrorInv, ListenerInv, CountInv
    <3>3. CASE outcome = "receipt"
      BY <3>3 DEF ReportInv
    <3> QED
      BY <3>1, <3>2, <3>3 DEF TypeOK, PromiTypeOK
  <2>2. nextConfirmation \in Nat
    BY DEF TypeOK, PromiTypeOK
  <2>3. ConfirmedHasReceipt'
    <3> SUFFICES ASSUME NEW c \in Callers, callers'[c].st = "resolved", callers'[c].n > 0
                 PROVE  callers'[c].val # NoReceipt
      BY DEF ConfirmedHasReceipt
    <3>1. callers'[c] = IF callers[c].st = "waiting" /\ nextConfirmation >= callers[c].n
                        THEN [st |-> "resolved", n |-> callers[c].n, val |-> txReceipt]
                        ELSE callers[c]
      BY <1>14 DEF OnConfirmation, ServedBy
    <3>2. callers[c].n \in Nat
      <4>1. callers[c] \in [st : {"none", "armed", "waiting", "resolved", "rejected"},
                            n : Targets \cup {0}, val : Receipts \cup {NoReceipt}]
        BY DEF TypeOK
      <4>2. callers[c].n \in Targets \cup {0}
        BY <4>1
      <4>3. Targets \subseteq Nat
        BY TransactionAssumption DEF TransactionAssumption
      <4>4. Targets \cup {0} \subseteq Nat
        BY <4>3
      <4> QED
        BY <4>2, <4>4, Zenon
    <3> QED
      BY <2>1, <2>2, <3>1, <3>2 DEF CountInv, ConfirmedHasReceipt
  <2>4. UNCHANGED <<confListeners, errorHandler, txReceipt>> /\ (watching' => watching)
    BY <1>14 DEF OnConfirmation, ReportConfirmation, listenerVars
  <2> QED
    BY <1>14, <2>1, <2>3, <2>4 DEF OnConfirmation, Counted, CountInv
<1>15. CASE LookupReturns
  <2>1. watching => txReceipt' # NoReceipt
    BY <1>15 DEF LookupReturns, SetReceipt, TypeOK, PromiTypeOK, Inv, ErrorInv, ReportInv
  <2>2. txReceipt # NoReceipt => txReceipt' # NoReceipt
    BY <1>15 DEF LookupReturns, SetReceipt
  <2> QED
    BY <1>15, <2>1, <2>2 DEF LookupReturns, CountInv, ConfirmedHasReceipt, promiVars
<1>16. CASE LookupFails
  BY <1>16 DEF CountInv, ConfirmedHasReceipt, TypeOK, PromiTypeOK, Inv, SendInv,
         HashInv, ErrorInv, ReportInv, LookupFails, ListenerInv
<1>17. CASE Chain
  BY <1>17 DEF CountInv, ConfirmedHasReceipt, TypeOK, PromiTypeOK, Inv, SendInv,
         HashInv, ErrorInv, ReportInv, Chain, Mine, Reorg
<1>18. CASE UNCHANGED vars
  BY <1>18 DEF CountInv, ConfirmedHasReceipt, TypeOK, PromiTypeOK, Inv, SendInv,
         HashInv, ErrorInv, ReportInv, vars
<1> QED
  BY <1>1, <1>2, <1>3, <1>4, <1>5, <1>6, <1>7, <1>8, <1>9, <1>10, <1>11, <1>12, <1>13,
     <1>14, <1>15, <1>16, <1>17, <1>18, Zenon DEF Next

(* No caller is told of a confirmation without its receipt, if the node    *)
(* that confirms also knows the receipt (lines 293-317, 361-388).          *)
THEOREM ConfirmedComesWithReceipt ==
    ASSUME ~LookupMayMiss PROVE Spec => []ConfirmedHasReceipt
<1>1. Init => ReportInv /\ CountInv
  BY ReportInitially DEF Init, PromiInit, CountInv, ConfirmedHasReceipt
<1>2. TypeOK /\ Inv /\ ReportInv /\ CountInv /\ [Next]_vars => (ReportInv /\ CountInv)'
  BY ReportStep, CountStep
<1>3. CountInv => ConfirmedHasReceipt
  BY DEF CountInv
<1> QED
  BY <1>1, <1>2, <1>3, Invariance, PTL DEF Spec

(* Nothing is promised to whoever has no answer yet. *)
OpenInv ==
    /\ txReceiptPromise.st \notin {"resolved", "rejected"} => txReceiptPromise.val = NoReceipt
    /\ \A c \in Callers :
        callers[c].st \notin {"resolved", "rejected"} => callers[c].val = NoReceipt

(* A promise p became q: as before, or answered with what is known now. *)
Given(p, q) ==
    \/ AnswerTo(q) = AnswerTo(p)
    \/ /\ p.st \notin {"resolved", "rejected"} /\ p.val = NoReceipt
       /\ \/ q.st = "resolved" /\ q.val = txReceipt'
          \/ q.st = "rejected" /\ q.val = NoReceipt /\ sendError' /\ txReceipt' = NoReceipt

FactStep ==
    \/ Promised!Send \/ Promised!Accept \/ Promised!Fail \/ Promised!Include
    \/ Promised!Revert \/ UNCHANGED Promised!facts

AnswerStep ==
    /\ Promised!AnswerHash
    /\ Given(txReceiptPromise, txReceiptPromise')
    /\ \A c \in Callers : Given(callers[c], callers'[c])

(* A step is one of Submission's if it is so promise by promise. *)
LEMMA PromiseByPromise == FactStep /\ AnswerStep => Promised!Next
<1> SUFFICES ASSUME FactStep, AnswerStep PROVE Promised!Next
  OBVIOUS
<1>1. ASSUME NEW a \in Callers \cup {"getTxReceipt"} PROVE Promised!Answer(a)
  <2>1. CASE a = "getTxReceipt"
    BY <2>1, TransactionAssumption DEF Promised!Answer, Promised!Open, AnswerStep, Given, AnswerTo
  <2>2. CASE a # "getTxReceipt"
    BY <2>2, TransactionAssumption DEF Promised!Answer, Promised!Open, AnswerStep, Given, AnswerTo
  <2> QED
    BY <2>1, <2>2
<1> QED
  BY <1>1 DEF Promised!Next, FactStep, AnswerStep

(* Whoever has no answer has none after a step that gives none (lines 261-317). *)
LEMMA OpenStep == TypeOK /\ OpenInv /\ [Next]_vars => OpenInv'
<1> SUFFICES ASSUME TypeOK, OpenInv, [Next]_vars PROVE OpenInv'
  OBVIOUS
<1> USE ReceiptsAssumption, TransactionAssumption
<1>1. ASSUME NEW f \in Senders, Sign(f) PROVE OpenInv'
  BY <1>1 DEF OpenInv, TypeOK, ReceiptPromises, Sign
<1>2. ASSUME NEW f \in Senders, SendSigned(f) PROVE OpenInv'
  BY <1>2 DEF OpenInv, TypeOK, ReceiptPromises, SendSigned
<1>3. ASSUME NEW f \in Senders, SendUnsigned(f) PROVE OpenInv'
  BY <1>3 DEF OpenInv, TypeOK, ReceiptPromises, SendUnsigned, HandToWeb3, Submit,
         AlreadySent
<1>4. ASSUME NEW i \in 1 .. nSigns, SignatureDone(i) PROVE OpenInv'
  BY <1>4 DEF OpenInv, TypeOK, ReceiptPromises, SignatureDone
<1>5. ASSUME NEW i \in 1 .. nSigns, SignatureFails(i) PROVE OpenInv'
  BY <1>5 DEF OpenInv, TypeOK, ReceiptPromises, SignatureFails
<1>6. CASE SignatureReady
  BY <1>6 DEF OpenInv, TypeOK, ReceiptPromises, SignatureReady, HandToWeb3, Submit
<1>7. CASE GetTxHash
  BY <1>7 DEF OpenInv, TypeOK, ReceiptPromises, GetTxHash, HashNow
<1>8. CASE GetTxReceipt
  BY <1>8 DEF OpenInv, TypeOK, ReceiptPromises, GetTxReceipt, Pending, Resolved,
         Rejected, Unasked
<1>9. ASSUME NEW c \in Callers, NEW n \in Targets, GetConfirmedReceipt(c, n) PROVE OpenInv'
  BY <1>9 DEF OpenInv, TypeOK, ReceiptPromises, GetConfirmedReceipt, AskConfirmed
<1>10. ASSUME NEW c \in Callers, NEW n \in Targets, OnceConfirmedReceipt(c, n) PROVE OpenInv'
  BY <1>10 DEF OpenInv, TypeOK, ReceiptPromises, OnceConfirmedReceipt
<1>11. CASE OnTransactionHash
  BY <1>11 DEF OpenInv, TypeOK, ReceiptPromises, OnTransactionHash, ReportHash,
         AskConfirmed
<1>12. CASE OnReceipt
  BY <1>12 DEF OpenInv, TypeOK, ReceiptPromises, OnReceipt, ReportReceipt, SetReceipt,
         OnReceiptEvent, Pending, Resolved
<1>13. CASE OnError
  BY <1>13 DEF OpenInv, TypeOK, ReceiptPromises, OnError, ReportRefusal, ReportRevert,
         ReportGivenUp, AwaitReceipt, ReceiptOnError, Pending, Resolved, Rejected,
         HashOnError
<1>14. CASE OnConfirmation
  BY <1>14 DEF OpenInv, TypeOK, ReceiptPromises, OnConfirmation, ReportConfirmation,
         ServedBy
<1>15. CASE LookupReturns
  BY <1>15 DEF OpenInv, TypeOK, ReceiptPromises, LookupReturns, SetReceipt,
         ReceiptOnError, Pending, Resolved, Rejected, HashOnError
<1>16. CASE LookupFails
  BY <1>16 DEF OpenInv, TypeOK, ReceiptPromises, LookupFails
<1>17. CASE Chain
  BY <1>17 DEF OpenInv, TypeOK, ReceiptPromises, Chain, Mine, Reorg
<1>18. CASE UNCHANGED vars
  BY <1>18 DEF OpenInv, TypeOK, ReceiptPromises, vars
<1> QED
  BY <1>1, <1>2, <1>3, <1>4, <1>5, <1>6, <1>7, <1>8, <1>9, <1>10, <1>11, <1>12, <1>13,
     <1>14, <1>15, <1>16, <1>17, <1>18, Zenon DEF Next

(* Every step learns at most one fact (lines 155-226, 350-396). *)
LEMMA FactsLearnt == TypeOK /\ Inv /\ ReportInv /\ [Next]_vars => FactStep
<1> SUFFICES ASSUME TypeOK, Inv, ReportInv, [Next]_vars PROVE FactStep
  OBVIOUS
<1> USE ReceiptsAssumption, TransactionAssumption
<1>1. ASSUME NEW f \in Senders, Sign(f) PROVE FactStep
  BY <1>1 DEF FactStep, Promised!Send, Promised!Accept, Promised!Fail, Promised!Include,
         Promised!Revert, Promised!facts, TypeOK, PromiTypeOK, SendInv, HashInv,
         ErrorInv, ReportInv, Inv, Sign
<1>2. ASSUME NEW f \in Senders, SendSigned(f) PROVE FactStep
  BY <1>2 DEF FactStep, Promised!Send, Promised!Accept, Promised!Fail, Promised!Include,
         Promised!Revert, Promised!facts, TypeOK, PromiTypeOK, SendInv, HashInv,
         ErrorInv, ReportInv, Inv, SendSigned
<1>3. ASSUME NEW f \in Senders, SendUnsigned(f) PROVE FactStep
  BY <1>3 DEF FactStep, Promised!Send, Promised!Accept, Promised!Fail, Promised!Include,
         Promised!Revert, Promised!facts, TypeOK, PromiTypeOK, SendInv, HashInv,
         ErrorInv, ReportInv, Inv, SendUnsigned, HandToWeb3, Submit, AlreadySent
<1>4. ASSUME NEW i \in 1 .. nSigns, SignatureDone(i) PROVE FactStep
  BY <1>4 DEF FactStep, Promised!Send, Promised!Accept, Promised!Fail, Promised!Include,
         Promised!Revert, Promised!facts, TypeOK, PromiTypeOK, SendInv, HashInv,
         ErrorInv, ReportInv, Inv, SignatureDone
<1>5. ASSUME NEW i \in 1 .. nSigns, SignatureFails(i) PROVE FactStep
  BY <1>5 DEF FactStep, Promised!Send, Promised!Accept, Promised!Fail, Promised!Include,
         Promised!Revert, Promised!facts, TypeOK, PromiTypeOK, SendInv, HashInv,
         ErrorInv, ReportInv, Inv, SignatureFails
<1>6. CASE SignatureReady
  BY <1>6 DEF FactStep, Promised!Send, Promised!Accept, Promised!Fail, Promised!Include,
         Promised!Revert, Promised!facts, TypeOK, PromiTypeOK, SendInv, HashInv,
         ErrorInv, ReportInv, Inv, SignatureReady, HandToWeb3, Submit
<1>7. CASE GetTxHash
  BY <1>7 DEF FactStep, Promised!Send, Promised!Accept, Promised!Fail, Promised!Include,
         Promised!Revert, Promised!facts, TypeOK, PromiTypeOK, SendInv, HashInv,
         ErrorInv, ReportInv, Inv, GetTxHash
<1>8. CASE GetTxReceipt
  BY <1>8 DEF FactStep, Promised!Send, Promised!Accept, Promised!Fail, Promised!Include,
         Promised!Revert, Promised!facts, TypeOK, PromiTypeOK, SendInv, HashInv,
         ErrorInv, ReportInv, Inv, GetTxReceipt
<1>9. ASSUME NEW c \in Callers, NEW n \in Targets, GetConfirmedReceipt(c, n) PROVE FactStep
  BY <1>9 DEF FactStep, Promised!Send, Promised!Accept, Promised!Fail, Promised!Include,
         Promised!Revert, Promised!facts, TypeOK, PromiTypeOK, SendInv, HashInv,
         ErrorInv, ReportInv, Inv, GetConfirmedReceipt
<1>10. ASSUME NEW c \in Callers, NEW n \in Targets, OnceConfirmedReceipt(c, n) PROVE FactStep
  BY <1>10 DEF FactStep, Promised!Send, Promised!Accept, Promised!Fail,
         Promised!Include, Promised!Revert, Promised!facts, TypeOK, PromiTypeOK,
         SendInv, HashInv, ErrorInv, ReportInv, Inv, OnceConfirmedReceipt
<1>11. CASE OnTransactionHash
  <2>1. ~txHash /\ ~sendError /\ submissions = 1
    BY <1>11 DEF OnTransactionHash, ReportHash, Inv, SendInv, HashInv, TypeOK
  <2>2. Promised!Accept
    BY <1>11, <2>1 DEF OnTransactionHash, Promised!Accept, sendVars
  <2> QED
    BY <2>2 DEF FactStep
<1>12. CASE OnReceipt
  <2>1. CASE txReceipt = NoReceipt
    <3>1. phase = "mined" /\ outcome = "none" /\ chainReceipt # NoReceipt
      BY <1>12 DEF OnReceipt, ReportReceipt, ReportInv
    <3>2. ~sendError /\ txHash
      BY <3>1 DEF ReportInv, Inv, SendInv, HashInv
    <3>3. Promised!Include
      BY <1>12, <2>1, <3>1, <3>2 DEF OnReceipt, SetReceipt, Promised!Include, sendVars,
             TypeOK, PromiTypeOK
    <3> QED
      BY <3>3 DEF FactStep
  <2>2. CASE txReceipt # NoReceipt
    BY <1>12, <2>2 DEF OnReceipt, SetReceipt, FactStep, Promised!facts, sendVars
  <2> QED
    BY <2>1, <2>2
<1>13. CASE OnError
  <2>1. ~sendError /\ revertEvents = 0
    <3>1. outcome # "error" /\ phase # "idle"
      BY <1>13 DEF OnError, ReportRefusal, ReportRevert, ReportGivenUp, Inv, ErrorInv
    <3>2. revertEvents \in Nat /\ submissions # 0
      BY <3>1 DEF TypeOK, Inv, SendInv
    <3> QED
      BY <3>1, <3>2 DEF ReportInv, Inv, ErrorInv
  <2>2. Promised!Fail
    BY <1>13, <2>1 DEF OnError, AwaitReceipt, Promised!Fail, sendVars
  <2> QED
    BY <2>2 DEF FactStep
<1>14. CASE OnConfirmation
  BY <1>14 DEF FactStep, Promised!Send, Promised!Accept, Promised!Fail,
         Promised!Include, Promised!Revert, Promised!facts, TypeOK, PromiTypeOK,
         SendInv, HashInv, ErrorInv, ReportInv, Inv, OnConfirmation, ReportConfirmation
<1>15. CASE LookupReturns
  BY <1>15 DEF FactStep, Promised!Send, Promised!Accept, Promised!Fail,
         Promised!Include, Promised!Revert, Promised!facts, TypeOK, PromiTypeOK,
         SendInv, HashInv, ErrorInv, ReportInv, Inv, LookupReturns, SetReceipt
<1>16. CASE LookupFails
  BY <1>16 DEF FactStep, Promised!Send, Promised!Accept, Promised!Fail,
         Promised!Include, Promised!Revert, Promised!facts, TypeOK, PromiTypeOK,
         SendInv, HashInv, ErrorInv, ReportInv, Inv, LookupFails
<1>17. CASE Chain
  BY <1>17 DEF FactStep, Promised!Send, Promised!Accept, Promised!Fail,
         Promised!Include, Promised!Revert, Promised!facts, TypeOK, PromiTypeOK,
         SendInv, HashInv, ErrorInv, ReportInv, Inv, Chain, Mine, Reorg
<1>18. CASE UNCHANGED vars
  BY <1>18 DEF FactStep, Promised!Send, Promised!Accept, Promised!Fail,
         Promised!Include, Promised!Revert, Promised!facts, TypeOK, PromiTypeOK,
         SendInv, HashInv, ErrorInv, ReportInv, Inv, vars
<1> QED
  BY <1>1, <1>2, <1>3, <1>4, <1>5, <1>6, <1>7, <1>8, <1>9, <1>10, <1>11, <1>12, <1>13,
     <1>14, <1>15, <1>16, <1>17, <1>18, Zenon DEF Next

(* Every step answers as the facts are then (lines 228-348). *)
LEMMA AnswersGiven == TypeOK /\ Inv /\ ReportInv /\ OpenInv /\ [Next]_vars => AnswerStep
<1> SUFFICES ASSUME TypeOK, Inv, ReportInv, OpenInv, [Next]_vars PROVE AnswerStep
  OBVIOUS
<1> USE ReceiptsAssumption, TransactionAssumption
<1>1. ASSUME NEW f \in Senders, Sign(f) PROVE AnswerStep
  BY <1>1 DEF AnswerStep, Promised!AnswerHash, Given, AnswerTo, OpenInv, TypeOK,
         PromiTypeOK, ReceiptPromises, HashInv, ErrorInv, Inv, ReportInv, Sign
<1>2. ASSUME NEW f \in Senders, SendSigned(f) PROVE AnswerStep
  BY <1>2 DEF AnswerStep, Promised!AnswerHash, Given, AnswerTo, OpenInv, TypeOK,
         PromiTypeOK, ReceiptPromises, HashInv, ErrorInv, Inv, ReportInv, SendSigned
<1>3. ASSUME NEW f \in Senders, SendUnsigned(f) PROVE AnswerStep
  BY <1>3 DEF AnswerStep, Promised!AnswerHash, Given, AnswerTo, OpenInv, TypeOK,
         PromiTypeOK, ReceiptPromises, HashInv, ErrorInv, Inv, ReportInv, SendUnsigned,
         HandToWeb3, Submit, AlreadySent
<1>4. ASSUME NEW i \in 1 .. nSigns, SignatureDone(i) PROVE AnswerStep
  BY <1>4 DEF AnswerStep, Promised!AnswerHash, Given, AnswerTo, OpenInv, TypeOK,
         PromiTypeOK, ReceiptPromises, HashInv, ErrorInv, Inv, ReportInv, SignatureDone
<1>5. ASSUME NEW i \in 1 .. nSigns, SignatureFails(i) PROVE AnswerStep
  BY <1>5 DEF AnswerStep, Promised!AnswerHash, Given, AnswerTo, OpenInv, TypeOK,
         PromiTypeOK, ReceiptPromises, HashInv, ErrorInv, Inv, ReportInv, SignatureFails
<1>6. CASE SignatureReady
  BY <1>6 DEF AnswerStep, Promised!AnswerHash, Given, AnswerTo, OpenInv, TypeOK,
         PromiTypeOK, ReceiptPromises, HashInv, ErrorInv, Inv, ReportInv,
         SignatureReady, HandToWeb3, Submit
<1>7. CASE GetTxHash
  BY <1>7 DEF AnswerStep, Promised!AnswerHash, Given, AnswerTo, OpenInv, TypeOK,
         PromiTypeOK, ReceiptPromises, HashInv, ErrorInv, Inv, ReportInv, GetTxHash,
         HashNow
<1>8. CASE GetTxReceipt
  BY <1>8 DEF AnswerStep, Promised!AnswerHash, Given, AnswerTo, OpenInv, TypeOK,
         PromiTypeOK, ReceiptPromises, HashInv, ErrorInv, Inv, ReportInv, GetTxReceipt,
         Pending, Resolved, Rejected, Unasked
<1>9. ASSUME NEW c \in Callers, NEW n \in Targets, GetConfirmedReceipt(c, n) PROVE AnswerStep
  BY <1>9 DEF AnswerStep, Promised!AnswerHash, Given, AnswerTo, OpenInv, TypeOK,
         PromiTypeOK, ReceiptPromises, HashInv, ErrorInv, Inv, ReportInv,
         GetConfirmedReceipt, AskConfirmed
<1>10. ASSUME NEW c \in Callers, NEW n \in Targets, OnceConfirmedReceipt(c, n) PROVE AnswerStep
  BY <1>10 DEF AnswerStep, Promised!AnswerHash, Given, AnswerTo, OpenInv, TypeOK,
         PromiTypeOK, ReceiptPromises, HashInv, ErrorInv, Inv, ReportInv,
         OnceConfirmedReceipt
<1>11. CASE OnTransactionHash
  BY <1>11 DEF AnswerStep, Promised!AnswerHash, Given, AnswerTo, OpenInv, TypeOK,
         PromiTypeOK, ReceiptPromises, HashInv, ErrorInv, Inv, ReportInv,
         OnTransactionHash, ReportHash, AskConfirmed
<1>12. CASE OnReceipt
  BY <1>12 DEF AnswerStep, Promised!AnswerHash, Given, AnswerTo, OpenInv, TypeOK,
         PromiTypeOK, ReceiptPromises, HashInv, ErrorInv, Inv, ReportInv, OnReceipt,
         ReportReceipt, SetReceipt, OnReceiptEvent, Pending, Resolved
<1>13. CASE OnError
  BY <1>13 DEF AnswerStep, Promised!AnswerHash, Given, AnswerTo, OpenInv, TypeOK,
         PromiTypeOK, ReceiptPromises, HashInv, ErrorInv, Inv, ReportInv, OnError,
         ReportRefusal, ReportRevert, ReportGivenUp, AwaitReceipt, ReceiptOnError,
         Pending, Resolved, Rejected, HashOnError
<1>14. CASE OnConfirmation
  BY <1>14 DEF AnswerStep, Promised!AnswerHash, Given, AnswerTo, OpenInv, TypeOK,
         PromiTypeOK, ReceiptPromises, HashInv, ErrorInv, Inv, ReportInv,
         OnConfirmation, ReportConfirmation, ServedBy
<1>15. CASE LookupReturns
  BY <1>15 DEF AnswerStep, Promised!AnswerHash, Given, AnswerTo, OpenInv, TypeOK,
         PromiTypeOK, ReceiptPromises, HashInv, ErrorInv, Inv, ReportInv, LookupReturns,
         SetReceipt, ReceiptOnError, Pending, Resolved, Rejected, HashOnError
<1>16. CASE LookupFails
  BY <1>16 DEF AnswerStep, Promised!AnswerHash, Given, AnswerTo, OpenInv, TypeOK,
         PromiTypeOK, ReceiptPromises, HashInv, ErrorInv, Inv, ReportInv, LookupFails
<1>17. CASE Chain
  BY <1>17 DEF AnswerStep, Promised!AnswerHash, Given, AnswerTo, OpenInv, TypeOK,
         PromiTypeOK, ReceiptPromises, HashInv, ErrorInv, Inv, ReportInv, Chain, Mine,
         Reorg
<1>18. CASE UNCHANGED vars
  BY <1>18 DEF AnswerStep, Promised!AnswerHash, Given, AnswerTo, OpenInv, TypeOK,
         PromiTypeOK, ReceiptPromises, HashInv, ErrorInv, Inv, ReportInv, vars
<1> QED
  BY <1>1, <1>2, <1>3, <1>4, <1>5, <1>6, <1>7, <1>8, <1>9, <1>10, <1>11, <1>12, <1>13,
     <1>14, <1>15, <1>16, <1>17, <1>18, Zenon DEF Next

(* The object does what module Submission promises an application: every   *)
(* fact learnt once, every promise answered once and truly, whatever the   *)
(* order of calls and events (all of Transaction.ts).                      *)
THEOREM Refinement == Spec => KeepsItsPromises
<1>1. Init => Promised!Init /\ ReportInv /\ OpenInv
  BY ReportInitially DEF Init, Promised!Init, Promised!Open, OpenInv, AnswerTo, Unasked
<1>2. TypeOK /\ Inv /\ ReportInv /\ OpenInv /\ [Next]_vars => Promised!Next
  BY FactsLearnt, AnswersGiven, PromiseByPromise
<1>3. TypeOK /\ Inv /\ ReportInv /\ OpenInv /\ [Next]_vars => (ReportInv /\ OpenInv)'
  BY ReportStep, OpenStep
<1> QED
  BY <1>1, <1>2, <1>3, Invariance, PTL DEF Spec, KeepsItsPromises, Promised!Spec
=============================================================================
