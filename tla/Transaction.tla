----------------------------- MODULE Transaction -----------------------------
(***************************************************************************)
(* src/src/Transaction.ts: one Transaction object, from signing and        *)
(* sending to its hash, receipt and confirmations.  The object forwards    *)
(* web3's events (module PromiEvent) and hands out promises; callers may   *)
(* ask for a promise at any moment, also while the asynchronous "error"    *)
(* handler waits for getTransactionReceipt.                                *)
(*                                                                         *)
(* A JavaScript callback runs to its end or to its next await, so each     *)
(* action is one such stretch of code.  A web3 report and the listener it  *)
(* calls are one action.                                                   *)
(***************************************************************************)
EXTENDS PromiEvent

CONSTANTS
    Accounts,       \* sender accounts
    NoFrom,         \* "from" left out of the send options
    Callers,        \* callers of getConfirmedReceipt / onceConfirmedReceipt
    Targets,        \* the confirmation numbers they ask for
    MaxSigns,       \* bound on calls of sign
    LookupMayMiss,  \* the node may not know a mined receipt yet
    LookupMayFail   \* the receipt request of the error handler may reject

ASSUME TransactionAssumption ==
    /\ NoFrom \notin Accounts
    /\ "getTxReceipt" \notin Callers
    /\ Targets \subseteq Nat
    /\ MaxSigns \in Nat
    /\ LookupMayMiss \in BOOLEAN
    /\ LookupMayFail \in BOOLEAN

VARIABLES
    isTxSent,
    from,              \* sendOptions.from
    signs,             \* the calls of sign: their sender, how far web3 got
    nSigns,            \* how many there were; signedTxPromise is the last one's
    signedTx,          \* the call whose signature this.signedTx holds, or 0
    sending,           \* how far send got
    awaitingSends,     \* continuations of send waiting for the signature
    sentTx,            \* the signature handed to web3, 0 for an unsigned send
    txHash,            \* this.txHash is set
    txReceipt,
    confirmationCount, \* -1 while undefined
    sendError,         \* this.sendError is set
    txHashPromise,
    txReceiptPromise,
    callers,           \* the promises of getConfirmedReceipt
    confListeners,     \* "confirmation" listeners on the web3 emitter
    errorHandler,      \* where the "error" listener is
    \* History, for the properties only:
    submissions,       \* transactions handed to web3
    receiptEvents,     \* "receipt" events emitted by the object
    revertEvents,      \* "txRevert" events
    confEvents         \* "confirmation" events, per number

signVars == <<signs, nSigns, signedTx>>
sendVars == <<isTxSent, from, sending, awaitingSends, sentTx, submissions>>
fieldVars == <<txHash, txReceipt, confirmationCount, sendError>>
promiseVars == <<txHashPromise, txReceiptPromise, callers>>
listenerVars == <<confListeners, errorHandler>>
eventVars == <<receiptEvents, revertEvents, confEvents>>
vars == <<promiVars, signVars, sendVars, fieldVars, promiseVars, listenerVars,
          eventVars>>

Unasked == [st |-> "none", val |-> NoReceipt]
Pending == [st |-> "pending", val |-> NoReceipt]
Resolved(r) == [st |-> "resolved", val |-> r]
Rejected == [st |-> "rejected", val |-> NoReceipt]

ReceiptPromises == [st : {"none", "pending", "resolved", "rejected"},
                    val : Receipts \cup {NoReceipt}]

TypeOK ==
    /\ PromiTypeOK
    /\ isTxSent \in BOOLEAN
    /\ from \in Accounts \cup {NoFrom}
    /\ signs \in [1 .. MaxSigns -> [st : {"none", "pending", "signed", "failed"},
                                    from : Accounts \cup {NoFrom}]]
    /\ nSigns \in 0 .. MaxSigns
    /\ signedTx \in 0 .. MaxSigns
    /\ sending \in {"no", "awaitSignature", "sent", "stopped", "failed"}
    /\ awaitingSends \in Nat
    /\ sentTx \in 0 .. MaxSigns
    /\ txHash \in BOOLEAN
    /\ txReceipt \in Receipts \cup {NoReceipt}
    /\ confirmationCount \in -1 .. MaxConfirmations
    /\ sendError \in BOOLEAN
    /\ txHashPromise \in {"none", "pending", "resolved", "rejected"}
    /\ txReceiptPromise \in ReceiptPromises
    /\ callers \in [Callers -> [st : {"none", "armed", "waiting", "resolved", "rejected"},
                                n : Targets \cup {0},
                                val : Receipts \cup {NoReceipt}]]
    /\ confListeners \in Nat
    /\ errorHandler \in {"none", "lookup", "done", "crashed"}
    /\ submissions \in Nat
    /\ receiptEvents \in Nat
    /\ revertEvents \in Nat
    /\ confEvents \in [0 .. MaxConfirmations -> Nat]

Init ==
    /\ PromiInit
    /\ isTxSent = FALSE
    /\ from \in Accounts \cup {NoFrom}   \* sendOptions given to the constructor
    /\ signs = [i \in 1 .. MaxSigns |-> [st |-> "none", from |-> NoFrom]]
    /\ nSigns = 0 /\ signedTx = 0
    /\ sending = "no" /\ awaitingSends = 0 /\ sentTx = 0
    /\ txHash = FALSE /\ txReceipt = NoReceipt
    /\ confirmationCount = -1 /\ sendError = FALSE
    /\ txHashPromise = "none" /\ txReceiptPromise = Unasked
    /\ callers = [c \in Callers |-> [st |-> "none", n |-> 0, val |-> NoReceipt]]
    /\ confListeners = 0 /\ errorHandler = "none"
    /\ submissions = 0 /\ receiptEvents = 0 /\ revertEvents = 0
    /\ confEvents = [k \in 0 .. MaxConfirmations |-> 0]

-----------------------------------------------------------------------------
(* Signing *)

(* Object.assign({}, this.sendOptions, sendOptions) on the "from" key. *)
MergedFrom(f) == IF f = NoFrom THEN from ELSE f

(* if (this.isTxSent) throw: the guard of sign and send. *)
AlreadySentBug == submissions # 0        \* ... tested when web3 has it
AlreadySent == isTxSent

(* sign(): every call starts a signature and replaces signedTxPromise. *)
Sign(f) ==
    /\ ~AlreadySent
    /\ nSigns < MaxSigns
    /\ MergedFrom(f) # NoFrom            \* otherwise it throws
    /\ from' = MergedFrom(f)
    /\ nSigns' = nSigns + 1
    /\ signs' = [signs EXCEPT ![nSigns + 1] = [st |-> "pending", from |-> MergedFrom(f)]]
    /\ UNCHANGED <<promiVars, signedTx, isTxSent, sending, awaitingSends, sentTx,
                   submissions, fieldVars, promiseVars, listenerVars, eventVars>>

(* signTransaction answers, not necessarily in the order of the calls. *)
SignatureDone(i) ==
    /\ signs[i].st = "pending"
    /\ signs' = [signs EXCEPT ![i] = [st |-> "signed", from |-> @.from]]
    /\ signedTx' = i
    /\ UNCHANGED <<promiVars, nSigns, sendVars, fieldVars, promiseVars,
                   listenerVars, eventVars>>

(* signTransaction rejects inside the async executor: the promise of sign  *)
(* is neither resolved nor rejected, ever.                                 *)
SignatureFails(i) ==
    /\ signs[i].st = "pending"
    /\ signs' = [signs EXCEPT ![i] = [st |-> "failed", from |-> @.from]]
    /\ UNCHANGED <<promiVars, nSigns, signedTx, sendVars, fieldVars,
                   promiseVars, listenerVars, eventVars>>

-----------------------------------------------------------------------------
(* Sending *)

(* this.sentTx = web3's emitter; addTxListeners(this.sentTx). *)
HandToWeb3(i) ==
    /\ Submit
    /\ sentTx' = i
    /\ submissions' = submissions + 1
    /\ sending' = "sent"
    /\ confListeners' = 1

(* send() after sign(): the rest waits for the signature. *)
SendSigned(f) ==
    /\ ~AlreadySent
    /\ nSigns > 0
    /\ isTxSent' = TRUE
    /\ from' = MergedFrom(f)
    /\ sending' = "awaitSignature"
    /\ awaitingSends' = awaitingSends + 1
    /\ UNCHANGED <<promiVars, signVars, sentTx, submissions, fieldVars,
                   promiseVars, listenerVars, eventVars>>

(* The signature send() goes on with: the one its promise resolves to. *)
SignatureToSendBug == IF signedTx = 0 THEN nSigns ELSE signedTx  \* this.signedTx
SignatureToSend == nSigns

(* The continuation of send() on the signature.  It throws if the senders  *)
(* differ, or if web3 does: nobody sees the rejected promise.              *)
SignatureReady ==
    /\ awaitingSends > 0
    /\ signs[nSigns].st = "signed"
    /\ awaitingSends' = awaitingSends - 1
    /\ \/ /\ from = signs[nSigns].from
          /\ HandToWeb3(SignatureToSend)
       \/ /\ sending' = "stopped"
          /\ UNCHANGED <<promiVars, sentTx, submissions, confListeners>>
    /\ UNCHANGED <<signVars, isTxSent, from, fieldVars, promiseVars,
                   errorHandler, eventVars>>

(* send() without a signature. *)
SendUnsigned(f) ==
    /\ ~AlreadySent
    /\ nSigns = 0
    /\ isTxSent' = TRUE
    /\ from' = MergedFrom(f)
    /\ \/ /\ from' = NoFrom                 \* throws, sendError is not set
          /\ sending' = "stopped"
          /\ UNCHANGED <<promiVars, sentTx, submissions, confListeners, sendError>>
       \/ /\ from' # NoFrom                 \* tx.send throws
          /\ sending' = "failed"
          /\ sendError' = TRUE
          /\ UNCHANGED <<promiVars, sentTx, submissions, confListeners>>
       \/ /\ from' # NoFrom
          /\ HandToWeb3(0)
          /\ UNCHANGED sendError
    /\ UNCHANGED <<signVars, awaitingSends, txHash, txReceipt, confirmationCount,
                   promiseVars, errorHandler, eventVars>>

-----------------------------------------------------------------------------
(* The promises.  All of them throw before send, so isTxSent is a guard. *)

(* getTxHash(): the first call makes the promise, later ones return it. *)
HashNow ==
    IF txHash THEN "resolved" ELSE IF sendError THEN "rejected" ELSE "pending"

GetTxHash ==
    /\ isTxSent
    /\ txHashPromise = "none"
    /\ txHashPromise' = HashNow
    /\ UNCHANGED <<promiVars, signVars, sendVars, fieldVars, txReceiptPromise,
                   callers, listenerVars, eventVars>>

(* getTxReceipt() *)
GetTxReceipt ==
    /\ isTxSent
    /\ txReceiptPromise = Unasked
    /\ txReceiptPromise' = IF txReceipt # NoReceipt THEN Resolved(txReceipt)
                           ELSE IF sendError THEN Rejected ELSE Pending
    /\ UNCHANGED <<promiVars, signVars, sendVars, fieldVars, txHashPromise,
                   callers, listenerVars, eventVars>>

(* getConfirmedReceipt that only waits for events to come. *)
AskConfirmedBug(n) ==
    [st |-> IF sendError /\ txReceipt = NoReceipt THEN "rejected" ELSE "waiting",
     n |-> n, val |-> NoReceipt]

(* What getConfirmedReceipt(n) returns now: 0 and undefined are both falsy, *)
(* so a confirmationCount of 0 never answers.                               *)
AskConfirmed(n) ==
    IF confirmationCount > 0 /\ confirmationCount >= n
    THEN [st |-> "resolved", n |-> n, val |-> txReceipt]
    ELSE [st |-> IF sendError /\ txReceipt = NoReceipt THEN "rejected" ELSE "waiting",
          n |-> n, val |-> NoReceipt]

GetConfirmedReceipt(c, n) ==
    /\ isTxSent
    /\ callers[c].st = "none"
    /\ callers' = [callers EXCEPT ![c] = AskConfirmed(n)]
    /\ UNCHANGED <<promiVars, signVars, sendVars, fieldVars, txHashPromise,
                   txReceiptPromise, listenerVars, eventVars>>

(* onceConfirmedReceipt(n, callback): asks on the "transactionHash" event. *)
OnceConfirmedReceipt(c, n) ==
    /\ callers[c].st = "none"
    /\ callers' = [callers EXCEPT ![c] = [st |-> "armed", n |-> n, val |-> NoReceipt]]
    /\ UNCHANGED <<promiVars, signVars, sendVars, fieldVars, txHashPromise,
                   txReceiptPromise, listenerVars, eventVars>>

-----------------------------------------------------------------------------
(* web3's events and the listeners of addTxListeners *)

(* What the object's own "receipt" and "error" events do to a promise of   *)
(* getTxReceipt, and "error" to one of getTxHash.                          *)
OnReceiptEvent(p, r) == IF p = Pending THEN Resolved(r) ELSE p
ReceiptOnErrorBug(p, r) ==                        \* settles only with a receipt
    IF p = Pending /\ r # NoReceipt THEN Resolved(r) ELSE p
ReceiptOnErrorLateBug(p, r) == IF p = Pending THEN Rejected ELSE p  \* whatever is known
ReceiptOnError(p, r) ==
    IF p # Pending THEN p ELSE IF r # NoReceipt THEN Resolved(r) ELSE Rejected
HashOnErrorBug(p) == IF p = "pending" /\ txHash THEN "resolved" ELSE p
HashOnError(p) ==
    IF p # "pending" THEN p ELSE IF txHash THEN "resolved" ELSE "rejected"

(* "transactionHash": callers armed by onceConfirmedReceipt ask now. *)
OnTransactionHash ==
    /\ ReportHash
    /\ txHash' = TRUE
    /\ txHashPromise' = IF txHashPromise = "pending" THEN "resolved" ELSE txHashPromise
    /\ callers' = [c \in Callers |->
                     IF callers[c].st = "armed" THEN AskConfirmed(callers[c].n)
                     ELSE callers[c]]
    /\ UNCHANGED <<signVars, sendVars, txReceipt, confirmationCount, sendError,
                   txReceiptPromise, listenerVars, eventVars>>

(* setReceipt(r): only the first receipt counts, and null is none. *)
SetReceiptBug(r) ==                      \* "if (receipt.status)"
    IF txReceipt = NoReceipt /\ r \in Receipts \ RevertedReceipts
    THEN txReceipt' = r /\ receiptEvents' = receiptEvents + 1
    ELSE UNCHANGED <<txReceipt, receiptEvents>>
SetReceipt(r) ==
    IF txReceipt = NoReceipt /\ r # NoReceipt
    THEN txReceipt' = r /\ receiptEvents' = receiptEvents + 1
    ELSE UNCHANGED <<txReceipt, receiptEvents>>

OnReceipt ==
    /\ ReportReceipt
    /\ SetReceipt(chainReceipt)
    /\ txReceiptPromise' = IF receiptEvents' # receiptEvents
                           THEN OnReceiptEvent(txReceiptPromise, chainReceipt)
                           ELSE txReceiptPromise
    /\ UNCHANGED <<signVars, sendVars, txHash, confirmationCount, sendError,
                   txHashPromise, callers, listenerVars, revertEvents, confEvents>>

(* The "confirmation" listeners left when web3 has emitted "error". *)
ListenersAfterError == 0

(* The error handler before and after its await of the receipt. *)
AwaitReceiptBug ==                       \* announces the revert first
    /\ errorHandler' = "lookup"
    /\ revertEvents' = revertEvents + 1
    /\ UNCHANGED <<txHashPromise, txReceiptPromise>>
AwaitReceipt ==
    /\ errorHandler' = "lookup"
    /\ UNCHANGED <<revertEvents, txHashPromise, txReceiptPromise>>
ListenAgainTwiceBug == confListeners' = confListeners + 2  \* addTxListeners again
ListenAgainBug == UNCHANGED confListeners                  \* no workaround
ListenAgain == confListeners' = confListeners + 1

(* "error", up to the await or the end.  web3 drops its listeners as soon  *)
(* as the emit returns, the one this handler just added included.          *)
OnError ==
    /\ ReportRefusal \/ ReportRevert \/ ReportGivenUp
    /\ sendError' = TRUE
    /\ confListeners' = ListenersAfterError
    /\ \/ /\ txHash /\ txReceipt = NoReceipt        \* awaits the receipt
          /\ AwaitReceipt
       \/ /\ ~txHash \/ txReceipt # NoReceipt
          /\ errorHandler' = "done"
          /\ revertEvents' = IF txHash THEN revertEvents + 1 ELSE revertEvents
          /\ txHashPromise' = HashOnError(txHashPromise)
          /\ txReceiptPromise' = ReceiptOnError(txReceiptPromise, txReceipt)
    /\ UNCHANGED <<signVars, sendVars, txHash, txReceipt, confirmationCount,
                   callers, receiptEvents, confEvents>>

(* getTransactionReceipt answers the error handler, which listens for      *)
(* confirmations again, then emits "txRevert" and "error".                 *)
LookupReturns ==
    /\ errorHandler = "lookup"
    /\ \E r \in {chainReceipt} \cup (IF LookupMayMiss THEN {NoReceipt} ELSE {}) :
          /\ SetReceipt(r)
          /\ txReceiptPromise' = ReceiptOnError(txReceiptPromise, txReceipt')
    /\ txHashPromise' = HashOnError(txHashPromise)
    /\ ListenAgain
    /\ revertEvents' = revertEvents + 1
    /\ errorHandler' = "done"
    /\ UNCHANGED <<promiVars, signVars, sendVars, txHash, confirmationCount,
                   sendError, callers, confEvents>>

(* ... or rejects: the handler ends there, "error" is never emitted. *)
LookupFails ==
    /\ LookupMayFail
    /\ errorHandler = "lookup"
    /\ errorHandler' = "crashed"
    /\ UNCHANGED <<promiVars, signVars, sendVars, fieldVars, promiseVars,
                   confListeners, eventVars>>

(* "confirmation" k, once per listener; a caller that waits for at most k  *)
(* gets this.txReceipt, not the receipt web3 passes.                       *)
ServedByBug(k) ==                        \* hands out web3's receipt
    [c \in Callers |->
        IF callers[c].st = "waiting" /\ k >= callers[c].n
        THEN [st |-> "resolved", n |-> callers[c].n, val |-> chainReceipt]
        ELSE callers[c]]
ServedBy(k) ==
    [c \in Callers |->
        IF callers[c].st = "waiting" /\ k >= callers[c].n
        THEN [st |-> "resolved", n |-> callers[c].n, val |-> txReceipt]
        ELSE callers[c]]

CountedBug(k) == k + 1                   \* counts from one
Counted(k) == k

OnConfirmation ==
    /\ confListeners > 0
    /\ ReportConfirmation
    /\ confirmationCount' = Counted(nextConfirmation)
    /\ confEvents' = [confEvents EXCEPT ![nextConfirmation] = @ + confListeners]
    /\ callers' = ServedBy(nextConfirmation)
    /\ UNCHANGED <<signVars, sendVars, txHash, txReceipt, sendError, txHashPromise,
                   txReceiptPromise, listenerVars, receiptEvents, revertEvents>>

(* The chain moves on its own. *)
Chain ==
    /\ Mine \/ Reorg
    /\ UNCHANGED <<signVars, sendVars, fieldVars, promiseVars, listenerVars, eventVars>>

-----------------------------------------------------------------------------
Senders == Accounts \cup {NoFrom}

Next ==
    \/ \E f \in Senders : Sign(f) \/ SendSigned(f) \/ SendUnsigned(f)
    \/ \E i \in 1 .. nSigns : SignatureDone(i) \/ SignatureFails(i)
    \/ SignatureReady
    \/ GetTxHash \/ GetTxReceipt
    \/ \E c \in Callers, n \in Targets :
          GetConfirmedReceipt(c, n) \/ OnceConfirmedReceipt(c, n)
    \/ OnTransactionHash \/ OnReceipt \/ OnError \/ OnConfirmation
    \/ LookupReturns \/ LookupFails
    \/ Chain

Spec == Init /\ [][Next]_vars

(* web3 answers every request: a signature, a hash or a refusal, then a    *)
(* receipt or an error (it gives up after its own timeout), the receipt    *)
(* lookup.  Confirmations follow as long as somebody listens for them.     *)
(* Nothing obliges a caller to do anything.                                *)
FirstReport == outcome = "none" /\ (OnTransactionHash \/ OnReceipt \/ OnError)

Fairness ==
    /\ \A i \in 1 .. MaxSigns : WF_vars(i <= nSigns /\ (SignatureDone(i) \/ SignatureFails(i)))
    /\ WF_vars(SignatureReady)
    /\ WF_vars(FirstReport)
    /\ WF_vars(LookupReturns \/ LookupFails)
    /\ WF_vars(OnConfirmation)

FairSpec == Spec /\ Fairness

-----------------------------------------------------------------------------
(* Safety *)

(* One Transaction object hands at most one transaction to web3, although  *)
(* send returns before a signed one is submitted and may be called again   *)
(* while the signature is awaited (lines 186-208).                         *)
NeverSentTwice == submissions <= 1

(* What goes out is the last signature asked for, by the sender that send  *)
(* names, even if an earlier signature arrives last and overwrites         *)
(* this.signedTx (lines 171-174, 195-206).                                 *)
SentAsSigned ==
    sentTx # 0 => /\ sentTx = nSigns
                  /\ signs[sentTx] = [st |-> "signed", from |-> from]

(* Every receipt handed out by getTxReceipt or getConfirmedReceipt is the  *)
(* one receipt of the object, also when the chain reorganised in between;  *)
(* "receipt" was emitted for it once (lines 261-317, 391-396).             *)
OneReceipt ==
    /\ receiptEvents = (IF txReceipt = NoReceipt THEN 0 ELSE 1)
    /\ txReceiptPromise.st = "resolved" =>
          txReceipt # NoReceipt /\ txReceiptPromise.val = txReceipt
    /\ \A c \in Callers : callers[c].val \in {txReceipt, NoReceipt}

(* Confirmations reach the application each once, in order and without a   *)
(* gap, across the error handler's re-registration of the listener that    *)
(* web3 dropped (lines 361-388).                                           *)
ConfirmationsOnce ==
    \A k \in 0 .. MaxConfirmations :
        confEvents[k] = IF k <= confirmationCount THEN 1 ELSE 0

(* No caller of getConfirmedReceipt(n) waits although confirmation n was   *)
(* counted, whichever of the two came first (lines 293-317).  Number 0 is  *)
(* the exception: the code takes a confirmationCount of 0 for none.        *)
ConfirmedAreServed ==
    \A c \in Callers :
        callers[c].st = "waiting" => confirmationCount <= 0 \/ confirmationCount < callers[c].n

(* Nobody is told of n confirmations, n > 0, before the receipt is known,  *)
(* if the node that confirms a transaction also knows its receipt.         *)
ConfirmedHasReceipt ==
    \A c \in Callers :
        callers[c].st = "resolved" /\ callers[c].n > 0 => callers[c].val # NoReceipt

(* When "txRevert" and "error" go out the object is final: no receipt is   *)
(* announced after it, so the receipt they carry is the receipt.           *)
RevertIsFinal == [][revertEvents > 0 => UNCHANGED <<txReceipt, receiptEvents>>]_vars

(* What the application sees of the object: its facts, and per promise the *)
(* answer.  Receipts are promised by getTxReceipt and to callers.   *)
AnswerTo(p) ==
    [st |-> IF p.st \in {"resolved", "rejected"} THEN p.st ELSE "open", val |-> p.val]

Promised == INSTANCE Submission WITH
    Askers <- Callers \cup {"getTxReceipt"},
    sent <- submissions,
    error <- sendError,
    hash <- txHash,
    receipt <- txReceipt,
    reverted <- revertEvents,
    hashAnswer <- IF txHashPromise \in {"resolved", "rejected"} THEN txHashPromise ELSE "open",
    answers <- [a \in Callers \cup {"getTxReceipt"} |->
                  AnswerTo(IF a = "getTxReceipt" THEN txReceiptPromise ELSE callers[a])]

(* The object does what module Submission promises: whatever is signed,    *)
(* asked, reported and looked up in between, a fact is learnt once, and an *)
(* answer agrees with all the facts of the moment (lines 155-396).         *)
KeepsItsPromises == Promised!Spec

(* Liveness, under FairSpec *)

(* Once web3 has the transaction, getTxHash settles. *)
HashSettles == (txHashPromise = "pending" /\ sending = "sent") ~> (txHashPromise # "pending")

(* So does getTxReceipt, if the error handler's lookup does not reject. *)
ReceiptSettles ==
    (txReceiptPromise = Pending /\ sending = "sent") ~> (txReceiptPromise # Pending)

(* A caller waiting for n confirmations gets an answer as long as web3     *)
(* polls, reverted transactions included (the workaround at line 370).     *)
ConfirmationsArrive ==
    \A c \in Callers :
        (callers[c].st = "waiting" /\ outcome # "none")
            ~> (callers[c].st # "waiting" \/ ~watching)

-----------------------------------------------------------------------------
(* What the class comment says and the code does not do *)

(* Lines 71-73: a reverted transaction has a receipt to check.  So asking  *)
(* for the receipt is not answered by an error once there is one.          *)
RejectedHasNoReceipt == txReceiptPromise = Rejected => txReceipt = NoReceipt

(* Line 76: these promises reject with sending errors.  So after "error"   *)
(* without a receipt nobody goes on waiting for confirmations.             *)
ErrorEndsWaiting ==
    errorHandler = "done" /\ txReceipt = NoReceipt
        => \A c \in Callers : callers[c].st # "waiting"
=============================================================================
