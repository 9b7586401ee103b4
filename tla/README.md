# augmint-js in TLA+

augmint-js is a TypeScript library over web3 1.0.0-beta.36. It keeps a
connection to an Ethereum node, wraps the Augmint contracts (token, exchange,
loan manager, rates), and gives out `Transaction` objects whose promises and
events tell an application what became of what it sent. This directory holds
TLA+ modules of the parts of it that keep state or compute something worth
arguing about, TLC runs over them, and TLAPS proofs.

Everything in the library runs on one JavaScript thread. What makes it hard is
the `await`: between any two of them every other callback may run, so a module's
action is what runs from one await (or event) to the next.

## 1. Inventory

| Part | State | Operations | Hard because |
|---|---|---|---|
| `Transaction.ts` | signed tx, isTxSent, hash, receipt, errors, memoised promises, confirmation count | sign, send, getTxHash, getTxReceipt, getConfirmedReceipt, onceConfirmedReceipt, handlers of web3's hash, receipt, confirmation and error events | handlers await inside; web3 drops all listeners after an error; signatures, events and questions come in any order |
| `EthereumConnection.ts` | isStopping, isTryingToReconnect, wasConnected, the check timer, provider | connect, stop, connection check, reconnect, provider end and error | calls overlap, promises time out while their insides go on, sockets are replaced, timers leak |
| `OrderBook` (in `Exchange.ts`) | sorted orders; the matching loop's indices, amounts, gas | getMatchingOrders, estimateMarketBuy, estimateMarketSell | rounding, gas limit, priority, which pairs cross |
| Page loops (`Exchange.ts`, `LoanManager.ts`) | page number, items so far | getOrders, getLoansForAccount, getAllLoans, getProducts | the chain changes between pages; page-size boundaries; zero-filled legacy pages |
| `LoanProduct.ts`, `Loan.ts`, `units.ts` | values only | loan calculation, due and collectable states, fixed-point arithmetic | rounding directions, time boundaries |
| `Augmint.ts`, `DeployedContract.ts`, `DeployedEnvironment.ts`, `AugmintToken.ts`, `Rates.ts`, the wrappers in `LoanManager.ts` and `Exchange.ts` | the environment, a map of loan managers, memoised promises, an instance cache shared by the process | create, exchanges latest and legacy, newEthBackedLoan, repayLoan, addExtraCollateral, collectLoans, getAllLoans, the token's getters | shared caches, memoised rejections, one address in several spellings, awaits between a look-up and its use |
| `sigintHandler.ts` | none | calls stop on a signal | as stop |
| logger, constants, errors, ABIs, generated types | none | none | not modelled |

How they interact: `Augmint` hands one `EthereumConnection` to every contract
wrapper; a wrapper makes `Transaction`s over that connection's web3; a
`Transaction` listens to the PromiEvent that web3 returns from `send`;
`Exchange.getMatchingOrders` reads the book with two page loops, computes pairs
with `OrderBook`, and the pairs go out in a `Transaction`. `PROJECT.json` lists
all components and, under "hazards", what is hard to test, with the line and the
property that covers it.

## 2. Modules

**PromiEvent** (external) is the web3 PromiEvent of one transaction and as much
of the chain as it reports on: submission, hash, refusal, mining, reorganisation,
receipt, revert, web3 giving up, confirmations numbered from 0. `watching` says
whether web3 still polls. It is modelled from how Transaction.ts uses it (the
comments at lines 361-377 tell the listener removal and the early confirmation).

**Transaction** is the object. The code's fields keep their names; a promise
holds `Pending`, `Rejected` or its value. Actions by code: `Sign`,
`SignatureDone/Fails` (153-184), `SendSigned`, `SignatureReady`, `SendUnsigned`
(186-226), `GetTxHash`, `GetTxReceipt`, `GetConfirmedReceipt`,
`OnceConfirmedReceipt` (228-348), `OnTransactionHash`, `OnReceipt`, `OnError` up
to its await, `LookupReturns/LookupFails` after it, `OnConfirmation` (350-396).
Receipts are model values, some of them reverted. An event of web3 and the
handlers it runs are one action, as no await lies between.

**Submission** is what Transaction promises, without signatures, listeners,
handlers or web3: a transaction is sent, gets a hash, fails, is included, is
reported reverted - each once and in an order that makes sense - and each promise
is answered once, with the receipt there is, or rejected after an error while there
is no receipt. `Promised` in Transaction maps the object to it (an error handler
that waits for its look-up has failed but not reverted yet), and
`KeepsItsPromises` is `Promised!Spec`.

**EthereumConnection** models every call of `connect` as a record with an inner
state (the executor that lives on after the timeout) and an outer state (the
promise the caller holds). Socket `s` is the one call `s` opened, or 1 for a
given provider, which gets another pair of listeners from each call. Timer `c`
is the interval of call `c`'s initialisation. `isConnected` answers for the
socket that was current when it was asked. Each call of `stop` is a record, too: how
far it got and which socket it asked, then closes. Nothing keeps the application from
calling `connect` while it is connected, while another connect runs or while stop
awaits; such a call clears `isStopping`, and the rest of stop closes the provider that
is current by then (a socket `closing` if it stood, `aborting` if it did not). The only
guards of `UserConnect` and `Stop` are the named bounds. Code to actions: `UserConnect`,
`ConnectAnswered`, `ConnectTimeout` (160-248), `InitDone/InitFails` (268-296),
`Stop`, `StopAnswered`, `StopTimeout` (250-266), `SocketEnds`, `SocketCloses`,
`ProviderError` (298-322), `Tick`, `CheckPasses`, `CheckFails` (328-362).
`SocketOpens` is the network.

**Session** is what an application may rely on when it keeps a connection, without
sockets, timers, listeners or requests: attempts to connect, by the application or
by the connection itself, each answered once, "resolved" only in the step in which
its own initialisation ends, which happens once; the connection comes up only by such
an initialisation, and tells the waiting attempts of a loss only when it was up; it
makes an attempt of its own only when it is down and the application's last word was not
stop; every stop is answered once. The application may connect and stop at any time.
Session does not say that a stopped connection stays down, nor that one which was
connected while a stop waits stays up, because neither is so (section 5). `Promised`
in EthereumConnection maps calls, their outer states, the initialisations that ended,
`wasConnected`, `isStopping` and the answers of stop to it, and `IsSession` is
`Promised!Spec`.

**Units** is the arithmetic of units.ts as pure operators: tokens, Wei and ratios
are their integer amounts, and each conversion rounds the way bn.js does it there
(`Mul` and `DivFloor` down, `MulCeil` and `Div` up, `ToWei` and `ToTokens` to the
nearest, halves up; `DivRound` is bn.js's own). OrderBook and Loans extend it, so both round alike.

**OrderBook** is the matching loop as a state machine (`Start`, `MatchPair`,
`Return`), from any sorted book. `EstimateMarketOrder` is the market order fold,
without `averagePrice`, one quotient of its totals.

**PagedFetch** is the page loop (`ReadPage`, `PageFails`) against a list that
the chain changes between pages: orders come and go, loans and products only
come, products are switched on and off. Legacy contracts fill their pages with
zeros. The four loops of the code are one module because they are one algorithm;
`kind` says which one it is.

**Loans** is what a borrower is told before a loan is taken and while it runs:
`CalculateLoanFromCollateral` and `CalculateLoanFromDisbursedAmount` of
LoanProduct.ts, and the predicates and the collateral calculations of Loan.ts. The
library computes them; the contract decides, so `TakeLoan`, `AddExtraCollateral`
and `Settle` are the contract's side (external, computing the loan from the
collateral as LoanManager.test.js:186 expects), `ChangeRate` and `Tick` are the
world, and `Quote` is the library's calculation. What is checked is that the two sides
agree although a quote is computed backwards from the disbursed amount, with
another rounding at each step. A quote's `repayBefore` (the clock plus the term) is
left out; the contract counts its own maturity.

**Augmint** is the facade and what it hands work to. `environment`, `loanManagers`
and `state` are the object's fields and how far `create` is; `instances` is
`connectedInstances` of DeployedContract.ts, which all objects of the process share;
`promises` are the ones that LoanManager (tokenAddress) and AugmintToken keep, per
object. A call is a record of what it does and of the transactions it returned.
Code to actions: `Create`, `Created`, `NotCreated` (create, the constructor,
`connect` of the contracts), `RepayLoan` and `Repaid`, `NewEthBackedLoan` and
`LoanCounted`, `GetAllLoans` and `GotAllLoans`, `GetFeeAccount` and `GotFeeAccount`
(each up to its await, and after), `AddExtraCollateral`, `CollectLoans`,
`PlaceOrder` (any of the exchange's transactions), `SetRate` (no await);
`NodeAnswers` and `NodeFails` settle a kept promise.
The fee account stands for all of AugmintToken's kept properties: their getters are
written alike. `TokenOf` is the chain's augmintToken of each loan manager and exchange.
The code asks the loan managers for theirs and never the exchanges: every exchange, a
legacy one too, is made with the latest token, and `PlaceOrder` does so.
Addresses are strings in the code, so an address here is a contract and a
spelling (lower case, checksum, as typed): `Lower` and `Checksum` do to it what
`toLowerCase` and `toChecksumAddress` do, and strings are compared as strings.
`Listed` is the order of the generated deployment list.

**Filter** is Array.filter over a sequence and a set of indices, shared by OrderBook
and PagedFetch. It is SelectSeq written as a recursive function, because the proofs
have to open it.

The `MC*` modules are what TLC runs; the `*Proofs` modules hold the proofs.
Operators whose name ends in `Bug` are plausible mistakes in the definition that
follows them. They are used nowhere, except that "mutants" in `PROJECT.json` names
each as a replacement that the stated property has to reject.

## 3. Runs

| Run | Shows |
|---|---|
| `tx_safety` | Transaction implements Submission; one submission at most; what was signed last is what is sent; one receipt, and confirmations with it; each confirmation counted once; no served caller is left behind; a revert is final |
| `tx_liveness` | with web3 reporting and the receipt lookup not rejecting, every promise settles, reverted transactions included |
| `tx_rejected_with_receipt` (violation) | getTxReceipt called inside the error handler's await is rejected for good, though the receipt arrives |
| `tx_waits_after_error` (violation) | getConfirmedReceipt called before a sending error waits for ever |
| `connection` | EthereumConnection implements Session, whatever the application calls while connect or stop awaits; watched when up; losses reported once by the check; a check does not reconnect after stop; connect and stop end; attempts follow until a provider is up |
| `conn_stop_undone` (violation) | an initialisation that overlaps stop brings the connection up again after it |
| `conn_late_answer` (violation) | a reconnect whose first question is answered too late leaves the connection uninitialised for good |
| `matching` | the loop's amounts, gas, priority and completeness; exact estimates |
| `matching_pairs_cross` (violation) | a pair whose sell price is above its buy price |
| `paged_fetch` | complete growing lists, no duplicate orders, no lost active product; a fetched book misses no more of the orders open throughout than orders left it meanwhile |
| `loans` | at the quoted rate the loan granted is at least the loan quoted, and the same loan if its collateral is worth more than it; extra collateral as calculated reaches its target; due states come one after the other |
| `facade` | two objects and two calls at once: each transaction goes to a deployment of the environment, by ABI and address, and that of the loan manager or exchange the call is about; a repayment goes through the manager's own token, a sell through the latest token, so through the exchange's own exactly if that is the latest; no deployed loan manager is denied; collectLoans puts each loan into one transaction, that of its manager, and makes one per spelling of an address; a repayment is rejected only if the token's address could not be had or names no token of the environment |

### Bounds, and why they are enough

* Transaction: two signatures (a race needs two), two accounts (the sender may
  mismatch; interchangeable, hence the symmetry), one reorganisation, a mined and a
  reverted receipt. For safety two callers, so that one can be served while
  the other waits or is rejected, each for confirmation 0, 1 or 2 of up to 3; for
  liveness one, as callers do not hold each other up. For safety the receipt
  lookup may reject but not come back empty: `ConfirmedHasReceipt` needs that,
  as the handler would go on without a receipt. For liveness it may come back
  empty but not reject, because a rejected lookup ends the handler (line 367)
  before it tells anybody: getTxReceipt then never settles.
* EthereumConnection: three calls of connect (the first, an attempt, and the
  attempt after it), of which the application makes up to two at any time (connected,
  connecting, or while stop awaits), two faults (a loss, and something going wrong with
  what repairs it), one stop, one check in flight per socket. A fault is a lost or
  closed socket, an answer later than its timeout, or a provider error. Two stops that
  overlap multiply the states by ten and are left to the proofs, which have any
  number of them.
* OrderBook: up to three orders a side and five in all, so four matches, every
  order of arrival, two prices, amounts that do and do not divide evenly, gas for
  none, two, or all of the matches. `E12` is 1 instead of 10^12: rounding gets
  worse, not better.
* PagedFetch: pages of two and at most five items: empty, partial, one full, full
  and partial, two full pages.
* Loans: the scales are 10 instead of 10^6 and 10^12, so every conversion has
  something to round; discounts below, at and above 1 (interest of both signs);
  ratios that give more and less collateral than loan, read both ways (with and without
  margin); two rates that divide nothing; six disbursed amounts and two collaterals.
  The clock counts to two past the maturity, with the two thresholds (7 and 3 days)
  in their order and the loan longer than both.

* Augmint: two objects, so that an instance of the process's cache is shared, and two
  calls, so that both wait for one promise. Three loan managers: one older and one
  current in the generated list, the older one also in a hand-made environment
  under an older ABI, so that one address has two instances, and one that no
  environment has. Two tokens, the first of them missing from the hand-made
  environment, so that a repayment finds none. Each address in the spellings that
  callers hold; all lists of up to two loans, and those of three around a loan of another
  manager, so that a group is split, joined and last. One exchange names an older token
  than the latest, the other the latest, so that both sides of the clause about sells
  are reached.
  Objects are interchangeable and so are calls, hence the symmetry.

Deadlock is not checked: a transaction that is final, a stopped connection, a
returned call stop, and a call of the facade is made once. In `connection` the bounds also stop calls and checks.

### Fairness

Transaction: web3 reports the first thing there is to report, signatures and
lookups are answered, and confirmations come as long as web3 polls; nothing
forces a caller to ask. EthereumConnection: requests are answered or rejected
(the node answers or the socket closes), a socket in the making opens, intervals
and timeouts fire (the JavaScript runtime), a socket that stop closes does close.
Losses, late answers and calls of the application are never forced.

## 4. Proofs

`TransactionProofs` proves, for any number of signatures, confirmations,
reorganisations, callers, accounts and receipts, every property of `tx_safety`:
the type invariant, one submission at most, sent as signed, the one receipt, the
once counted confirmations, the served callers, the final revert and the
implementation of Submission (`TypeCorrect`, `SentAtMostOnce`, `SentIsSigned`,
`ReceiptIsOne`, `ConfirmationsAreOnce`, `ConfirmedCallersServed`,
`RevertStaysFinal`, `Refinement`), and, if the look-up does not come back empty, that
nobody is told of a confirmation without its receipt
(`ConfirmedComesWithReceipt`). The other assumptions are those of the modules: `NoReceipt` is no
receipt, targets and bounds are natural numbers.

The properties are not inductive. `Inv` adds what they rest on:

* `SendInv`: how far sending is, from isTxSent to the submission, and that nothing
  is known of a transaction that was not submitted;
* `HashInv`: the hash, the phase of the chain and the getTxHash promise move together;
* `ErrorInv`: which part of the error handler has run, and that the receipt it
  carries and the receipt event exclude each other;
* `ListenerInv`: how many confirmation listeners there are in each state of the
  error handler, and how far web3 has counted against how far the object has.

The refinement needs two parts more: `ReportInv` (what the object knows agrees with what
web3 reported) and `OpenInv` (a promise without an answer carries no receipt). The
receipt with a confirmation needs `CountInv`: where a confirmation may still come
from, the receipt is known. Every step of Transaction is then one step of Submission
or none.

`InvStep` has one step per action. TLC checks the properties on every small
instance; the proofs make them independent of the bounds.

`UnitsProofs` has the lemmas about rounding: a quotient's bounds; rounding up
loses nothing; tokens converted to Wei and back, both to the nearest, are the
same tokens if the rate is at most the scale (`RoundTripReturns`). `FilterProofs`
has those about filtering: what is kept are elements of the sequence
(`KeptElements`), nothing that is to be kept is lost (`KeptAll`), a filter that keeps the
first m is the prefix (`KeptPrefix`). They go by induction over the length, from
the least element of a set of natural numbers (`LeastElement`, `SetInduction`). The
module also unrolls the folds of the library: FoldLeft over a sequence is what its steps
give, taken one by one from the first (`GreatestIndex`, `FoldExists`), so that what a
fold computes can be proved by an induction over those steps.

`OrderBookProofs`, for every book, rate, scale and gas limit: types, no overfill,
gas within the limit, fewer matches than orders, price and time priority, nothing left to match (`TypeCorrect`,
`NothingIsOverfilled`, `GasIsWithinLimit`, `MatchesAreFewerThanOrders`,
`PriorityIsKept`, `NothingIsLeftToMatch`). No overfill
rests on `RoundingNeverOverfills`: if b Wei are less than the rounded price of a
tokens, the tokens that b Wei buy, rounded again, are at most a. The invariant adds that
no amount is negative (`LoopInv`), that matches are counted by the indices
(`CountInv`), and what the gas of the next match is (`GasInv`). Priority and
completeness rest on two facts about the sorted book: prices go one way along a
side (`PricesFall`), so the filter by the other side's best price keeps a prefix of it
(`ClonesArePrefix`). `ProgressInv` says that the orders before an index are finished
and those behind it untouched, `CompleteInv` that the filter left out nothing that
crosses, and that the loop ends at the end of a side or of the gas. `EstimatesAreExact`
is about the market order estimate: its fold unrolled, the tokens filled after each offer
are those offered so far, up to the tokens asked for, and the limit price is that of the
offer which was taken last.

`PagedFetchProofs`, for every page size and number of items, whatever the chain does
between two pages: all five properties of the run (`TypeCorrect`,
`GrowingListIsComplete`, `NoOrderTwice`, `MissedAreBounded`,
`ActiveProductsAreReturned`), and that the loop makes at most one request more than
the items ever created fill pages (`RequestsAreBounded`). The invariant adds that the list has no item twice and how
it is ordered (`ListInv`), that while the loop goes on every page was full and
nothing that was read is listed behind the pages read (`FetchInv`), that items of
a growing list were read in order (`GrowingInv`), and that what stayed active was active
when read (`ActiveInv`). `ClosedUp` is the lemma that a list which closes a gap, either way,
moves no item back. What is missed is counted (`UnreadInFront`): an item that was open
throughout and not read is listed in front of the loop, and of the items listed
there at most as many were not read as items left the list.

`LoansProofs`, for every scale, product, rate, amount and term: the quoted loan is
granted, extra collateral reaches its target, due states come in order
(`TypeCorrect`, `QuotedLoanIsGranted`, `ExtraCollateralReachesTarget`,
`DueStatesInOrder`). The assumptions are the module's: rates are at most one token
unit per Wei, and the danger threshold is at least two seconds. The invariant
`QuoteInv` adds that a quote is one of the two calculations at the rate it names.

`EthereumConnectionProofs`, for any number of calls of connect and stop, checks in
flight and faults: types, resolved means initialised, watched when initialised,
a loss reported once by the check, no reconnection after stop, the implementation
of Session (`TypeCorrect`, `ResolvedAfterInitialisation`, `InitialisedIsWatched`,
`LossIsReportedOnce`, `StoppingIsNotUndone`, `Refinement`). The invariant adds that
calls not made yet are blank (`FreshInv`) and that the check has reported nothing as
long as the object counts as connected (`ReportInv`). Most steps only settle promises:
`Keeps` says what such a step may do to a call, and `KeepingIsSafe` is proved once for
all of them; `TimersEnded` is why an interval runs only for an initialisation that
ended. The refinement adds `SeenInv`: a call has an answer from the moment
it is made. It assumes nothing of when the application connects: what keeps the
connection's own attempts away after a stop is that `isStopping` is read again after the
check's await. `Settles` is what a step that only rejects may do to a call;
such steps are Session's `Fail` or nothing (`SettledSeen`), a call of connect is an
attempt (`ConnectSeen`), an initialisation that ends is that attempt's,
whichever calls listened for it (`InitDoneSeen`), and one "disconnected" ends every stop
that waits for it (`SomeStopsEnd`).

`AugmintProofs`, for any objects, environments, spellings, calls and failures: types,
every transaction goes to the deployment it is about, rejections have their cause, and
collectLoans puts every loan into one transaction (`TypeCorrect`, `EverythingGoesHome`,
`RejectionsHaveCauses`, `EveryLoanIsCollected`), which are all properties of `facade`.

* `EverythingGoesHome` rests on `HomeInv`: an object's map leads from an address in
  any spelling to an instance of a deployment at that address, and a call that waits
  has its manager. The token that repayLoan finds is the one the manager names,
  because `PromiseInv` says what a settled promise holds. Which connection an instance
  uses is no part of it, nor is any exchange's own token beyond the clause about sells.
* `RejectionsHaveCauses` rests on `CauseInv`, which stays true because a promise that
  failed stays failed (`FailuresStay`) and an object that is ready keeps its environment
  (`EnvironmentsStay`).
* `TypeCorrect` needs that instances are never dropped (`InstancesStay`, `ManagersStay`),
  or what an object's map and lists name would not be instances any more.
* `EveryLoanIsCollected` is about the fold of collectLoans over the sorted list. Its
  steps are unrolled (`JoinIsGroups`, `GroupsAreSteps`); each joins a loan to the last
  group or opens one, and because equal strings are neighbours in a sorted list no
  two groups have the same spelling (`GroupsAreGrouped`). That they are neighbours is
  what `Sorted` says of the engine's sort; the comparator, which never says "equal", is
  inconsistent, so the language does not promise it. Each step adds one to
  the number of places with its loan (`JoinCounts`), and sorting changes none of those
  numbers, since it is a permutation: one bijection per loan, between its places before
  and after, glued together (`SortedCounts`, `SortedIsList`). So each loan is served as often as it was
  listed (`LoansAreCollected`), and `CallsFine` carries that from one call's step to
  all calls.

Every safety property that a passing run checks is a theorem. Only model-checked is
liveness (`HashSettles`, `ReceiptSettles`, `ConfirmationsArrive`, `ConnectSettles`,
`StopEnds`, `Reopens`): fairness speaks of ENABLED, which is out of the prover's reach.

## 5. Where the code and its documentation part

The violation runs are the findings in `PROJECT.json`. The models show more, for
which there is no run: `send` without a sender, or a failed signature, leaves
getTxHash pending; a receipt look-up that rejects in the error handler loses the rest of
that handler; txRevert is emitted when web3 merely gives up; getConfirmedReceipt(0),
asked after confirmation 0, waits for confirmation 1; a late
initialisation clears isTryingToReconnect while an attempt runs, and two
overlapping ones start two intervals, one of which stop cannot clear; one loss
reaches the application both by the provider's event and by the check; the end of
a replaced socket is reported as a loss; a rejected initialisation has already
cleared the timer, so nothing tries again. `Watched` and `Reopens` except the
last one by name (`initCut`). A connect that is called while stop awaits is undone by the
rest of that stop, although the application's last word was connect; after such a
close the check reconnects. A stop that ends while an earlier initialisation goes on is
the run `conn_stop_undone`.

Of the facade: `Exchange.tokenPeggedSymbol` (Exchange.ts:204) is assigned nowhere, so
getMatchingOrders (line 245) asks for the rate of an undefined currency. A legacy
exchange gets the latest token, not its own, as the FIXME at Augmint.ts:190 admits, and
`ServedHome` says so. `safeBlockGasLimit` (line 213) is copied when the Exchange is
made and stays after a reconnect to another chain; `GasFits` holds for every limit. `create` that finds
no environment leaves its connection open with nobody to stop it. `collectLoans` sorts
the caller's array in place. A kept promise that was rejected rejects for good, and
only a new object asks again: `RejectedForCause` accepts that as a cause. A cached
instance keeps the web3 of the object that made it, whatever web3 a later `connect` of
the contract is given, also after that object's connection was stopped; no property
speaks of it.

## 6. Not modelled

Texts, logging, ABIs and generated types; the contracts themselves; web3 beyond
PromiEvent. Gas figures and parameters of the wrappers' transactions. Of the
facade: getLegacyTokens, getLegacyLoanManagers and connectWithEthers, which make
objects that nobody keeps; getMatchingOrders, which joins the page loops, the rate and
OrderBook and keeps nothing; getEthFiatRate and getAugmintRate, one request each;
static getters. Amounts are unbounded in bn.js, so there is no overflow; that
`parseInt` of ids and gas loses precision above 2^53 is outside any real value.

## 7. Plan

1. Done: Transaction over PromiEvent, refining Submission; EthereumConnection,
   refining Session; OrderBook; PagedFetch; Units; Loans; Augmint. Proofs of the safety
   properties of all of them.
2. Left: a composition of two page loops, the rate and OrderBook with a book that
   changes in the meantime (what the contract does with a match whose orders are gone is
   not in this code, so little beyond `MissedBounded` and the properties of
   `matching` can be said of it); Augmint over EthereumConnection, to say which
   connection a cached instance uses.
