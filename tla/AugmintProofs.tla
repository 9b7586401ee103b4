---------------------------- MODULE AugmintProofs ----------------------------
(***************************************************************************)
(* Proofs about module Augmint, for any number of objects, callers,        *)
(* environments, loan managers and loans.                                  *)
(***************************************************************************)
EXTENDS Augmint, FilterProofs, FiniteSetTheorems

USE DEF objectVars

-----------------------------------------------------------------------------
(* Promises that are kept *)

Values == {NoAddress} \cup {TokenOf[m] : m \in LoanManagers}
            \cup [of : {FeeAccount}, spelled : {"checksum"}]

PromiseType ==
    promises \in [Remembered -> [st : {"none", "asked", "known", "failed"}, val : Values]]

(* The address that is kept of a manager's token is what the chain says.   *)
FromChain ==
    \A k \in Remembered :
        promises[k].st = "known" /\ k[2] # FeeAccount => promises[k].val = TokenOf[k[2]]

PromiseInv == PromiseType /\ FromChain

(* A request that failed is not made again (LoanManager.ts 58-63).         *)
FailuresStay ==
    \A k \in Remembered : promises[k].st = "failed" => promises'[k].st = "failed"

(* A getter changes only a promise that is not there (LoanManager.ts       *)
(* 58-63).                                                                 *)
LEMMA AskStep ==
    ASSUME NEW ks, PromiseInv, Ask(ks)
    PROVE  PromiseInv' /\ FailuresStay
<1>1. PromiseType'
  BY DEF PromiseInv, PromiseType, Ask, MustAsk, Values
<1>2. ASSUME NEW k \in Remembered
      PROVE  /\ (promises[k].st = "known" /\ k[2] # FeeAccount => promises[k].val = TokenOf[k[2]])'
             /\ promises[k].st = "failed" => promises'[k].st = "failed"
  <2>1. CASE promises'[k] = promises[k]
    BY <2>1 DEF PromiseInv, FromChain
  <2>2. CASE promises[k].st = "none" /\ promises'[k] = [st |-> "asked", val |-> NoAddress]
    BY <2>2 DEF PromiseInv, FromChain
  <2> QED
    BY <2>1, <2>2 DEF Ask, MustAsk
<1> QED
  BY <1>1, <1>2 DEF PromiseInv, FromChain, FailuresStay

(* The node answers, or refuses to. *)
LEMMA NodeStep ==
    ASSUME PromiseInv, NEW k \in Remembered, NodeAnswers(k) \/ NodeFails(k)
    PROVE  PromiseInv' /\ FailuresStay
<1>1. OnChain(k) \in Values /\ (k[2] # FeeAccount => OnChain(k) = TokenOf[k[2]])
  BY DEF OnChain, Values, Remembered
<1>2. promises[k].st = "asked"
  BY DEF NodeAnswers, NodeFails
<1>3. PICK p \in [st : {"known", "failed"}, val : Values] :
         /\ promises' = [promises EXCEPT ![k] = p]
         /\ p.st = "known" => p.val = OnChain(k)
  <2>1. CASE NodeAnswers(k)
    <3>1. [st |-> "known", val |-> OnChain(k)] \in [st : {"known", "failed"}, val : Values]
      BY <1>1
    <3> QED
      BY <2>1, <3>1 DEF NodeAnswers
  <2>2. CASE NodeFails(k)
    <3>1. [st |-> "failed", val |-> NoAddress] \in [st : {"known", "failed"}, val : Values]
      BY DEF Values
    <3> QED
      BY <2>2, <3>1 DEF NodeFails
  <2> QED
    BY <2>1, <2>2
<1>4. PromiseType'
  BY <1>3 DEF PromiseInv, PromiseType
<1>5. FromChain'
  BY <1>1, <1>3 DEF PromiseInv, PromiseType, FromChain
<1>6. FailuresStay
  BY <1>2, <1>3 DEF PromiseInv, PromiseType, FailuresStay
<1> QED
  BY <1>4, <1>5, <1>6 DEF PromiseInv

(* Every action either asks, hears from the node, or leaves the promises   *)
(* alone.                                                                  *)
PromisesMove ==
    \/ UNCHANGED promises
    \/ \E ks : Ask(ks)
    \/ \E k \in Remembered : NodeAnswers(k) \/ NodeFails(k)

LEMMA StepMovesPromises ==
    ASSUME [Next]_vars
    PROVE  PromisesMove
<1>1. CASE UNCHANGED vars
  BY <1>1 DEF vars, PromisesMove
<1>2. ASSUME NEW o \in Objects, Create(o) \/ Created(o) \/ NotCreated(o) PROVE PromisesMove
  BY <1>2 DEF Create, Created, NotCreated, PromisesMove
<1>3. ASSUME NEW k \in Remembered, NodeAnswers(k) \/ NodeFails(k) PROVE PromisesMove
  BY <1>3 DEF NodeAnswers, NodeFails, PromisesMove
<1>4. ASSUME NEW c \in Callers, NEW o \in Objects, NEW loan \in Loans,
             RepayLoan(c, o, loan) \/ NewEthBackedLoan(c, o, loan) \/ AddExtraCollateral(c, o, loan)
      PROVE  PromisesMove
  BY <1>4 DEF RepayLoan, NewEthBackedLoan, AddExtraCollateral, PromisesMove
<1>5. ASSUME NEW c \in Callers, NEW o \in Objects, NEW loans \in LoanLists,
             CollectLoans(c, o, loans)
      PROVE  PromisesMove
  BY <1>5 DEF CollectLoans, PromisesMove
<1>6. ASSUME NEW c \in Callers, NEW o \in Objects, NEW at \in Exchanges, PlaceOrder(c, o, at)
      PROVE  PromisesMove
  BY <1>6 DEF PlaceOrder, PromisesMove
<1>7. ASSUME NEW c \in Callers, NEW o \in Objects,
             SetRate(c, o) \/ GetAllLoans(c, o) \/ GetFeeAccount(c, o)
      PROVE  PromisesMove
  BY <1>7 DEF SetRate, GetAllLoans, GetFeeAccount, PromisesMove
<1>8. ASSUME NEW c \in Callers, Repaid(c) \/ LoanCounted(c) \/ GotAllLoans(c) \/ GotFeeAccount(c)
      PROVE  PromisesMove
  BY <1>8 DEF Repaid, LoanCounted, GotAllLoans, GotFeeAccount, Ends, PromisesMove
<1> QED
  BY <1>1, <1>2, <1>3, <1>4, <1>5, <1>6, <1>7, <1>8, Zenon DEF Next

LEMMA PromisesKept ==
    ASSUME PromiseInv, [Next]_vars
    PROVE  PromiseInv' /\ FailuresStay
<1>1. CASE UNCHANGED promises
  BY <1>1 DEF PromiseInv, PromiseType, FromChain, FailuresStay
<1> QED
  BY <1>1, StepMovesPromises, AskStep, NodeStep DEF PromisesMove

LEMMA PromiseStep == PromiseInv /\ [Next]_vars => PromiseInv'
BY PromisesKept

LEMMA PromiseInit == Init => PromiseInv
BY DEF Init, PromiseInv, PromiseType, FromChain, Values

-----------------------------------------------------------------------------
(* Addresses and instances *)

(* Lower-case addresses are equal when they are the same contract's.       *)
LEMMA SameContract ==
    ASSUME NEW a, NEW b
    PROVE  Lower(a) = Lower(b) <=> a.of = b.of
BY DEF Lower

(* What find() finds in a list has the address asked for, in some spelling *)
(* (DeployedEnvironment.ts 70-79).                                         *)
LEMMA FoundIsThere ==
    ASSUME NEW list, NEW at, NEW n \in Nat, DOMAIN list = 1 .. n, Places(list, at) # {}
    PROVE  Found(list, at) \in Range(list) /\ Found(list, at).address.of = at.of
<1>1. Places(list, at) \in SUBSET Nat
  BY DEF Places
<1>2. \E i \in Places(list, at) : \A j \in Places(list, at) : i <= j
  BY <1>1, LeastElement
<1> DEFINE first == CHOOSE i \in Places(list, at) : \A j \in Places(list, at) : i <= j
<1>3. first \in Places(list, at)
  BY <1>2
<1>4. Found(list, at) = list[first]
  BY DEF Found
<1> HIDE DEF first
<1> QED
  BY <1>3, <1>4, SameContract DEF Places, Range

(* The last of the places, likewise. *)
LEMMA LastPlace ==
    ASSUME NEW list, NEW at, NEW n \in Nat, DOMAIN list = 1 .. n, Places(list, at) # {}
    PROVE  \E i \in Places(list, at) : \A j \in Places(list, at) : j <= i
<1> DEFINE T == {m \in 0 .. n : n - m \in Places(list, at)}
<1>1. T \in SUBSET Nat /\ T # {}
  <2>1. PICK i \in Places(list, at) : TRUE
    OBVIOUS
  <2>2. i \in 1 .. n
    BY DEF Places
  <2>3. n - i \in T
    BY <2>2
  <2> QED
    BY <2>3
<1>2. PICK m \in T : \A y \in T : m <= y
  BY <1>1, LeastElement
<1>3. ASSUME NEW j \in Places(list, at) PROVE j <= n - m
  <2>1. j \in 1 .. n
    BY DEF Places
  <2>2. n - j \in 0 .. n /\ n - (n - j) = j
    BY <2>1
  <2>3. n - j \in T
    BY <2>2
  <2>4. m \in 0 .. n /\ m <= n - j
    BY <1>2, <2>3
  <2> HIDE DEF T
  <2> QED
    BY <2>1, <2>4
<1> QED
  BY <1>2, <1>3

(* connect() returns an instance with the ABI and the address asked for,   *)
(* old or new (DeployedContract.ts 24-31).                                 *)
LEMMA InstanceFits ==
    ASSUME NEW o, NEW ds, NEW d \in ds
    PROVE  LET i == InstanceOf(d, Connected(o, ds))
           IN  i \in Connected(o, ds) /\ i.abi = d.abi /\ i.address = d.address
<1> DEFINE new == [abi |-> d.abi, address |-> d.address, web3 |-> o]
<1>1. \E i \in Connected(o, ds) : InstanceHash(i) = InstanceHash(d)
  <2>1. CASE \E i \in instances : InstanceHash(i) = InstanceHash(d)
    BY <2>1 DEF Connected
  <2>2. CASE \A i \in instances : InstanceHash(i) # InstanceHash(d)
    <3>1. new \in Connected(o, ds)
      BY <2>2 DEF Connected
    <3>2. InstanceHash(new) = InstanceHash(d)
      BY DEF InstanceHash
    <3> QED
      BY <3>1, <3>2
  <2> QED
    BY <2>1, <2>2
<1>2. LET i == InstanceOf(d, Connected(o, ds))
      IN  i \in Connected(o, ds) /\ InstanceHash(i) = InstanceHash(d)
  BY <1>1 DEF InstanceOf
<1> QED
  BY <1>2 DEF InstanceHash

(* What the constructor puts into its map (Augmint.ts 78-92). *)
Fits(i, d) == i.abi = d.abi /\ i.address = d.address

MapFits(map, list) ==
    /\ DOMAIN map = {Lower(list[i].address) : i \in DOMAIN list}
    /\ \A a \in DOMAIN map : \E d \in Range(list) : Fits(map[a], d) /\ Lower(d.address) = a

LEMMA MapIsRight ==
    ASSUME NEW o, NEW list, NEW n \in Nat, DOMAIN list = 1 .. n
    PROVE  MapFits(ManagerMap(list, Connected(o, Range(list))), list)
<1> DEFINE is == Connected(o, Range(list))
           map == ManagerMap(list, is)
           latter(a) == CHOOSE i \in Places(list, a) : \A j \in Places(list, a) : j <= i
<1>1. DOMAIN map = {Lower(list[i].address) : i \in DOMAIN list}
  BY DEF ManagerMap
<1>2. ASSUME NEW a \in DOMAIN map
      PROVE  \E d \in Range(list) : Fits(map[a], d) /\ Lower(d.address) = a
  <2>1. PICK k \in DOMAIN list : a = Lower(list[k].address)
    BY <1>1
  <2>2. Lower(a) = a
    BY <2>1 DEF Lower
  <2>3. k \in Places(list, a)
    BY <2>1, <2>2 DEF Places
  <2>4. latter(a) \in Places(list, a)
    BY <2>3, LastPlace
  <2>5. map[a] = InstanceOf(list[latter(a)], is)
    BY <1>1 DEF ManagerMap
  <2>6. list[latter(a)] \in Range(list) /\ Lower(list[latter(a)].address) = a
    BY <2>2, <2>4 DEF Places, Range
  <2>7. Fits(map[a], list[latter(a)])
    BY <2>5, <2>6, InstanceFits DEF Fits
  <2> QED
    BY <2>6, <2>7
<1> QED
  BY <1>1, <1>2 DEF MapFits

-----------------------------------------------------------------------------
(* Calls end at the contract they are about *)

(* What can be said of a call: while it waits for an answer about a loan,  *)
(* the manager is known, and its transactions are the right ones.          *)
Sound(op, o, at, st, txs) ==
    /\ op \in {"repay", "new"} /\ st = "waiting" => HasManager(o, at)
    /\ op \in {"repay", "new", "collateral"} /\ st = "thrown" => ~HasManager(o, at)
    /\ op # "collect" => \A tx \in Range(txs) : GoesHome(tx, o, op, at)

CallSound(c) ==
    \/ calls[c] = NoCall
    \/ /\ calls[c].o \in Objects /\ state[calls[c].o] = "ready"
       /\ Sound(calls[c].op, calls[c].o, calls[c].at, calls[c].st, calls[c].txs)

ObjectFits(o) ==
    state[o] = "ready" =>
        environment[o] \in Environments /\ MapFits(loanManagers[o], Managers(environment[o]))

HomeInv ==
    /\ DOMAIN calls = Callers
    /\ DOMAIN state = Objects /\ DOMAIN environment = Objects /\ DOMAIN loanManagers = Objects
    /\ \A o \in Objects : ObjectFits(o)
    /\ \A c \in Callers : CallSound(c)

LEMMA NoTransactions == Range(<<>>) = {}
BY DEF Range

LEMMA OneTransaction ==
    ASSUME NEW tx PROVE Range(<<tx>>) = {tx}
BY DEF Range

(* A known loan manager is the one of the environment.                     *)
LEMMA ManagerIsHome ==
    ASSUME HomeInv, NEW o \in Objects, state[o] = "ready", NEW at, HasManager(o, at)
    PROVE  /\ \E d \in Deployed(o) : Fits(Manager(o, at), d)
           /\ Manager(o, at).address.of = at.of
           /\ at.of \in LoanManagers
<1>1. environment[o] \in Environments /\ MapFits(loanManagers[o], Managers(environment[o]))
  BY DEF HomeInv, ObjectFits
<1>2. PICK d \in Range(Managers(environment[o])) :
         Fits(Manager(o, at), d) /\ Lower(d.address) = Lower(at)
  BY <1>1 DEF MapFits, HasManager, Manager
<1>3. d.address.of = at.of /\ Manager(o, at).address = d.address
  BY <1>2, SameContract DEF Fits
<1>4. d \in Deployed(o)
  <2>1. CASE "LoanManager" \in DOMAIN environment[o]
    BY <1>2, <2>1 DEF Managers, Deployed
  <2>2. CASE "LoanManager" \notin DOMAIN environment[o]
    BY <1>2, <2>2, NoTransactions DEF Managers
  <2> QED
    BY <2>1, <2>2
<1>5. d.address.of \in LoanManagers
  BY <1>1, <1>2, EnvironmentAssumption DEF EnvironmentAssumption
<1> QED
  BY <1>2, <1>3, <1>4, <1>5

(* What the assumption says of one list. *)
LEMMA ListsAreSequences ==
    ASSUME NEW e \in Environments, NEW name \in DOMAIN e
    PROVE  \E n \in Nat \ {0} : DOMAIN e[name] = 1 .. n
<1> DEFINE list == e[name]
<1>1. list \in Seq(Range(list)) /\ list # <<>>
  BY EnvironmentAssumption DEF EnvironmentAssumption
<1> HIDE DEF list
<1>2. Len(list) \in Nat \ {0} /\ DOMAIN list = 1 .. Len(list)
  BY <1>1
<1> QED
  BY <1>2 DEF list

(* A step that touches neither calls nor objects. *)
LEMMA OtherStep ==
    ASSUME HomeInv, UNCHANGED <<objectVars, calls>>
    PROVE  HomeInv'
BY DEF HomeInv, ObjectFits, CallSound, Sound, HasManager, GoesHome, Deployed, Latest

(* One call changes: the others stay sound. *)
LEMMA CallStep ==
    ASSUME HomeInv, UNCHANGED objectVars, NEW c \in Callers,
           NEW st, NEW op, NEW o \in Objects, NEW at, NEW loans, NEW txs,
           calls' = [calls EXCEPT ![c] = Call(st, op, o, at, loans, txs)],
           state[o] = "ready", Sound(op, o, at, st, txs)
    PROVE  HomeInv'
<1>1. ASSUME NEW op1, NEW o1, NEW at1, NEW st1, NEW txs1, Sound(op1, o1, at1, st1, txs1)
      PROVE  Sound(op1, o1, at1, st1, txs1)'
  BY <1>1 DEF Sound, HasManager, GoesHome, Deployed, Latest
<1>2. ASSUME NEW b \in Callers PROVE CallSound(b)'
  <2>1. CASE b = c
    <3>1. calls'[c] = Call(st, op, o, at, loans, txs)
      BY DEF HomeInv
    <3>2. /\ calls'[c].o = o /\ calls'[c].op = op /\ calls'[c].at = at
          /\ calls'[c].st = st /\ calls'[c].txs = txs
      BY <3>1 DEF Call
    <3>3. Sound(op, o, at, st, txs)'
      BY <1>1
    <3>4. Sound(calls[c].op, calls[c].o, calls[c].at, calls[c].st, calls[c].txs)'
      BY <3>2, <3>3 DEF Sound, HasManager, GoesHome, Deployed, Latest
    <3> QED
      BY <2>1, <3>2, <3>4 DEF CallSound
  <2>2. CASE b # c
    <3>1. calls'[b] = calls[b]
      BY <2>2 DEF HomeInv
    <3>2. CASE calls[b] = NoCall
      BY <3>1, <3>2 DEF CallSound, NoCall
    <3>3. CASE /\ calls[b].o \in Objects /\ state[calls[b].o] = "ready"
               /\ Sound(calls[b].op, calls[b].o, calls[b].at, calls[b].st, calls[b].txs)
      <4>1. Sound(calls[b].op, calls[b].o, calls[b].at, calls[b].st, calls[b].txs)'
        BY <3>1, <3>3 DEF Sound, HasManager, GoesHome, Deployed, Latest
      <4> QED
        BY <3>1, <3>3, <4>1 DEF CallSound
    <3> QED
      BY <3>2, <3>3 DEF HomeInv, CallSound
  <2> QED
    BY <2>1, <2>2
<1>3. DOMAIN calls' = Callers
  BY DEF HomeInv
<1> QED
  BY <1>2, <1>3 DEF HomeInv, ObjectFits

(* Objects are made one at a time, and nobody calls one that is not ready. *)
LEMMA ObjectStep ==
    ASSUME HomeInv, NEW o \in Objects, Create(o) \/ Created(o) \/ NotCreated(o)
    PROVE  HomeInv'
<1>1. state[o] # "ready" /\ UNCHANGED calls
  BY DEF Create, Created, NotCreated
<1>2. /\ DOMAIN state' = Objects /\ DOMAIN environment' = Objects /\ DOMAIN loanManagers' = Objects
      /\ \A p \in Objects \ {o} : /\ state'[p] = state[p] /\ environment'[p] = environment[p]
                                 /\ loanManagers'[p] = loanManagers[p]
  BY DEF Create, Created, NotCreated, HomeInv
<1>3. ASSUME NEW c \in Callers PROVE CallSound(c)'
  <2>1. CASE calls[c] = NoCall
    BY <1>1, <2>1 DEF CallSound, NoCall
  <2>2. CASE /\ calls[c].o \in Objects /\ state[calls[c].o] = "ready"
             /\ Sound(calls[c].op, calls[c].o, calls[c].at, calls[c].st, calls[c].txs)
    <3>1. calls[c].o \in Objects \ {o}
      BY <1>1, <2>2
    <3>2. Sound(calls[c].op, calls[c].o, calls[c].at, calls[c].st, calls[c].txs)'
      BY <1>1, <1>2, <2>2, <3>1 DEF Sound, HasManager, GoesHome, Deployed, Latest
    <3> QED
      BY <1>1, <1>2, <2>2, <3>1, <3>2 DEF CallSound
  <2> QED
    BY <2>1, <2>2 DEF HomeInv, CallSound
<1>4. ASSUME NEW p \in Objects \ {o} PROVE ObjectFits(p)'
  BY <1>2 DEF HomeInv, ObjectFits
<1>5. ObjectFits(o)'
  <2>1. CASE Create(o) \/ NotCreated(o)
    BY <2>1 DEF Create, NotCreated, ObjectFits, HomeInv
  <2>2. CASE Created(o)
    <3>1. PICK e \in Environments :
             /\ environment' = [environment EXCEPT ![o] = e]
             /\ instances' = Connected(o, Range(Managers(e)))
             /\ loanManagers' = [loanManagers EXCEPT ![o] = ManagerMap(Managers(e), instances')]
      BY <2>2 DEF Created
    <3>2. environment'[o] = e
          /\ loanManagers'[o] = ManagerMap(Managers(e), Connected(o, Range(Managers(e))))
      BY <3>1 DEF HomeInv
    <3>3. \E n \in Nat : DOMAIN Managers(e) = 1 .. n
      <4>1. CASE "LoanManager" \in DOMAIN e
        BY <4>1, ListsAreSequences DEF Managers
      <4>2. CASE "LoanManager" \notin DOMAIN e
        <5>1. Managers(e) = <<>>
          BY <4>2 DEF Managers
        <5> QED
          BY <5>1
      <4> QED
        BY <4>1, <4>2
    <3>4. MapFits(loanManagers'[o], Managers(e))
      BY <3>2, <3>3, MapIsRight
    <3> QED
      BY <3>2, <3>4 DEF ObjectFits
  <2> QED
    BY <2>1, <2>2
<1> QED
  BY <1>1, <1>2, <1>3, <1>4, <1>5 DEF HomeInv

(* A call that waits, and what may end it. *)
LEMMA WaitingCall ==
    ASSUME HomeInv, NEW c \in Callers, NEW op, Waits(c, op)
    PROVE  /\ calls[c].o \in Objects /\ state[calls[c].o] = "ready"
           /\ op \in {"repay", "new"} => HasManager(calls[c].o, calls[c].at)
BY DEF HomeInv, CallSound, NoCall, Call, Waits, Sound

LEMMA EndStep ==
    ASSUME HomeInv, NEW c \in Callers, NEW op, Waits(c, op), NEW st, NEW txs, Ends(c, st, txs),
           st \in {"done", "rejected"},
           \A tx \in Range(txs) : GoesHome(tx, calls[c].o, op, calls[c].at)
    PROVE  HomeInv'
<1>1. calls[c].o \in Objects /\ state[calls[c].o] = "ready" /\ calls[c].op = op
  BY WaitingCall DEF Waits
<1>2. Sound(calls[c].op, calls[c].o, calls[c].at, st, txs)
  BY <1>1 DEF Sound
<1>3. /\ UNCHANGED objectVars
      /\ calls' = [calls EXCEPT ![c] =
                     Call(st, calls[c].op, calls[c].o, calls[c].at, calls[c].loans, txs)]
  BY DEF Ends
<1> QED
  BY <1>1, <1>2, <1>3, CallStep

LEMMA BeginStep ==
    ASSUME HomeInv, NEW c \in Callers, NEW op, NEW o \in Objects, NEW at, NEW loans, NEW st, NEW txs,
           Begins(c, op, o, at, loans, st, txs), Sound(op, o, at, st, txs)
    PROVE  HomeInv'
BY CallStep DEF Begins

(* repayLoan after its await (Augmint.ts 234-240). *)
LEMMA RepaidStep ==
    ASSUME PromiseInv, HomeInv, NEW c \in Callers, Repaid(c)
    PROVE  HomeInv'
<1> DEFINE o == calls[c].o
           home == calls[c].at
           k == <<o, home.of>>
           tokens == environment[o]["TokenAEur"]
           token == Found(tokens, promises[k].val)
           tx == Tx("transferAndNotify", InstanceOf(token, instances'),
                    Checksum(Manager(o, home).address), <<calls[c].loans[1].id>>)
<1>1. Waits(c, "repay") /\ o \in Objects /\ state[o] = "ready" /\ HasManager(o, home)
  BY WaitingCall DEF Repaid
<1>2. CASE Ends(c, "rejected", <<>>)
  BY <1>1, <1>2, EndStep, NoTransactions
<1>3. CASE /\ promises[k].st = "known" /\ Places(tokens, promises[k].val) # {}
           /\ instances' = Connected(o, {token}) /\ Ends(c, "done", <<tx>>)
  <2>1. environment[o] \in Environments
    BY <1>1 DEF HomeInv, ObjectFits
  <2>2. "TokenAEur" \in DOMAIN environment[o] /\ \E n \in Nat : DOMAIN tokens = 1 .. n
    <3>1. "TokenAEur" \in DOMAIN environment[o]
      BY <2>1, EnvironmentAssumption DEF EnvironmentAssumption
    <3> QED
      BY <2>1, <3>1, ListsAreSequences
  <2>3. token \in Range(tokens) /\ token.address.of = promises[k].val.of
    BY <1>3, <2>2, FoundIsThere
  <2>4. token \in Deployed(o)
    BY <2>2, <2>3 DEF Deployed
  <2>5. Manager(o, home).address.of = home.of /\ home.of \in LoanManagers
    BY <1>1, ManagerIsHome
  <2>6. promises[k].val = TokenOf[home.of]
    <3>1. k \in Remembered /\ k[2] = home.of /\ k[2] # FeeAccount
      BY <1>1, <2>5, AugmintAssumption DEF AugmintAssumption, Remembered
    <3> QED
      BY <1>3, <3>1 DEF PromiseInv, FromChain
  <2>7. tx.to.abi = token.abi /\ tx.to.address = token.address
    BY <1>3, InstanceFits DEF Tx
  <2>8. tx.notify = Checksum(home)
    BY <2>5 DEF Tx, Checksum
  <2>9. tx.method = "transferAndNotify"
    BY DEF Tx
  <2> HIDE DEF tx, token, home, o
  <2>10. tx.to.address.of = TokenOf[home.of].of
    BY <2>3, <2>6, <2>7
  <2>11. GoesHome(tx, o, "repay", home)
    BY <2>4, <2>7, <2>8, <2>9, <2>10 DEF GoesHome, ThroughOwnToken
  <2>12. \A t \in Range(<<tx>>) : GoesHome(t, o, "repay", home)
    BY <2>11, OneTransaction
  <2> QED
    BY <1>1, <1>3, <2>12, EndStep DEF home, o
<1> QED
  BY <1>2, <1>3 DEF Repaid

(* newEthBackedLoan after its await (LoanManager.ts 79-99). *)
LEMMA LoanCountedStep ==
    ASSUME HomeInv, NEW c \in Callers, LoanCounted(c)
    PROVE  HomeInv'
<1> DEFINE o == calls[c].o
           home == calls[c].at
           tx == Tx("newEthBackedLoan", Manager(o, home), NoAddress, <<calls[c].loans[1].id>>)
<1>1. Waits(c, "new") /\ o \in Objects /\ state[o] = "ready" /\ HasManager(o, home)
  BY WaitingCall DEF LoanCounted
<1>2. CASE Ends(c, "rejected", <<>>)
  BY <1>1, <1>2, EndStep, NoTransactions
<1>3. CASE Ends(c, "done", <<tx>>)
  <2>1. (\E d \in Deployed(o) : Fits(Manager(o, home), d)) /\ Manager(o, home).address.of = home.of
    BY <1>1, ManagerIsHome
  <2>2. GoesHome(tx, o, "new", home)
    BY <2>1 DEF GoesHome, Tx, Fits
  <2>3. \A t \in Range(<<tx>>) : GoesHome(t, o, "new", home)
    BY <2>2, OneTransaction
  <2> QED
    BY <1>1, <1>3, <2>3, EndStep
<1> QED
  BY <1>2, <1>3 DEF LoanCounted

(* addExtraCollateral (Augmint.ts 296-299, LoanManager.ts 168-178). *)
LEMMA AddExtraCollateralStep ==
    ASSUME HomeInv, NEW c \in Callers, NEW o \in Objects, NEW loan \in Loans,
           AddExtraCollateral(c, o, loan)
    PROVE  HomeInv'
<1> DEFINE at == loan.at
           tx == Tx("addExtraCollateral", Manager(o, at), NoAddress, <<loan.id>>)
<1>1. CASE HasManager(o, at) /\ Begins(c, "collateral", o, at, <<loan>>, "done", <<tx>>)
  <2>1. state[o] = "ready"
    BY <1>1 DEF Begins
  <2>2. (\E d \in Deployed(o) : Fits(Manager(o, at), d)) /\ Manager(o, at).address.of = at.of
    BY <1>1, <2>1, ManagerIsHome
  <2>3. GoesHome(tx, o, "collateral", at)
    BY <2>2 DEF GoesHome, Tx, Fits
  <2>4. Sound("collateral", o, at, "done", <<tx>>)
    BY <2>3, OneTransaction DEF Sound
  <2> QED
    BY <1>1, <2>4, BeginStep
<1>2. CASE HasManager(o, at) /\ Begins(c, "collateral", o, at, <<loan>>, "refused", <<>>)
  <2>1. Sound("collateral", o, at, "refused", <<>>)
    BY NoTransactions DEF Sound
  <2> QED
    BY <1>2, <2>1, BeginStep
<1>3. CASE ~HasManager(o, at) /\ Begins(c, "collateral", o, at, <<loan>>, "thrown", <<>>)
  <2>1. Sound("collateral", o, at, "thrown", <<>>)
    BY <1>3, NoTransactions DEF Sound
  <2> QED
    BY <1>3, <2>1, BeginStep
<1> QED
  BY <1>1, <1>2, <1>3 DEF AddExtraCollateral

(* The latest contract of a name is one of the environment's. *)
LEMMA LatestIsDeployed ==
    ASSUME HomeInv, NEW o \in Objects, state[o] = "ready",
           NEW name \in {"TokenAEur", "Exchange", "Rates"}
    PROVE  Latest(o, name) \in Deployed(o)
<1>1. environment[o] \in Environments
  BY DEF HomeInv, ObjectFits
<1>2. name \in DOMAIN environment[o] /\ \E n \in Nat \ {0} : DOMAIN environment[o][name] = 1 .. n
  <2>1. name \in DOMAIN environment[o]
    BY <1>1, EnvironmentAssumption DEF EnvironmentAssumption
  <2> QED
    BY <1>1, <2>1, ListsAreSequences
<1>3. 1 \in DOMAIN environment[o][name]
  BY <1>2
<1>4. Latest(o, name) \in Range(environment[o][name])
  BY <1>3 DEF Latest, Range
<1> QED
  BY <1>2, <1>4 DEF Deployed

(* placeSellTokenOrder, placeBuyTokenOrder, matchMultipleOrders (Exchange.ts *)
(* 254-305).                                                                 *)
LEMMA PlaceOrderStep ==
    ASSUME HomeInv, NEW c \in Callers, NEW o \in Objects, NEW at \in Exchanges,
           PlaceOrder(c, o, at)
    PROVE  HomeInv'
<1> DEFINE exchanges == environment[o]["Exchange"]
           found == Found(exchanges, at)
           token == Latest(o, "TokenAEur")
           ds == {found, token, Latest(o, "Rates")}
           exchange == InstanceOf(found, instances')
           sold == Tx("transferAndNotify", InstanceOf(token, instances'),
                      Checksum(exchange.address), <<>>)
           bought == Tx("placeBuyTokenOrder", exchange, NoAddress, <<>>)
           matched == Tx("matchMultipleOrders", exchange, NoAddress, <<>>)
<1>1. ASSUME NEW st \in {"thrown", "refused"}, Begins(c, "order", o, at, <<>>, st, <<>>)
      PROVE  HomeInv'
  <2>1. Sound("order", o, at, st, <<>>)
    BY NoTransactions DEF Sound
  <2> QED
    BY <1>1, <2>1, BeginStep
<1>2. ASSUME HasExchange(o, at), instances' = Connected(o, ds),
             NEW tx \in {sold, bought, matched},
             Begins(c, "order", o, at, <<>>, "done", <<tx>>)
      PROVE  HomeInv'
  <2>1. state[o] = "ready"
    BY <1>2 DEF Begins
  <2>2. environment[o] \in Environments
    BY <2>1 DEF HomeInv, ObjectFits
  <2>3. "Exchange" \in DOMAIN environment[o] /\ \E n \in Nat : DOMAIN exchanges = 1 .. n
    <3>1. "Exchange" \in DOMAIN environment[o]
      BY <2>2, EnvironmentAssumption DEF EnvironmentAssumption
    <3> QED
      BY <2>2, <3>1, ListsAreSequences
  <2>4. Places(exchanges, at) # {}
    <3>1. Cardinality({}) = 0
      BY FS_EmptySet
    <3>2. Cardinality(Places(exchanges, at)) = 1
      BY <1>2 DEF HasExchange
    <3> HIDE DEF exchanges
    <3> QED
      BY <3>1, <3>2
  <2>5. found \in Range(exchanges) /\ found.address.of = at.of
    BY <2>3, <2>4, FoundIsThere
  <2>6. found \in Deployed(o) /\ token \in Deployed(o)
    BY <2>1, <2>3, <2>5, LatestIsDeployed DEF Deployed
  <2>7. exchange.abi = found.abi /\ exchange.address = found.address
    BY <1>2, InstanceFits
  <2>8. /\ InstanceOf(token, instances').abi = token.abi
        /\ InstanceOf(token, instances').address = token.address
    BY <1>2, InstanceFits
  <2>9. token = Latest(o, "TokenAEur")
    OBVIOUS
  <2> HIDE DEF found, token, exchange, ds
  <2>10. GoesHome(sold, o, "order", at)
    BY <2>5, <2>6, <2>7, <2>8, <2>9 DEF GoesHome, ThroughOwnToken, Tx, Checksum
  <2>11. GoesHome(bought, o, "order", at) /\ GoesHome(matched, o, "order", at)
    BY <2>5, <2>6, <2>7 DEF GoesHome, Tx
  <2>12. GoesHome(tx, o, "order", at)
    BY <1>2, <2>10, <2>11
  <2>13. Sound("order", o, at, "done", <<tx>>)
    BY <2>12, OneTransaction DEF Sound
  <2> QED
    BY <1>2, <2>13, BeginStep
<1>3. CASE HasExchange(o, at)
  BY <1>1, <1>2, <1>3 DEF PlaceOrder
<1>4. CASE ~HasExchange(o, at)
  BY <1>1, <1>4 DEF PlaceOrder
<1> QED
  BY <1>3, <1>4

(* setRate (Rates.ts 56-69). *)
LEMMA SetRateStep ==
    ASSUME HomeInv, NEW c \in Callers, NEW o \in Objects, SetRate(c, o)
    PROVE  HomeInv'
<1> DEFINE rates == Latest(o, "Rates")
           tx == Tx("setRate", InstanceOf(rates, instances'), NoAddress, <<>>)
<1>1. state[o] = "ready" /\ instances' = Connected(o, {rates})
      /\ Begins(c, "rate", o, NoAddress, <<>>, "done", <<tx>>)
  BY DEF SetRate
<1>2. rates \in Deployed(o)
  BY <1>1, LatestIsDeployed
<1>3. tx.to.abi = rates.abi /\ tx.to.address = rates.address
  BY <1>1, InstanceFits DEF Tx
<1>4. GoesHome(tx, o, "rate", NoAddress)
  BY <1>2, <1>3 DEF GoesHome
<1>5. Sound("rate", o, NoAddress, "done", <<tx>>)
  BY <1>4, OneTransaction DEF Sound
<1> QED
  BY <1>1, <1>5, BeginStep

LEMMA HomeStep == PromiseInv /\ HomeInv /\ [Next]_vars => HomeInv'
<1> SUFFICES ASSUME PromiseInv, HomeInv, [Next]_vars PROVE HomeInv'
  OBVIOUS
<1>1. CASE UNCHANGED vars
  BY <1>1, OtherStep DEF vars
<1>2. ASSUME NEW o \in Objects, Create(o) \/ Created(o) \/ NotCreated(o) PROVE HomeInv'
  BY <1>2, ObjectStep
<1>3. ASSUME NEW k \in Remembered, NodeAnswers(k) \/ NodeFails(k) PROVE HomeInv'
  BY <1>3, OtherStep DEF NodeAnswers, NodeFails
<1>4. ASSUME NEW c \in Callers, NEW o \in Objects, NEW loan \in Loans,
             RepayLoan(c, o, loan) \/ NewEthBackedLoan(c, o, loan) \/ AddExtraCollateral(c, o, loan)
      PROVE  HomeInv'
  <2>1. ASSUME NEW op \in {"repay", "new"},
               Begins(c, op, o, loan.at, <<loan>>,
                      IF HasManager(o, loan.at) THEN "waiting" ELSE "thrown", <<>>)
        PROVE  HomeInv'
    <3>1. Sound(op, o, loan.at, IF HasManager(o, loan.at) THEN "waiting" ELSE "thrown", <<>>)
      BY NoTransactions DEF Sound
    <3> QED
      BY <2>1, <3>1, BeginStep
  <2>2. CASE RepayLoan(c, o, loan)
    BY <2>1, <2>2 DEF RepayLoan
  <2>3. CASE NewEthBackedLoan(c, o, loan)
    BY <2>1, <2>3 DEF NewEthBackedLoan
  <2>4. CASE AddExtraCollateral(c, o, loan)
    BY <2>4, AddExtraCollateralStep
  <2> QED
    BY <1>4, <2>2, <2>3, <2>4
<1>5. ASSUME NEW c \in Callers, NEW o \in Objects, NEW loans \in LoanLists,
             CollectLoans(c, o, loans)
      PROVE  HomeInv'
  <2>1. ASSUME NEW st, NEW txs, Begins(c, "collect", o, NoAddress, loans, st, txs) PROVE HomeInv'
    <3>1. Sound("collect", o, NoAddress, st, txs)
      BY DEF Sound
    <3> QED
      BY <2>1, <3>1, BeginStep
  <2> QED
    BY <1>5, <2>1 DEF CollectLoans
<1>6. ASSUME NEW c \in Callers, NEW o \in Objects, NEW at \in Exchanges, PlaceOrder(c, o, at)
      PROVE  HomeInv'
  BY <1>6, PlaceOrderStep
<1>7. ASSUME NEW c \in Callers, NEW o \in Objects,
             SetRate(c, o) \/ GetAllLoans(c, o) \/ GetFeeAccount(c, o)
      PROVE  HomeInv'
  <2>1. ASSUME NEW op \in {"list", "fee"}, Begins(c, op, o, NoAddress, <<>>, "waiting", <<>>)
        PROVE  HomeInv'
    <3>1. Sound(op, o, NoAddress, "waiting", <<>>)
      BY NoTransactions DEF Sound
    <3> QED
      BY <2>1, <3>1, BeginStep
  <2>2. CASE SetRate(c, o)
    BY <2>2, SetRateStep
  <2>3. CASE GetAllLoans(c, o) \/ GetFeeAccount(c, o)
    BY <2>1, <2>3 DEF GetAllLoans, GetFeeAccount
  <2> QED
    BY <1>7, <2>2, <2>3
<1>8. ASSUME NEW c \in Callers, Repaid(c) \/ LoanCounted(c) \/ GotAllLoans(c) \/ GotFeeAccount(c)
      PROVE  HomeInv'
  <2>1. ASSUME NEW op \in {"list", "fee"}, Waits(c, op), NEW st \in {"done", "rejected"},
               Ends(c, st, <<>>)
        PROVE  HomeInv'
    BY <2>1, EndStep, NoTransactions
  <2>2. CASE Repaid(c)
    BY <2>2, RepaidStep
  <2>3. CASE LoanCounted(c)
    BY <2>3, LoanCountedStep
  <2>4. CASE GotAllLoans(c)
    BY <2>1, <2>4 DEF GotAllLoans
  <2>5. CASE GotFeeAccount(c)
    BY <2>1, <2>5 DEF GotFeeAccount
  <2> QED
    BY <1>8, <2>2, <2>3, <2>4, <2>5
<1> QED
  BY <1>1, <1>2, <1>3, <1>4, <1>5, <1>6, <1>7, <1>8, Zenon DEF Next

LEMMA HomeInit == Init => HomeInv
BY DEF Init, HomeInv, ObjectFits, CallSound

(* A loan, an order or a rate goes to the contract it belongs to, however  *)
(* its address was spelled, whichever object connected first, and whatever *)
(* happened while the token's address was awaited (Augmint.ts 231-311).  A *)
(* repayment goes through the manager's own token; a sell through the      *)
(* latest token, so through its exchange's own only if that is the latest  *)
(* (Augmint.ts 189-190).  The connection it is sent through is not claimed.*)
THEOREM EverythingGoesHome == Spec => []ServedHome
<1>1. HomeInv => ServedHome
  <2> SUFFICES ASSUME HomeInv, NEW c \in Callers
               PROVE  /\ calls[c].op # "collect" =>
                            \A tx \in Range(calls[c].txs) :
                                GoesHome(tx, calls[c].o, calls[c].op, calls[c].at)
                      /\ calls[c].op \in {"repay", "new", "collateral"} /\ calls[c].st = "thrown" =>
                            \A d \in Range(Managers(environment[calls[c].o])) :
                                d.address.of # calls[c].at.of
    BY DEF ServedHome
  <2>1. CASE calls[c] = NoCall
    <3>1. calls[c].op = "none" /\ calls[c].txs = <<>>
      BY <2>1 DEF NoCall, Call
    <3> QED
      BY <3>1, NoTransactions
  <2>2. CASE /\ calls[c].o \in Objects /\ state[calls[c].o] = "ready"
             /\ Sound(calls[c].op, calls[c].o, calls[c].at, calls[c].st, calls[c].txs)
    <3>1. ASSUME NEW d \in Range(Managers(environment[calls[c].o])), d.address.of = calls[c].at.of
          PROVE  HasManager(calls[c].o, calls[c].at)
      <4>1. MapFits(loanManagers[calls[c].o], Managers(environment[calls[c].o]))
        BY <2>2 DEF HomeInv, ObjectFits
      <4>2. Lower(d.address) = Lower(calls[c].at)
        BY <3>1, SameContract
      <4>3. Lower(d.address) \in DOMAIN loanManagers[calls[c].o]
        BY <3>1, <4>1 DEF MapFits, Range
      <4> QED
        BY <4>2, <4>3 DEF HasManager
    <3> QED
      BY <2>2, <3>1 DEF Sound
  <2> QED
    BY <2>1, <2>2 DEF HomeInv, CallSound
<1> QED
  BY <1>1, HomeInit, HomeStep, PromiseInit, PromiseStep, PTL DEF Spec

-----------------------------------------------------------------------------
(* Rejections *)

(* Why a repayment is rejected, why a question for the fee account is. *)
RepayFails(o, at) ==
    \/ <<o, at.of>> \in Remembered /\ promises[<<o, at.of>>].st = "failed"
    \/ \A d \in Range(environment[o]["TokenAEur"]) : d.address.of # TokenOf[at.of].of

FeeFails(o) == <<o, FeeAccount>> \in Remembered /\ promises[<<o, FeeAccount>>].st = "failed"

CauseInv ==
    \A c \in Callers : calls[c].st = "rejected" =>
        /\ calls[c].op = "repay" => RepayFails(calls[c].o, calls[c].at)
        /\ calls[c].op = "fee" => FeeFails(calls[c].o)

(* What any step does to one call: nothing, something that is no           *)
(* rejection, or the end of an await.                                      *)
CallMoves(b) ==
    \/ calls'[b] = calls[b] \/ calls'[b].st # "rejected"
    \/ calls'[b].op \in {"new", "list"}
    \/ Repaid(b) \/ GotFeeAccount(b)

LEMMA BeginsMoves ==
    ASSUME HomeInv, NEW b \in Callers, NEW c \in Callers, NEW op, NEW o, NEW at, NEW loans, NEW st, NEW txs,
           st # "rejected", Begins(c, op, o, at, loans, st, txs)
    PROVE  CallMoves(b)
<1>1. CASE b = c
  BY <1>1 DEF HomeInv, Begins, Call, CallMoves
<1>2. CASE b # c
  BY <1>2 DEF HomeInv, Begins, CallMoves
<1> QED
  BY <1>1, <1>2

LEMMA EndsMoves ==
    ASSUME HomeInv, NEW b \in Callers, NEW c \in Callers, NEW op \in {"new", "list"}, Waits(c, op),
           NEW st, NEW txs, Ends(c, st, txs)
    PROVE  CallMoves(b)
<1>1. CASE b = c
  BY <1>1 DEF HomeInv, Waits, Ends, Call, CallMoves
<1>2. CASE b # c
  BY <1>2 DEF HomeInv, Ends, CallMoves
<1> QED
  BY <1>1, <1>2

LEMMA CallsMove ==
    ASSUME HomeInv, [Next]_vars, NEW b \in Callers
    PROVE  CallMoves(b)
<1>1. CASE UNCHANGED vars
  BY <1>1 DEF vars, CallMoves
<1>2. ASSUME NEW o \in Objects, Create(o) \/ Created(o) \/ NotCreated(o) PROVE CallMoves(b)
  BY <1>2 DEF Create, Created, NotCreated, CallMoves
<1>3. ASSUME NEW k \in Remembered, NodeAnswers(k) \/ NodeFails(k) PROVE CallMoves(b)
  BY <1>3 DEF NodeAnswers, NodeFails, CallMoves
<1>4. ASSUME NEW c \in Callers, NEW o \in Objects, NEW loan \in Loans,
             RepayLoan(c, o, loan) \/ NewEthBackedLoan(c, o, loan) \/ AddExtraCollateral(c, o, loan)
      PROVE  CallMoves(b)
  <2>1. CASE RepayLoan(c, o, loan)
    BY <2>1, BeginsMoves DEF RepayLoan
  <2>2. CASE NewEthBackedLoan(c, o, loan)
    BY <2>2, BeginsMoves DEF NewEthBackedLoan
  <2>3. CASE AddExtraCollateral(c, o, loan)
    BY <2>3, BeginsMoves DEF AddExtraCollateral
  <2> QED
    BY <1>4, <2>1, <2>2, <2>3
<1>5. ASSUME NEW c \in Callers, NEW o \in Objects, NEW loans \in LoanLists,
             CollectLoans(c, o, loans)
      PROVE  CallMoves(b)
  BY <1>5, BeginsMoves DEF CollectLoans
<1>6. ASSUME NEW c \in Callers, NEW o \in Objects, NEW at \in Exchanges, PlaceOrder(c, o, at)
      PROVE  CallMoves(b)
  <2>1. ASSUME NEW st \in {"thrown", "refused", "done"}, NEW txs,
               Begins(c, "order", o, at, <<>>, st, txs)
        PROVE  CallMoves(b)
    BY <2>1, BeginsMoves
  <2> QED
    BY <1>6, <2>1 DEF PlaceOrder
<1>7. ASSUME NEW c \in Callers, NEW o \in Objects,
             SetRate(c, o) \/ GetAllLoans(c, o) \/ GetFeeAccount(c, o)
      PROVE  CallMoves(b)
  BY <1>7, BeginsMoves DEF SetRate, GetAllLoans, GetFeeAccount
<1>8. ASSUME NEW c \in Callers, Repaid(c) \/ LoanCounted(c) \/ GotAllLoans(c) \/ GotFeeAccount(c)
      PROVE  CallMoves(b)
  <2>1. CASE Repaid(c) \/ GotFeeAccount(c)
    <3>1. CASE b = c
      BY <2>1, <3>1 DEF CallMoves
    <3>2. CASE b # c
      BY <2>1, <3>2 DEF HomeInv, Repaid, GotFeeAccount, Ends, CallMoves
    <3> QED
      BY <3>1, <3>2
  <2>2. CASE LoanCounted(c)
    BY <2>2, EndsMoves DEF LoanCounted
  <2>3. CASE GotAllLoans(c)
    BY <2>3, EndsMoves DEF GotAllLoans
  <2> QED
    BY <1>8, <2>1, <2>2, <2>3
<1> QED
  BY <1>1, <1>2, <1>3, <1>4, <1>5, <1>6, <1>7, <1>8, Zenon DEF Next

(* An object that is ready keeps its environment.                          *)
LEMMA EnvironmentsStay ==
    ASSUME HomeInv, [Next]_vars, NEW o \in Objects, state[o] = "ready"
    PROVE  environment'[o] = environment[o]
<1>0. ASSUME UNCHANGED objectVars PROVE environment'[o] = environment[o]
  BY <1>0
<1>1. CASE UNCHANGED vars
  BY <1>1 DEF vars
<1>2. ASSUME NEW p \in Objects, Create(p) \/ Created(p) \/ NotCreated(p)
      PROVE  environment'[o] = environment[o]
  <2>1. p # o
    BY <1>2 DEF Create, Created, NotCreated
  <2> QED
    BY <1>2, <2>1 DEF Create, Created, NotCreated, HomeInv
<1>3. ASSUME NEW k \in Remembered, NodeAnswers(k) \/ NodeFails(k)
      PROVE  environment'[o] = environment[o]
  BY <1>3 DEF NodeAnswers, NodeFails
<1>4. ASSUME NEW c \in Callers, NEW p \in Objects, NEW loan \in Loans,
             RepayLoan(c, p, loan) \/ NewEthBackedLoan(c, p, loan) \/ AddExtraCollateral(c, p, loan)
      PROVE  environment'[o] = environment[o]
  BY <1>4 DEF RepayLoan, NewEthBackedLoan, AddExtraCollateral, Begins
<1>5. ASSUME NEW c \in Callers, NEW p \in Objects, NEW loans \in LoanLists,
             CollectLoans(c, p, loans)
      PROVE  environment'[o] = environment[o]
  BY <1>5 DEF CollectLoans, Begins
<1>6. ASSUME NEW c \in Callers, NEW p \in Objects, NEW at \in Exchanges, PlaceOrder(c, p, at)
      PROVE  environment'[o] = environment[o]
  BY <1>6 DEF PlaceOrder, Begins
<1>7. ASSUME NEW c \in Callers, NEW p \in Objects,
             SetRate(c, p) \/ GetAllLoans(c, p) \/ GetFeeAccount(c, p)
      PROVE  environment'[o] = environment[o]
  BY <1>7 DEF SetRate, GetAllLoans, GetFeeAccount, Begins
<1>8. ASSUME NEW c \in Callers, Repaid(c) \/ LoanCounted(c) \/ GotAllLoans(c) \/ GotFeeAccount(c)
      PROVE  environment'[o] = environment[o]
  BY <1>8 DEF Repaid, LoanCounted, GotAllLoans, GotFeeAccount, Ends
<1> QED
  BY <1>1, <1>2, <1>3, <1>4, <1>5, <1>6, <1>7, <1>8, Zenon DEF Next

(* What a call was rejected for stays so.                                  *)
LEMMA CausesStay ==
    ASSUME HomeInv, PromiseInv, [Next]_vars, NEW o \in Objects, state[o] = "ready", NEW at
    PROVE  /\ RepayFails(o, at) => RepayFails(o, at)'
           /\ FeeFails(o) => FeeFails(o)'
<1>1. environment'[o] = environment[o]
  BY EnvironmentsStay
<1>2. FailuresStay
  BY PromisesKept
<1> QED
  BY <1>1, <1>2 DEF RepayFails, FeeFails, FailuresStay

(* repayLoan after its await, when it rejects (Augmint.ts 234-237).        *)
LEMMA RepayHasCause ==
    ASSUME HomeInv, PromiseInv, NEW c \in Callers, Repaid(c), calls'[c].st = "rejected"
    PROVE  RepayFails(calls[c].o, calls[c].at)
<1> DEFINE o == calls[c].o
           home == calls[c].at
           k == <<o, home.of>>
           tokens == environment[o]["TokenAEur"]
<1>1. Waits(c, "repay") /\ o \in Objects /\ state[o] = "ready" /\ HasManager(o, home)
  BY WaitingCall DEF Repaid
<1>2. home.of \in LoanManagers
  BY <1>1, ManagerIsHome
<1>3. k \in Remembered /\ k[2] = home.of /\ k[2] # FeeAccount
  BY <1>1, <1>2, AugmintAssumption DEF AugmintAssumption, Remembered
<1>4. CASE promises[k].st = "failed"
  BY <1>3, <1>4 DEF RepayFails
<1>5. CASE promises[k].st = "known" /\ Places(tokens, promises[k].val) = {}
  <2>1. promises[k].val = TokenOf[home.of]
    BY <1>3, <1>5 DEF PromiseInv, FromChain
  <2>2. ASSUME NEW d \in Range(tokens), d.address.of = TokenOf[home.of].of PROVE FALSE
    <3>1. PICK i \in DOMAIN tokens : d = tokens[i]
      BY DEF Range
    <3>2. Lower(tokens[i].address) = Lower(promises[k].val)
      BY <2>1, <2>2, <3>1, SameContract
    <3> QED
      BY <1>5, <3>1, <3>2 DEF Places
  <2> QED
    BY <2>2 DEF RepayFails
<1>6. CASE promises[k].st = "known" /\ Places(tokens, promises[k].val) # {}
  <2>1. PICK txs : Ends(c, "done", txs)
    BY <1>6 DEF Repaid
  <2>2. calls'[c].st = "done"
    BY <2>1 DEF HomeInv, Ends, Call
  <2> QED
    BY <2>2
<1> QED
  BY <1>4, <1>5, <1>6 DEF Repaid

(* feeAccountAddress, when it rejects (AugmintToken.ts 60-65).             *)
LEMMA FeeHasCause ==
    ASSUME HomeInv, NEW c \in Callers, GotFeeAccount(c), calls'[c].st = "rejected"
    PROVE  FeeFails(calls[c].o)
<1> DEFINE k == <<calls[c].o, FeeAccount>>
<1>1. calls[c].o \in Objects
  BY WaitingCall DEF GotFeeAccount
<1>2. k \in Remembered
  BY <1>1 DEF Remembered
<1>3. CASE promises[k].st = "failed"
  BY <1>2, <1>3 DEF FeeFails
<1>4. CASE promises[k].st = "known"
  <2>1. Ends(c, "done", <<>>)
    BY <1>4 DEF GotFeeAccount
  <2>2. calls'[c].st = "done"
    BY <2>1 DEF HomeInv, Ends, Call
  <2> QED
    BY <2>2
<1> QED
  BY <1>3, <1>4 DEF GotFeeAccount

LEMMA CauseStep == HomeInv /\ PromiseInv /\ CauseInv /\ [Next]_vars => CauseInv'
<1> SUFFICES ASSUME HomeInv, PromiseInv, CauseInv, [Next]_vars,
                    NEW c \in Callers, calls'[c].st = "rejected"
             PROVE  /\ calls'[c].op = "repay" => RepayFails(calls[c].o, calls[c].at)'
                    /\ calls'[c].op = "fee" => FeeFails(calls[c].o)'
  BY DEF CauseInv
<1> PICK o, at : o = calls[c].o /\ at = calls[c].at
  OBVIOUS
<1>0. ASSUME o \in Objects, state[o] = "ready", calls'[c].o = o, calls'[c].at = at,
             calls'[c].op = "repay" => RepayFails(o, at), calls'[c].op = "fee" => FeeFails(o)
      PROVE  /\ calls'[c].op = "repay" => RepayFails(calls[c].o, calls[c].at)'
             /\ calls'[c].op = "fee" => FeeFails(calls[c].o)'
  <2>1. /\ calls'[c].op = "repay" => RepayFails(o, at)'
        /\ calls'[c].op = "fee" => FeeFails(o)'
    BY <1>0, CausesStay
  <2> QED
    BY <1>0, <2>1 DEF RepayFails, FeeFails
<1>1. CASE calls'[c] = calls[c]
  <2>1. o \in Objects /\ state[o] = "ready"
    BY <1>1 DEF HomeInv, CallSound, NoCall, Call
  <2>2. /\ calls[c].op = "repay" => RepayFails(o, at)
        /\ calls[c].op = "fee" => FeeFails(o)
    BY <1>1 DEF CauseInv
  <2> QED
    BY <1>0, <1>1, <2>1, <2>2
<1>2. CASE calls'[c].op \in {"new", "list"}
  BY <1>2
<1>3. CASE Repaid(c)
  <2>1. Waits(c, "repay") /\ o \in Objects /\ state[o] = "ready"
    BY <1>3, WaitingCall DEF Repaid
  <2>2. RepayFails(o, at)
    BY <1>3, RepayHasCause
  <2>3. calls'[c].op = "repay" /\ calls'[c].o = o /\ calls'[c].at = at
    BY <1>3, <2>1 DEF HomeInv, Repaid, Waits, Ends, Call
  <2> QED
    BY <1>0, <2>1, <2>2, <2>3
<1>4. CASE GotFeeAccount(c)
  <2>1. Waits(c, "fee") /\ o \in Objects /\ state[o] = "ready"
    BY <1>4, WaitingCall DEF GotFeeAccount
  <2>2. FeeFails(o)
    BY <1>4, FeeHasCause
  <2>3. calls'[c].op = "fee" /\ calls'[c].o = o /\ calls'[c].at = at
    BY <1>4, <2>1 DEF HomeInv, GotFeeAccount, Waits, Ends, Call
  <2> QED
    BY <1>0, <2>1, <2>2, <2>3
<1> QED
  BY <1>1, <1>2, <1>3, <1>4, CallsMove DEF CallMoves

LEMMA CauseInit == Init => CauseInv
BY DEF Init, CauseInv, NoCall, Call

(* A repayment is rejected only if the one request for its manager's token *)
(* failed, or the environment has no such token in any spelling, whatever  *)
(* other calls and objects did meanwhile (Augmint.ts 231-240,              *)
(* LoanManager.ts 58-63, DeployedEnvironment.ts 57-79).                    *)
THEOREM RejectionsHaveCauses == Spec => []RejectedForCause
<1>1. CauseInv => RejectedForCause
  BY DEF CauseInv, RepayFails, FeeFails, RejectedForCause
<1> QED
  BY <1>1, HomeInit, HomeStep, PromiseInit, PromiseStep, CauseInit, CauseStep, PTL DEF Spec

-----------------------------------------------------------------------------
(* collectLoans: from the list to the groups *)

(* The steps of the loop, from the first loan to the last.                 *)
GroupSteps(g, loans) ==
    /\ g[0] = <<>>
    /\ \A n \in 1 .. Len(loans) : g[n] = Join(g[n - 1], loans[n])

LEMMA Replaced ==
    ASSUME NEW T, NEW s \in Seq(T), NEW i \in 1 .. Len(s), NEW x \in T
    PROVE  LET r == [s EXCEPT ![i] = x]
           IN  /\ r \in Seq(T) /\ Len(r) = Len(s) /\ r[i] = x
               /\ \A j \in 1 .. Len(s) : j # i => r[j] = s[j]
<1>1. [s EXCEPT ![i] = x] \in [1 .. Len(s) -> T] /\ Len(s) \in Nat
  OBVIOUS
<1>2. [s EXCEPT ![i] = x] \in Seq(T)
  BY <1>1
<1> QED
  BY <1>1, <1>2

LEMMA JoinIsGroups ==
    ASSUME NEW S, NEW groups \in Seq(Seq(S)), NEW loan \in S
    PROVE  Join(groups, loan) \in Seq(Seq(S))
<1>1. <<loan>> \in Seq(S)
  OBVIOUS
<1>2. CASE groups # <<>> /\ groups[Len(groups)][1].at = loan.at
  <2>1. Len(groups) \in 1 .. Len(groups)
    BY <1>2
  <2>2. groups[Len(groups)] \in Seq(S)
    BY <2>1
  <2>3. Append(groups[Len(groups)], loan) \in Seq(S)
    BY <2>2
  <2>4. [groups EXCEPT ![Len(groups)] = Append(@, loan)] \in Seq(Seq(S))
    BY <2>1, <2>3, Replaced, Zenon
  <2> QED
    BY <1>2, <2>4 DEF Join
<1>3. CASE ~(groups # <<>> /\ groups[Len(groups)][1].at = loan.at)
  <2>1. Append(groups, <<loan>>) \in Seq(Seq(S))
    BY <1>1
  <2> QED
    BY <1>3, <2>1 DEF Join
<1> QED
  BY <1>2, <1>3

(* The groups are those of the last step (Augmint.ts 267-275).             *)
LEMMA GroupsAreSteps ==
    ASSUME NEW S, NEW loans \in Seq(S)
    PROVE  \E g \in [0 .. Len(loans) -> Seq(Seq(S))] :
              GroupSteps(g, loans) /\ Groups(loans) = g[Len(loans)]
<1> DEFINE N == Len(loans)
           R == Seq(Seq(S))
           Def(f) == f = [T \in SUBSET DOMAIN loans |->
                            IF T = {} THEN <<>> ELSE Join(f[T \ {Max(T)}], loans[Max(T)])]
           f == CHOOSE f : Def(f)
<1>1. N \in Nat /\ DOMAIN loans = 1 .. N /\ \A k \in 1 .. N : loans[k] \in S
  OBVIOUS
<1>2. Groups(loans) = f[DOMAIN loans]
  BY DEF Groups, FoldLeft, MapThenFoldSet
<1>3. <<>> \in R
  OBVIOUS
<1>4. \A groups \in R, k \in 1 .. N : Join(groups, loans[k]) \in R
  BY <1>1, JoinIsGroups
<1> HIDE DEF N, R
<1>5. \E g : Def(g)
  <2> DEFINE step == [p \in R \X (1 .. N) |-> Join(p[1], loans[p[2]])]
  <2>1. step \in [R \X (1 .. N) -> R]
    BY <1>4
  <2>2. \A groups \in R, k \in 1 .. N : step[<<groups, k>>] = Join(groups, loans[k])
    OBVIOUS
  <2> HIDE DEF step
  <2>3. PICK g \in [SUBSET (1 .. N) -> R] : FoldsAll(g, <<>>, step, N)
    BY <1>1, <1>3, <2>1, FoldExists
  <2>4. ASSUME NEW T \in SUBSET (1 .. N)
        PROVE  g[T] = IF T = {} THEN <<>> ELSE Join(g[T \ {Max(T)}], loans[Max(T)])
    <3>1. CASE T = {}
      BY <2>3, <3>1 DEF FoldsAll
    <3>2. CASE T # {}
      <4>1. Max(T) \in 1 .. N
        BY <1>1, <3>2, GreatestIndex
      <4>2. g[T \ {Max(T)}] \in R
        OBVIOUS
      <4>3. g[T] = step[<<g[T \ {Max(T)}], Max(T)>>]
        BY <2>3, <3>2 DEF FoldsAll
      <4> QED
        BY <2>2, <3>2, <4>1, <4>2, <4>3
    <3> QED
      BY <3>1, <3>2
  <2>5. Def(g)
    BY <1>1, <2>4
  <2> QED
    BY <2>5
<1>6. Def(f)
  BY <1>5
<1> HIDE DEF f
<1> DEFINE r == [k \in 0 .. N |-> f[1 .. k]]
<1>7. r[0] = <<>>
  <2>1. 1 .. 0 = {} /\ {} \in SUBSET DOMAIN loans
    OBVIOUS
  <2> QED
    BY <1>1, <1>6, <2>1
<1>8. ASSUME NEW k \in 1 .. N PROVE r[k] = Join(r[k - 1], loans[k])
  <2>1. k - 1 \in Nat /\ (k - 1) + 1 = k /\ k \in 0 .. N /\ k - 1 \in 0 .. N
    BY <1>1
  <2>2. Max(1 .. k) = k /\ (1 .. k) \ {k} = 1 .. k - 1 /\ 1 .. k # {}
    BY <2>1, FirstIndices
  <2>3. 1 .. k \in SUBSET DOMAIN loans
    BY <1>1
  <2>4. f[1 .. k] = Join(f[1 .. k - 1], loans[k])
    BY <1>6, <2>2, <2>3
  <2> QED
    BY <2>1, <2>4
<1>9. \A k \in 0 .. N : r[k] \in R
  <2> DEFINE P == {k \in Nat : k <= N => r[k] \in R}
  <2> HIDE DEF r
  <2>1. 0 \in P
    BY <1>3, <1>7
  <2>2. ASSUME NEW k \in Nat, k \in P PROVE k + 1 \in P
    <3>1. ASSUME k + 1 <= N PROVE r[k + 1] \in R
      <4>1. k + 1 \in 1 .. N /\ (k + 1) - 1 = k /\ r[k] \in R
        BY <1>1, <2>2, <3>1
      <4> QED
        BY <1>4, <1>8, <4>1
    <3> QED
      BY <3>1
  <2>3. Nat \subseteq P
    <3> HIDE DEF P
    <3> QED
      BY <2>1, <2>2, SetInduction
  <2> QED
    BY <1>1, <2>3
<1>10. r \in [0 .. N -> R]
  BY <1>9
<1>11. Groups(loans) = r[N]
  <2>1. N \in 0 .. N
    BY <1>1
  <2>2. r[N] = f[1 .. N]
    BY <2>1
  <2>3. f[DOMAIN loans] = f[1 .. N]
    BY <1>1, Zenon
  <2> QED
    BY <1>2, <2>2, <2>3, Zenon
<1> HIDE DEF r
<1>12. GroupSteps(r, loans)
  BY <1>7, <1>8, Zenon DEF N, GroupSteps
<1> QED
  BY <1>10, <1>11, <1>12 DEF N, R

(* The loan joins the last group ... *)
LEMMA JoinsLast ==
    ASSUME NEW S, NEW groups \in Seq(Seq(S)), NEW loan \in S,
           groups # <<>>, groups[Len(groups)][1].at = loan.at
    PROVE  LET after == Join(groups, loan)
               last == Len(groups)
           IN  /\ last \in 1 .. Len(groups) /\ DOMAIN groups = 1 .. Len(groups)
               /\ groups[last] \in Seq(S) /\ Len(groups[last]) \in Nat
               /\ DOMAIN after = DOMAIN groups
               /\ \A i \in DOMAIN groups \ {last} : after[i] = groups[i]
               /\ DOMAIN after[last] = 1 .. Len(groups[last]) + 1
               /\ DOMAIN groups[last] = 1 .. Len(groups[last])
               /\ after[last][Len(groups[last]) + 1] = loan
               /\ \A k \in DOMAIN groups[last] : after[last][k] = groups[last][k]
<1> DEFINE last == Len(groups)
           longer == Append(groups[last], loan)
<1>1. last \in 1 .. Len(groups) /\ DOMAIN groups = 1 .. Len(groups)
  OBVIOUS
<1>2. groups[last] \in Seq(S)
  BY <1>1
<1>3. longer \in Seq(S) /\ Len(longer) = Len(groups[last]) + 1 /\ Len(groups[last]) \in Nat
      /\ longer[Len(groups[last]) + 1] = loan
      /\ \A k \in 1 .. Len(groups[last]) : longer[k] = groups[last][k]
  BY <1>2, Appended
<1>4. Join(groups, loan) = [groups EXCEPT ![last] = longer]
  BY DEF Join
<1>5. DOMAIN longer = 1 .. Len(longer) /\ DOMAIN groups[last] = 1 .. Len(groups[last])
  BY <1>2, <1>3
<1> HIDE DEF longer, last
<1>6. /\ DOMAIN Join(groups, loan) = DOMAIN groups
      /\ \A i \in DOMAIN groups \ {last} : Join(groups, loan)[i] = groups[i]
      /\ Join(groups, loan)[last] = longer
  BY <1>1, <1>4
<1> QED
  BY <1>1, <1>2, <1>3, <1>5, <1>6 DEF last

(* ... or opens the next one. *)
LEMMA OpensNext ==
    ASSUME NEW S, NEW groups \in Seq(Seq(S)), NEW loan \in S,
           ~(groups # <<>> /\ groups[Len(groups)][1].at = loan.at)
    PROVE  LET after == Join(groups, loan)
               next == Len(groups) + 1
           IN  /\ Len(groups) \in Nat /\ DOMAIN groups = 1 .. Len(groups)
               /\ DOMAIN after = 1 .. next
               /\ \A i \in DOMAIN groups : after[i] = groups[i]
               /\ after[next] = <<loan>>
<1>1. <<loan>> \in Seq(S)
  OBVIOUS
<1>2. Join(groups, loan) = Append(groups, <<loan>>)
  BY DEF Join
<1>3. DOMAIN groups = 1 .. Len(groups)
  OBVIOUS
<1>4. /\ Append(groups, <<loan>>) \in Seq(Seq(S)) /\ Len(groups) \in Nat
      /\ Len(Append(groups, <<loan>>)) = Len(groups) + 1
      /\ Append(groups, <<loan>>)[Len(groups) + 1] = <<loan>>
      /\ \A j \in 1 .. Len(groups) : Append(groups, <<loan>>)[j] = groups[j]
  <2> DEFINE T == Seq(S)
             one == <<loan>>
  <2>1. groups \in Seq(T) /\ one \in T
    BY <1>1
  <2> HIDE DEF T, one
  <2>2. /\ Append(groups, one) \in Seq(T) /\ Len(groups) \in Nat
        /\ Len(Append(groups, one)) = Len(groups) + 1
        /\ Append(groups, one)[Len(groups) + 1] = one
        /\ \A j \in 1 .. Len(groups) : Append(groups, one)[j] = groups[j]
    BY <2>1, Appended
  <2> QED
    BY <2>2 DEF T, one
<1>5. DOMAIN Append(groups, <<loan>>) = 1 .. Len(groups) + 1
  BY <1>4
<1> QED
  BY <1>2, <1>3, <1>4, <1>5

(* What the groups of the first n loans are: one per address, the last one *)
(* that of loan n.                                                         *)
Grouped(groups, loans, n) ==
    /\ \A i \in DOMAIN groups :
          /\ 1 \in DOMAIN groups[i]
          /\ \A k \in DOMAIN groups[i] : /\ \E m \in 1 .. n : groups[i][k] = loans[m]
                                       /\ groups[i][k].at = groups[i][1].at
    /\ \A i, j \in DOMAIN groups : groups[i][1].at = groups[j][1].at => i = j
    /\ n > 0 => /\ Len(groups) \in DOMAIN groups
                /\ groups[Len(groups)][1].at = loans[n].at
    /\ \A m \in 1 .. n : \E i \in DOMAIN groups : groups[i][1].at = loans[m].at

Neighbours(loans) ==
    \A i, j, k \in DOMAIN loans : i < j /\ j < k /\ loans[i].at = loans[k].at
                                   => loans[j].at = loans[i].at

LEMMA JoinKeepsGroups ==
    ASSUME NEW S, NEW loans \in Seq(S), Neighbours(loans), NEW n \in Nat, n + 1 <= Len(loans),
           NEW groups \in Seq(Seq(S)), Grouped(groups, loans, n)
    PROVE  Grouped(Join(groups, loans[n + 1]), loans, n + 1)
<1> DEFINE loan == loans[n + 1]
           after == Join(groups, loan)
           size == Len(groups)
<1>1. loan \in S /\ n + 1 \in Nat /\ n + 1 > 0 /\ Len(loans) \in Nat /\ DOMAIN loans = 1 .. Len(loans)
  OBVIOUS
<1>2. after \in Seq(Seq(S))
  BY <1>1, JoinIsGroups
<1>3. DOMAIN after = 1 .. Len(after) /\ Len(after) \in Nat
  BY <1>2
<1>4. \A x : (\E m \in 1 .. n : x = loans[m]) => \E m \in 1 .. n + 1 : x = loans[m]
  OBVIOUS
<1>5. \E m \in 1 .. n + 1 : loan = loans[m]
  BY <1>1
<1>6. \A m \in 1 .. n + 1 : m \in 1 .. n \/ m = n + 1
  OBVIOUS
<1> DEFINE Holds(group, m) ==
             /\ 1 \in DOMAIN group
             /\ \A k \in DOMAIN group : /\ \E l \in 1 .. m : group[k] = loans[l]
                                      /\ group[k].at = group[1].at
<1>7. \A i \in DOMAIN groups : Holds(groups[i], n)
  BY DEF Grouped
<1>8. \A i \in DOMAIN groups : Holds(groups[i], n + 1)
  BY <1>4, <1>7
<1>9. \A m \in 1 .. n : \E i \in DOMAIN groups : groups[i][1].at = loans[m].at
  BY DEF Grouped
<1>10. CASE groups # <<>> /\ groups[size][1].at = loan.at
  <2> DEFINE length == Len(groups[size])
  <2>1. /\ size \in 1 .. size /\ DOMAIN groups = 1 .. size
        /\ length \in Nat
        /\ DOMAIN after = DOMAIN groups
        /\ \A i \in DOMAIN groups \ {size} : after[i] = groups[i]
        /\ DOMAIN after[size] = 1 .. length + 1
        /\ DOMAIN groups[size] = 1 .. length
        /\ after[size][length + 1] = loan
        /\ \A k \in DOMAIN groups[size] : after[size][k] = groups[size][k]
    BY <1>1, <1>10, JoinsLast
  <2>2. /\ 1 \in 1 .. length /\ 1 \in 1 .. length + 1
        /\ \A k \in 1 .. length + 1 : k \in 1 .. length \/ k = length + 1
    <3>1. 1 \in DOMAIN groups[size]
      BY <1>7, <2>1
    <3> HIDE DEF length
    <3> QED
      BY <2>1, <3>1
  <2>3. Len(after) = size
    BY <1>3, <2>1
  <2> HIDE DEF after, length, size, loan
  <2>4. ASSUME NEW i \in DOMAIN groups PROVE after[i][1] = groups[i][1]
    <3>1. CASE i = size
      <4>1. 1 \in DOMAIN groups[size]
        BY <2>1, <2>2
      <4> QED
        BY <2>1, <3>1, <4>1
    <3>2. CASE i # size
      BY <2>1, <3>2
    <3> QED
      BY <3>1, <3>2
  <2>5. ASSUME NEW i \in DOMAIN after PROVE Holds(after[i], n + 1)
    <3>1. CASE i = size
      <4>1. after[size][1] = groups[size][1]
        BY <2>1, <2>4
      <4>2. Holds(groups[size], n + 1)
        BY <1>8, <2>1
      <4>3. ASSUME NEW k \in DOMAIN after[size]
            PROVE  /\ \E l \in 1 .. n + 1 : after[size][k] = loans[l]
                   /\ after[size][k].at = after[size][1].at
        <5>1. CASE k = length + 1
          BY <1>5, <1>10, <2>1, <4>1, <5>1
        <5>2. CASE k \in 1 .. length
          <6>1. k \in DOMAIN groups[size] /\ after[size][k] = groups[size][k]
            BY <2>1, <5>2
          <6> QED
            BY <4>1, <4>2, <6>1
        <5> QED
          BY <2>1, <2>2, <4>3, <5>1, <5>2
      <4> QED
        BY <2>1, <2>2, <3>1, <4>3
    <3>2. CASE i # size
      <4>1. i \in DOMAIN groups /\ after[i] = groups[i]
        BY <2>1, <3>2
      <4> QED
        BY <1>8, <4>1
    <3> QED
      BY <3>1, <3>2
  <2>6. \A i, j \in DOMAIN after : after[i][1].at = after[j][1].at => i = j
    BY <2>1, <2>4 DEF Grouped
  <2>7. Len(after) \in DOMAIN after /\ after[Len(after)][1].at = loan.at
    BY <1>10, <2>1, <2>3, <2>4
  <2>8. \A m \in 1 .. n + 1 : \E i \in DOMAIN after : after[i][1].at = loans[m].at
    <3> SUFFICES ASSUME NEW m \in 1 .. n + 1
                 PROVE  \E i \in DOMAIN after : after[i][1].at = loans[m].at
      OBVIOUS
    <3>1. CASE m = n + 1
      BY <2>7, <3>1 DEF loan
    <3>2. CASE m \in 1 .. n
      <4>1. PICK i \in DOMAIN groups : groups[i][1].at = loans[m].at
        BY <1>9, <3>2
      <4>2. i \in DOMAIN after /\ after[i][1] = groups[i][1]
        BY <2>1, <2>4
      <4> QED
        BY <4>1, <4>2
    <3> QED
      BY <1>6, <3>1, <3>2
  <2> QED
    BY <2>5, <2>6, <2>7, <2>8 DEF Grouped, after, loan
<1>11. CASE ~(groups # <<>> /\ groups[size][1].at = loan.at)
  <2> DEFINE next == size + 1
  <2>1. /\ size \in Nat /\ DOMAIN groups = 1 .. size
        /\ DOMAIN after = 1 .. next
        /\ \A i \in DOMAIN groups : after[i] = groups[i]
        /\ after[next] = <<loan>>
    BY <1>1, <1>11, OpensNext
  <2>2. DOMAIN <<loan>> = {1} /\ <<loan>>[1] = loan
    OBVIOUS
  <2>3. Len(after) = next /\ next \in 1 .. next /\ \A i \in 1 .. next : i \in 1 .. size \/ i = next
    BY <1>3, <2>1
  <2>10. \A i \in 1 .. size : i \in 1 .. next
    BY <2>1
  <2>4. ASSUME NEW m \in 1 .. n PROVE loans[m].at # loan.at
    <3> SUFFICES ASSUME loans[m].at = loan.at PROVE FALSE
      OBVIOUS
    <3>1. n \in DOMAIN loans /\ m \in DOMAIN loans /\ n + 1 \in DOMAIN loans /\ n > 0
      BY <1>1
    <3>2. loans[n].at = loan.at
      <4>1. CASE m = n
        BY <4>1
      <4>2. CASE m # n
        <5>1. m < n /\ n < n + 1
          BY <4>2
        <5>2. loans[n].at = loans[m].at
          BY <3>1, <5>1 DEF Neighbours
        <5> QED
          BY <5>2
      <4> QED
        BY <4>1, <4>2
    <3>3. size \in DOMAIN groups /\ groups[size][1].at = loans[n].at
      BY <3>1 DEF Grouped
    <3>4. groups # <<>>
      BY <3>3
    <3> QED
      BY <1>11, <3>2, <3>3, <3>4
  <2> HIDE DEF after, next, size, loan
  <2>5. ASSUME NEW i \in DOMAIN groups PROVE groups[i][1].at # loan.at
    <3>1. PICK m \in 1 .. n : groups[i][1] = loans[m]
      BY DEF Grouped
    <3> QED
      BY <2>4, <3>1
  <2>6. ASSUME NEW i \in DOMAIN after PROVE Holds(after[i], n + 1)
    <3>1. CASE i = next
      <4>1. after[i] = <<loan>>
        BY <2>1, <3>1
      <4>2. Holds(<<loan>>, n + 1)
        BY <1>5, <2>2
      <4> QED
        BY <4>1, <4>2
    <3>2. CASE i # next
      <4>1. i \in DOMAIN groups /\ after[i] = groups[i]
        BY <2>1, <2>3, <3>2
      <4> QED
        BY <1>8, <4>1
    <3> QED
      BY <3>1, <3>2
  <2>7. ASSUME NEW i \in DOMAIN after, NEW j \in DOMAIN after, after[i][1].at = after[j][1].at
        PROVE  i = j
    <3>1. CASE i \in DOMAIN groups /\ j \in DOMAIN groups
      BY <2>1, <2>7, <3>1 DEF Grouped
    <3>2. CASE i = next /\ j \in DOMAIN groups
      BY <2>1, <2>2, <2>5, <2>7, <3>2
    <3>3. CASE j = next /\ i \in DOMAIN groups
      BY <2>1, <2>2, <2>5, <2>7, <3>3
    <3> QED
      BY <2>1, <2>3, <3>1, <3>2, <3>3
  <2>8. Len(after) \in DOMAIN after /\ after[Len(after)][1].at = loan.at
    BY <2>1, <2>2, <2>3
  <2>9. \A m \in 1 .. n + 1 : \E i \in DOMAIN after : after[i][1].at = loans[m].at
    <3> SUFFICES ASSUME NEW m \in 1 .. n + 1
                 PROVE  \E i \in DOMAIN after : after[i][1].at = loans[m].at
      OBVIOUS
    <3>1. CASE m = n + 1
      BY <2>8, <3>1 DEF loan
    <3>2. CASE m \in 1 .. n
      <4>1. PICK i \in DOMAIN groups : groups[i][1].at = loans[m].at
        BY <1>9, <3>2
      <4>2. i \in DOMAIN after /\ after[i] = groups[i]
        BY <2>1, <2>10
      <4> QED
        BY <4>1, <4>2
    <3> QED
      BY <1>6, <3>1, <3>2
  <2> QED
    BY <2>6, <2>7, <2>8, <2>9 DEF Grouped, after, loan
<1> QED
  BY <1>10, <1>11

(* How often the groups hold loans of a kind: at each place once.          *)
Positions(groups) == UNION {{i} \X DOMAIN groups[i] : i \in DOMAIN groups}
Matching(groups, M) == {p \in Positions(groups) : groups[p[1]][p[2]] \in M}
Among(loans, n, M) == {m \in 1 .. n : loans[m] \in M}

LEMMA PositionsAre ==
    ASSUME NEW groups, NEW p
    PROVE  p \in Positions(groups) <=> \E i \in DOMAIN groups : \E k \in DOMAIN groups[i] : p = <<i, k>>
BY DEF Positions

(* One place more, and nothing else is moved. *)
OneMore(after, groups, place, loan) ==
    /\ place \notin Positions(groups)
    /\ \A p : p \in Positions(after) <=> p \in Positions(groups) \/ p = place
    /\ after[place[1]][place[2]] = loan
    /\ \A p \in Positions(groups) : after[p[1]][p[2]] = groups[p[1]][p[2]]

LEMMA JoinAddsOne ==
    ASSUME NEW S, NEW groups \in Seq(Seq(S)), NEW loan \in S
    PROVE  \E place : OneMore(Join(groups, loan), groups, place, loan)
<1> DEFINE after == Join(groups, loan)
           size == Len(groups)
<1>1. CASE groups # <<>> /\ groups[size][1].at = loan.at
  <2> DEFINE length == Len(groups[size])
             place == <<size, length + 1>>
  <2>1. /\ size \in DOMAIN groups
        /\ length \in Nat
        /\ DOMAIN after = DOMAIN groups
        /\ \A i \in DOMAIN groups \ {size} : after[i] = groups[i]
        /\ DOMAIN after[size] = 1 .. length + 1
        /\ DOMAIN groups[size] = 1 .. length
        /\ after[size][length + 1] = loan
        /\ \A k \in DOMAIN groups[size] : after[size][k] = groups[size][k]
    BY <1>1, JoinsLast
  <2>2. /\ length + 1 \in 1 .. length + 1 /\ length + 1 \notin 1 .. length
        /\ \A k : k \in 1 .. length + 1 <=> k \in 1 .. length \/ k = length + 1
    <3> HIDE DEF length
    <3> QED
      BY <2>1
  <2> HIDE DEF after, size, length
  <2>3. place \notin Positions(groups)
    BY <2>1, <2>2, PositionsAre
  <2>4. place \in Positions(after)
    BY <2>1, <2>2, PositionsAre
  <2>5. ASSUME NEW p \in Positions(groups)
        PROVE  p \in Positions(after) /\ after[p[1]][p[2]] = groups[p[1]][p[2]]
    <3>1. PICK i \in DOMAIN groups : \E k \in DOMAIN groups[i] : p = <<i, k>>
      BY PositionsAre
    <3>2. PICK k \in DOMAIN groups[i] : p = <<i, k>>
      BY <3>1
    <3>3. k \in DOMAIN after[i] /\ after[i][k] = groups[i][k] /\ i \in DOMAIN after
      BY <2>1, <2>2
    <3> QED
      BY <3>2, <3>3, PositionsAre
  <2>6. ASSUME NEW p \in Positions(after), p # place PROVE p \in Positions(groups)
    <3>1. PICK i \in DOMAIN after : \E k \in DOMAIN after[i] : p = <<i, k>>
      BY PositionsAre
    <3>2. PICK k \in DOMAIN after[i] : p = <<i, k>>
      BY <3>1
    <3>3. i \in DOMAIN groups /\ k \in DOMAIN groups[i]
      BY <2>1, <2>2, <2>6, <3>2
    <3> QED
      BY <3>2, <3>3, PositionsAre
  <2>7. after[place[1]][place[2]] = loan
    BY <2>1
  <2> HIDE DEF place
  <2> QED
    BY <2>3, <2>4, <2>5, <2>6, <2>7 DEF OneMore, after
<1>2. CASE ~(groups # <<>> /\ groups[size][1].at = loan.at)
  <2> DEFINE next == size + 1
             place == <<next, 1>>
  <2>1. /\ size \in Nat /\ DOMAIN groups = 1 .. size
        /\ DOMAIN after = 1 .. next
        /\ \A i \in DOMAIN groups : after[i] = groups[i]
        /\ after[next] = <<loan>>
    BY <1>2, OpensNext
  <2>2. DOMAIN <<loan>> = {1} /\ <<loan>>[1] = loan
    OBVIOUS
  <2>3. next \in 1 .. next /\ next \notin 1 .. size /\ \A i : i \in 1 .. next <=> i \in 1 .. size \/ i = next
    <3> HIDE DEF size
    <3> QED
      BY <2>1
  <2> HIDE DEF after, next, size
  <2>4. place \notin Positions(groups)
    BY <2>1, <2>3, PositionsAre
  <2>5. place \in Positions(after) /\ after[place[1]][place[2]] = loan
    BY <2>1, <2>2, <2>3, PositionsAre
  <2>6. ASSUME NEW p \in Positions(groups)
        PROVE  p \in Positions(after) /\ after[p[1]][p[2]] = groups[p[1]][p[2]]
    <3>1. PICK i \in DOMAIN groups : \E k \in DOMAIN groups[i] : p = <<i, k>>
      BY PositionsAre
    <3>2. PICK k \in DOMAIN groups[i] : p = <<i, k>>
      BY <3>1
    <3>3. i \in DOMAIN after /\ after[i] = groups[i]
      BY <2>1, <2>3
    <3> QED
      BY <3>2, <3>3, PositionsAre
  <2>7. ASSUME NEW p \in Positions(after), p # place PROVE p \in Positions(groups)
    <3>1. PICK i \in DOMAIN after : \E k \in DOMAIN after[i] : p = <<i, k>>
      BY PositionsAre
    <3>2. PICK k \in DOMAIN after[i] : p = <<i, k>>
      BY <3>1
    <3>3. i # next
      BY <2>1, <2>2, <2>7, <3>2
    <3>4. i \in DOMAIN groups /\ k \in DOMAIN groups[i]
      BY <2>1, <2>3, <3>3
    <3> QED
      BY <3>2, <3>4, PositionsAre
  <2> HIDE DEF place
  <2> QED
    BY <2>4, <2>5, <2>6, <2>7 DEF OneMore, after
<1> QED
  BY <1>1, <1>2

(* The groups hold as many loans of a kind as the list does.               *)
LEMMA JoinCounts ==
    ASSUME NEW S, NEW loans \in Seq(S), NEW n \in Nat, n + 1 <= Len(loans),
           NEW groups \in Seq(Seq(S)), NEW M,
           IsFiniteSet(Matching(groups, M)),
           Cardinality(Matching(groups, M)) = Cardinality(Among(loans, n, M))
    PROVE  /\ IsFiniteSet(Matching(Join(groups, loans[n + 1]), M))
           /\ Cardinality(Matching(Join(groups, loans[n + 1]), M))
                = Cardinality(Among(loans, n + 1, M))
<1> DEFINE loan == loans[n + 1]
           after == Join(groups, loan)
<1>1. PICK place : OneMore(after, groups, place, loan)
  <2>1. loan \in S
    OBVIOUS
  <2> QED
    BY <2>1, JoinAddsOne
<1>2. IsFiniteSet(Among(loans, n, M))
  <2>1. Among(loans, n, M) \in SUBSET (1 .. n) /\ IsFiniteSet(1 .. n)
    BY FS_Interval DEF Among
  <2> QED
    BY <2>1, FS_Subset
<1>3. n + 1 \notin Among(loans, n, M) /\ place \notin Matching(groups, M)
  BY <1>1 DEF Among, OneMore, Matching
<1> HIDE DEF after
<1>4. CASE loan \in M
  <2>1. Among(loans, n + 1, M) = Among(loans, n, M) \cup {n + 1}
    BY <1>4 DEF Among
  <2>2. Matching(after, M) = Matching(groups, M) \cup {place}
    BY <1>1, <1>4 DEF Matching, OneMore
  <2>3. /\ IsFiniteSet(Matching(after, M))
        /\ Cardinality(Matching(after, M)) = Cardinality(Matching(groups, M)) + 1
    BY <1>3, <2>2, FS_AddElement
  <2>4. Cardinality(Among(loans, n + 1, M)) = Cardinality(Among(loans, n, M)) + 1
    BY <1>2, <1>3, <2>1, FS_AddElement
  <2> QED
    BY <2>3, <2>4 DEF after
<1>5. CASE loan \notin M
  <2>1. Among(loans, n + 1, M) = Among(loans, n, M)
    BY <1>5 DEF Among
  <2>2. Matching(after, M) = Matching(groups, M)
    BY <1>1, <1>5 DEF Matching, OneMore
  <2> QED
    BY <2>1, <2>2 DEF after
<1> QED
  BY <1>4, <1>5

(* So it is with all the groups. *)
LEMMA GroupsAreGrouped ==
    ASSUME NEW S, NEW loans \in Seq(S), Neighbours(loans), NEW M
    PROVE  /\ Groups(loans) \in Seq(Seq(S))
           /\ Grouped(Groups(loans), loans, Len(loans))
           /\ Cardinality(Matching(Groups(loans), M)) = Cardinality(Among(loans, Len(loans), M))
<1> DEFINE N == Len(loans)
<1>1. PICK g \in [0 .. N -> Seq(Seq(S))] : GroupSteps(g, loans) /\ Groups(loans) = g[N]
  BY GroupsAreSteps
<1> DEFINE Good(n) == /\ Grouped(g[n], loans, n)
                      /\ IsFiniteSet(Matching(g[n], M))
                      /\ Cardinality(Matching(g[n], M)) = Cardinality(Among(loans, n, M))
           P == {n \in Nat : n <= N => Good(n)}
<1>2. N \in Nat /\ g[0] = <<>>
  BY <1>1 DEF GroupSteps
<1>3. 0 \in P
  <2>1. DOMAIN <<>> = {} /\ 1 .. 0 = {}
    OBVIOUS
  <2>2. Grouped(<<>>, loans, 0)
    BY <2>1 DEF Grouped
  <2>3. Matching(<<>>, M) = {} /\ Among(loans, 0, M) = {}
    BY <2>1 DEF Matching, Positions, Among
  <2>4. IsFiniteSet({})
    BY FS_EmptySet
  <2>5. Good(0)
    BY <1>2, <2>2, <2>3, <2>4
  <2> HIDE DEF Good
  <2> QED
    BY <2>5
<1>4. ASSUME NEW n \in Nat, n \in P PROVE n + 1 \in P
  <2> SUFFICES ASSUME n + 1 <= N PROVE Good(n + 1)
    OBVIOUS
  <2>1. Good(n)
    BY <1>2, <1>4
  <2>2. n \in 0 .. N /\ n + 1 \in 1 .. N /\ (n + 1) - 1 = n
    BY <1>2
  <2>3. g[n] \in Seq(Seq(S)) /\ g[n + 1] = Join(g[n], loans[n + 1])
    BY <1>1, <2>2 DEF GroupSteps
  <2>4. Grouped(g[n + 1], loans, n + 1)
    BY <2>1, <2>3, JoinKeepsGroups
  <2>5. /\ IsFiniteSet(Matching(g[n + 1], M))
        /\ Cardinality(Matching(g[n + 1], M)) = Cardinality(Among(loans, n + 1, M))
    BY <2>1, <2>3, JoinCounts
  <2> QED
    BY <2>4, <2>5
<1>5. Nat \subseteq P
  <2> HIDE DEF P
  <2> QED
    BY <1>3, <1>4, SetInduction
<1>6. Good(N)
  BY <1>2, <1>5
<1>7. g[N] \in Seq(Seq(S))
  BY <1>2
<1> QED
  BY <1>1, <1>6, <1>7

(* Sorting is a permutation: each kind of loans is as frequent as before.  *)
LEMMA SortedCounts ==
    ASSUME NEW S, NEW loans \in Seq(S), NEW sorted \in Sorted(loans), NEW M
    PROVE  Cardinality(Among(sorted, Len(loans), M)) = Cardinality(Among(loans, Len(loans), M))
<1> DEFINE N == Len(loans)
           Of(s, l) == {i \in 1 .. N : s[i] = l}
<1>1. /\ N \in Nat /\ DOMAIN loans = 1 .. N /\ DOMAIN sorted = 1 .. N
      /\ \A i \in 1 .. N : loans[i] \in Range(loans) /\ sorted[i] \in Range(loans)
      /\ \A l \in Range(loans) : Cardinality(Of(sorted, l)) = Cardinality(Of(loans, l))
  <2>1. N \in Nat /\ DOMAIN loans = 1 .. N
    OBVIOUS
  <2>2. /\ sorted \in [DOMAIN loans -> Range(loans)]
        /\ \A l \in Range(loans) : Cardinality({i \in DOMAIN sorted : sorted[i] = l})
                                   = Cardinality({i \in DOMAIN loans : loans[i] = l})
    BY DEF Sorted
  <2>3. DOMAIN sorted = 1 .. N
    BY <2>1, <2>2
  <2>4. \A i \in 1 .. N : loans[i] \in Range(loans)
    BY <2>1 DEF Range
  <2> HIDE DEF N
  <2>5. \A i \in 1 .. N : sorted[i] \in Range(loans)
    BY <2>1, <2>2
  <2> QED
    BY <2>1, <2>2, <2>3, <2>4, <2>5
<1> HIDE DEF N
<1>2. ASSUME NEW T \in SUBSET (1 .. N) PROVE IsFiniteSet(T)
  <2>1. IsFiniteSet(1 .. N)
    BY <1>1, FS_Interval
  <2> QED
    BY <2>1, FS_Subset
<1>3. ASSUME NEW l \in Range(loans) PROVE ExistsBijection(Of(loans, l), Of(sorted, l))
  <2>1. Of(loans, l) \in SUBSET (1 .. N) /\ Of(sorted, l) \in SUBSET (1 .. N)
    OBVIOUS
  <2> HIDE DEF Of
  <2> QED
    BY <1>1, <1>2, <2>1, FS_SameCardinalityBij
<1> DEFINE b(l) == CHOOSE f : f \in Bijection(Of(loans, l), Of(sorted, l))
           move == [i \in Among(loans, N, M) |-> b(loans[i])[i]]
<1>4. \A l \in Range(loans) : b(l) \in Bijection(Of(loans, l), Of(sorted, l))
  <2> HIDE DEF Of
  <2> QED
    BY <1>3 DEF ExistsBijection
<1> HIDE DEF b
<1>5. ASSUME NEW i \in Among(loans, N, M)
      PROVE  move[i] \in Among(sorted, N, M) /\ sorted[move[i]] = loans[i]
  <2>1. i \in Of(loans, loans[i]) /\ loans[i] \in Range(loans) /\ loans[i] \in M
    BY <1>1 DEF Among
  <2>2. b(loans[i])[i] \in Of(sorted, loans[i])
    BY <1>4, <2>1 DEF Bijection, Injection, Surjection
  <2> QED
    BY <2>1, <2>2 DEF Among
<1>6. ASSUME NEW i \in Among(loans, N, M), NEW j \in Among(loans, N, M), move[i] = move[j]
      PROVE  i = j
  <2>1. loans[i] = loans[j]
    BY <1>5, <1>6
  <2>2. loans[i] \in Range(loans) /\ i \in Of(loans, loans[i]) /\ j \in Of(loans, loans[i])
    BY <1>1, <2>1 DEF Among
  <2>3. b(loans[i])[i] = b(loans[i])[j]
    BY <1>6, <2>1
  <2> QED
    BY <1>4, <2>2, <2>3 DEF Bijection, Injection, IsInjective
<1>7. ASSUME NEW k \in Among(sorted, N, M)
      PROVE  \E i \in Among(loans, N, M) : move[i] = k
  <2> DEFINE l == sorted[k]
  <2>1. l \in Range(loans) /\ k \in Of(sorted, l) /\ l \in M
    BY <1>1 DEF Among
  <2>2. PICK i \in Of(loans, l) : b(l)[i] = k
    BY <1>4, <2>1 DEF Bijection, Surjection
  <2>3. i \in Among(loans, N, M) /\ loans[i] = l
    BY <2>1, <2>2 DEF Among
  <2> QED
    BY <2>2, <2>3
<1>8. move \in Bijection(Among(loans, N, M), Among(sorted, N, M))
  <2>1. move = [i \in Among(loans, N, M) |-> move[i]]
    OBVIOUS
  <2> HIDE DEF move
  <2>2. move \in [Among(loans, N, M) -> Among(sorted, N, M)]
    BY <1>5, <2>1
  <2> QED
    BY <1>6, <1>7, <2>2 DEF Bijection, Injection, IsInjective, Surjection
<1>9. IsFiniteSet(Among(loans, N, M))
  BY <1>2 DEF Among
<1>10. ExistsBijection(Among(loans, N, M), Among(sorted, N, M))
  BY <1>8 DEF ExistsBijection
<1> QED
  BY <1>9, <1>10, FS_Bijection DEF N

LEMMA SortedIsList ==
    ASSUME NEW S, NEW loans \in Seq(S), NEW sorted \in Sorted(loans)
    PROVE  /\ sorted \in Seq(S) /\ Len(sorted) = Len(loans)
           /\ Neighbours(sorted)
           /\ Range(sorted) = Range(loans)
<1>1. /\ Len(loans) \in Nat /\ DOMAIN loans = 1 .. Len(loans)
      /\ Range(loans) \subseteq S
  BY DEF Range
<1>2. sorted \in [1 .. Len(loans) -> Range(loans)]
  BY <1>1 DEF Sorted
<1>3. sorted \in [1 .. Len(loans) -> S]
  BY <1>1, <1>2
<1>4. sorted \in Seq(S) /\ Len(sorted) = Len(loans) /\ DOMAIN sorted = DOMAIN loans
  BY <1>1, <1>3
<1>5. Neighbours(sorted)
  BY DEF Sorted, Neighbours
<1>6. ASSUME NEW l \in Range(loans) PROVE l \in Range(sorted)
  <2>1. PICK i \in DOMAIN loans : loans[i] = l
    BY DEF Range
  <2> DEFINE before == {k \in DOMAIN loans : loans[k] = l}
             after == {k \in DOMAIN sorted : sorted[k] = l}
  <2>2. Cardinality(after) = Cardinality(before)
    BY DEF Sorted
  <2>3. before # {} /\ before \in SUBSET (1 .. Len(loans))
    BY <1>1, <2>1
  <2>4. after \in SUBSET (1 .. Len(loans))
    BY <1>1, <1>4
  <2>5. after = {} => after = before
    <3> HIDE DEF before, after
    <3>1. IsFiniteSet(1 .. Len(loans))
      BY <1>1, FS_Interval
    <3>2. IsFiniteSet(before)
      BY <2>3, <3>1, FS_Subset
    <3>3. Cardinality({}) = 0 /\ (Cardinality(before) = 0 <=> before = {})
      BY <3>2, FS_EmptySet
    <3> QED
      BY <2>2, <3>3
  <2>6. PICK k \in after : TRUE
    BY <2>3, <2>5
  <2> QED
    BY <2>6 DEF Range
<1>7. Range(sorted) \subseteq Range(loans)
  BY <1>2, <1>4 DEF Range
<1> QED
  BY <1>4, <1>5, <1>6, <1>7

(* One transaction per address that was given. *)
LEMMA AddressesCount ==
    ASSUME NEW S, NEW loans \in Seq(S), NEW groups \in Seq(Seq(S)),
           Grouped(groups, loans, Len(loans))
    PROVE  Len(groups) = Cardinality({l.at : l \in Range(loans)})
<1> DEFINE N == Len(loans)
           addresses == {l.at : l \in Range(loans)}
           first == [i \in 1 .. Len(groups) |-> groups[i][1].at]
<1>1. /\ Len(groups) \in Nat /\ DOMAIN groups = 1 .. Len(groups)
      /\ N \in Nat /\ DOMAIN loans = 1 .. N
  OBVIOUS
<1>2. ASSUME NEW i \in 1 .. Len(groups) PROVE first[i] \in addresses
  <2>1. 1 \in DOMAIN groups[i]
    BY <1>1 DEF Grouped
  <2>2. \A k \in DOMAIN groups[i] : \E m \in 1 .. N : groups[i][k] = loans[m]
    <3>1. i \in DOMAIN groups /\ Grouped(groups, loans, N)
      BY <1>1
    <3> HIDE DEF N, first, addresses
    <3> QED
      BY <3>1 DEF Grouped
  <2>3. PICK m \in 1 .. N : groups[i][1] = loans[m]
    BY <2>1, <2>2
  <2>4. loans[m] \in Range(loans)
    BY <1>1 DEF Range
  <2> QED
    BY <2>3, <2>4
<1>3. \A i, j \in 1 .. Len(groups) : first[i] = first[j] => i = j
  BY <1>1 DEF Grouped
<1>4. ASSUME NEW a \in addresses PROVE \E i \in 1 .. Len(groups) : first[i] = a
  <2>1. PICK m \in 1 .. N : a = loans[m].at
    BY <1>1 DEF Range
  <2>2. PICK i \in DOMAIN groups : groups[i][1].at = loans[m].at
    BY DEF Grouped
  <2> QED
    BY <1>1, <2>1, <2>2
<1>5. DOMAIN first = 1 .. Len(groups)
  OBVIOUS
<1>6. first = [i \in 1 .. Len(groups) |-> first[i]]
  OBVIOUS
<1> HIDE DEF first, addresses
<1>7. first \in [1 .. Len(groups) -> addresses]
  BY <1>2, <1>6
<1>8. ExistsBijection(1 .. Len(groups), addresses)
  BY <1>3, <1>4, <1>5, <1>7 DEF ExistsBijection, Bijection, Injection, IsInjective, Surjection
<1>9. IsFiniteSet(1 .. Len(groups)) /\ Cardinality(1 .. Len(groups)) = Len(groups)
  <2>1. 1 \in Int /\ Len(groups) \in Int
    BY <1>1
  <2>2. /\ IsFiniteSet(1 .. Len(groups))
        /\ Cardinality(1 .. Len(groups)) = IF 1 > Len(groups) THEN 0 ELSE Len(groups) - 1 + 1
    BY <2>1, FS_Interval
  <2> QED
    BY <1>1, <2>2
<1>10. Cardinality(addresses) = Cardinality(1 .. Len(groups))
  BY <1>8, <1>9, FS_Bijection
<1> QED
  BY <1>9, <1>10 DEF addresses

(* What CollectedOnce says of one call: how often transactions hold a loan *)
(* and go to its manager.                                                  *)
Served(txs, l) ==
    {p \in UNION {{i} \X DOMAIN txs[i].ids : i \in DOMAIN txs} :
        /\ txs[p[1]].ids[p[2]] = l.id
        /\ txs[p[1]].to.address.of = l.at.of}

EachOnce(txs, given) ==
    /\ \A l \in Range(given) :
          Cardinality({i \in DOMAIN given : given[i].id = l.id /\ given[i].at.of = l.at.of})
            = Cardinality(Served(txs, l))
    /\ Len(txs) = Cardinality({l.at : l \in Range(given)})

Collected(call) ==
    call.op = "collect" /\ call.st = "done" => EachOnce(call.txs, call.loans)

(* The transactions hold the loans of the groups, place by place, and each *)
(* goes to the manager of its loans (Augmint.ts 276-282).                  *)
LEMMA PlacesOfLoans ==
    ASSUME NEW groups, NEW o, NEW l, NEW M,
           \A i \in DOMAIN groups :
               Manager(o, groups[i][1].at).address.of = groups[i][1].at.of,
           \A i \in DOMAIN groups : \A k \in DOMAIN groups[i] :
               /\ groups[i][k].at = groups[i][1].at
               /\ groups[i][k] \in M <=> groups[i][k].id = l.id /\ groups[i][k].at.of = l.at.of
    PROVE  Served(CollectTxs(o, groups), l) = Matching(groups, M)
<1> DEFINE txs == CollectTxs(o, groups)
           places == UNION {{i} \X DOMAIN txs[i].ids : i \in DOMAIN txs}
<1>1. DOMAIN txs = DOMAIN groups
  BY DEF CollectTxs
<1>2. ASSUME NEW i \in DOMAIN groups
      PROVE  /\ DOMAIN txs[i].ids = DOMAIN groups[i]
             /\ \A k \in DOMAIN groups[i] : txs[i].ids[k] = groups[i][k].id
             /\ txs[i].to.address.of = groups[i][1].at.of
  <2>1. txs[i] = Tx("collect", Manager(o, groups[i][1].at), NoAddress, Ids(groups[i]))
    BY DEF CollectTxs
  <2>2. txs[i].ids = Ids(groups[i]) /\ txs[i].to = Manager(o, groups[i][1].at)
    BY <2>1 DEF Tx
  <2> HIDE DEF txs
  <2> QED
    BY <2>2 DEF Ids
<1> HIDE DEF txs
<1>3. ASSUME NEW i \in DOMAIN groups, NEW k \in DOMAIN groups[i]
      PROVE  txs[i].ids[k] = l.id /\ txs[i].to.address.of = l.at.of <=> groups[i][k] \in M
  BY <1>2
<1>4. ASSUME NEW p PROVE p \in places <=> p \in Positions(groups)
  BY <1>1, <1>2 DEF Positions
<1>5. ASSUME NEW p \in Positions(groups)
      PROVE  txs[p[1]].ids[p[2]] = l.id /\ txs[p[1]].to.address.of = l.at.of
               <=> groups[p[1]][p[2]] \in M
  <2>1. PICK i \in DOMAIN groups : \E k \in DOMAIN groups[i] : p = <<i, k>>
    BY PositionsAre
  <2>2. PICK k \in DOMAIN groups[i] : p = <<i, k>>
    BY <2>1
  <2> QED
    BY <1>3, <2>2
<1> HIDE DEF places
<1>6. {p \in places : txs[p[1]].ids[p[2]] = l.id /\ txs[p[1]].to.address.of = l.at.of}
        = Matching(groups, M)
  BY <1>4, <1>5 DEF Matching
<1> QED
  BY <1>6 DEF places, txs, Served

(* However the list is sorted, each loan goes once to its own manager.     *)
LEMMA LoansAreCollected ==
    ASSUME HomeInv, NEW o \in Objects, state[o] = "ready",
           NEW loans \in LoanLists, \A l \in Range(loans) : HasManager(o, l.at),
           NEW sorted \in Sorted(loans)
    PROVE  Collected(Call("done", "collect", o, NoAddress, loans, CollectTxs(o, Groups(sorted))))
<1> DEFINE groups == Groups(sorted)
           txs == CollectTxs(o, groups)
           N == Len(loans)
<1>1. loans \in Seq(Loans)
  BY AugmintAssumption DEF AugmintAssumption
<1>2. N \in Nat /\ DOMAIN loans = 1 .. N
  BY <1>1
<1>3. /\ sorted \in Seq(Loans) /\ Len(sorted) = N /\ Neighbours(sorted)
      /\ Range(sorted) = Range(loans)
  BY <1>1, SortedIsList
<1>4. /\ groups \in Seq(Seq(Loans)) /\ Grouped(groups, sorted, N)
      /\ \A M : Cardinality(Matching(groups, M)) = Cardinality(Among(sorted, N, M))
  BY <1>3, GroupsAreGrouped
<1> HIDE DEF groups, N
<1>5. ASSUME NEW i \in DOMAIN groups
      PROVE  Manager(o, groups[i][1].at).address.of = groups[i][1].at.of
  <2>1. PICK m \in 1 .. N : groups[i][1] = sorted[m]
    BY <1>4 DEF Grouped
  <2>2. sorted[m] \in Range(loans)
    <3>1. m \in DOMAIN sorted
      BY <1>3
    <3> QED
      BY <1>3, <3>1 DEF Range
  <2>3. HasManager(o, groups[i][1].at)
    BY <2>1, <2>2
  <2> QED
    BY <2>3, ManagerIsHome
<1>6. ASSUME NEW l \in Range(loans)
      PROVE  Cardinality({i \in DOMAIN loans : loans[i].id = l.id /\ loans[i].at.of = l.at.of})
               = Cardinality(Served(txs, l))
  <2> DEFINE M == {x \in Loans : x.id = l.id /\ x.at.of = l.at.of}
  <2>1. \A i \in DOMAIN loans : loans[i] \in Loans
    BY <1>1
  <2>2. {i \in DOMAIN loans : loans[i].id = l.id /\ loans[i].at.of = l.at.of} = Among(loans, N, M)
    BY <1>2, <2>1 DEF Among
  <2>3. ASSUME NEW i \in DOMAIN groups, NEW k \in DOMAIN groups[i]
        PROVE  /\ groups[i][k].at = groups[i][1].at
               /\ groups[i][k] \in M <=> groups[i][k].id = l.id /\ groups[i][k].at.of = l.at.of
    <3>1. groups[i][k] \in Loans
      <4>1. groups[i] \in Seq(Loans)
        BY <1>4
      <4> QED
        BY <4>1
    <3>2. groups[i][k].at = groups[i][1].at
      BY <1>4 DEF Grouped
    <3> QED
      BY <3>1, <3>2
  <2> HIDE DEF M, txs
  <2>4. Cardinality(Among(loans, N, M)) = Cardinality(Matching(groups, M))
    BY <1>1, <1>4, SortedCounts DEF N
  <2>5. Served(txs, l) = Matching(groups, M)
    BY <1>5, <2>3, PlacesOfLoans DEF txs
  <2> QED
    BY <2>2, <2>4, <2>5
<1>7. Len(txs) = Cardinality({l.at : l \in Range(loans)})
  <2>1. Len(groups) = Cardinality({l.at : l \in Range(loans)})
    BY <1>3, <1>4, AddressesCount
  <2>2. Len(groups) \in Nat /\ DOMAIN groups = 1 .. Len(groups)
    BY <1>4
  <2>3. DOMAIN txs = 1 .. Len(groups)
    BY <2>2 DEF CollectTxs
  <2>4. Len(txs) = Len(groups)
    <3> HIDE DEF txs
    <3> QED
      BY <2>2, <2>3
  <2> QED
    BY <2>1, <2>4
<1> DEFINE call == Call("done", "collect", o, NoAddress, loans, txs)
<1>8. call.txs = txs /\ call.loans = loans
  BY DEF Call
<1> HIDE DEF txs, call
<1>9. EachOnce(txs, loans)
  BY <1>6, <1>7 DEF EachOnce
<1>10. Collected(call)
  BY <1>8, <1>9 DEF Collected
<1> QED
  BY <1>10 DEF call, txs, groups

-----------------------------------------------------------------------------
(* What can be said of any call: only an ended one has transactions,       *)
(* collectLoans never waits, and what it returns is right.                 *)
Fine(call) ==
    /\ call.st \in {"idle", "waiting", "done", "rejected", "thrown", "refused"}
    /\ call.txs # <<>> => call.st = "done"
    /\ call.op = "collect" => call.st # "waiting"
    /\ Collected(call)

CallsFine == DOMAIN calls = Callers /\ \A c \in Callers : Fine(calls[c])

LEMMA OtherCallIsFine ==
    ASSUME NEW op, op # "collect", NEW o, NEW at, NEW loans, NEW txs,
           NEW st \in {"idle", "waiting", "done", "rejected", "thrown", "refused"},
           txs # <<>> => st = "done"
    PROVE  Fine(Call(st, op, o, at, loans, txs))
BY DEF Fine, Collected, Call

LEMMA OneCallChanges ==
    ASSUME CallsFine, NEW c \in Callers, NEW call, Fine(call), calls' = [calls EXCEPT ![c] = call]
    PROVE  CallsFine'
BY DEF CallsFine, Fine

LEMMA FineBegin ==
    ASSUME CallsFine, NEW c \in Callers, NEW op, op # "collect", NEW o, NEW at, NEW loans, NEW txs,
           NEW st \in {"waiting", "done", "thrown", "refused"}, txs # <<>> => st = "done",
           Begins(c, op, o, at, loans, st, txs)
    PROVE  CallsFine'
BY OtherCallIsFine, OneCallChanges DEF Begins

LEMMA FineEnd ==
    ASSUME CallsFine, NEW c \in Callers, NEW op, Waits(c, op),
           NEW txs, NEW st \in {"done", "rejected"}, txs # <<>> => st = "done", Ends(c, st, txs)
    PROVE  CallsFine'
<1>1. calls[c].op # "collect"
  BY DEF Waits, CallsFine, Fine
<1> QED
  BY <1>1, OtherCallIsFine, OneCallChanges DEF Ends

LEMMA CallsFineStep == HomeInv /\ CallsFine /\ [Next]_vars => CallsFine'
<1> SUFFICES ASSUME HomeInv, CallsFine, [Next]_vars PROVE CallsFine'
  OBVIOUS
<1>0. ASSUME UNCHANGED calls PROVE CallsFine'
  BY <1>0 DEF CallsFine
<1>1. CASE UNCHANGED vars
  BY <1>0, <1>1 DEF vars
<1>2. ASSUME NEW o \in Objects, Create(o) \/ Created(o) \/ NotCreated(o) PROVE CallsFine'
  BY <1>0, <1>2 DEF Create, Created, NotCreated
<1>3. ASSUME NEW k \in Remembered, NodeAnswers(k) \/ NodeFails(k) PROVE CallsFine'
  BY <1>0, <1>3 DEF NodeAnswers, NodeFails
<1>4. ASSUME NEW c \in Callers, NEW o \in Objects, NEW loan \in Loans,
             RepayLoan(c, o, loan) \/ NewEthBackedLoan(c, o, loan) \/ AddExtraCollateral(c, o, loan)
      PROVE  CallsFine'
  <2>1. CASE RepayLoan(c, o, loan)
    BY <2>1, FineBegin DEF RepayLoan
  <2>2. CASE NewEthBackedLoan(c, o, loan)
    BY <2>2, FineBegin DEF NewEthBackedLoan
  <2>3. CASE AddExtraCollateral(c, o, loan)
    BY <2>3, FineBegin DEF AddExtraCollateral
  <2> QED
    BY <1>4, <2>1, <2>2, <2>3
<1>5. ASSUME NEW c \in Callers, NEW o \in Objects, NEW loans \in LoanLists,
             CollectLoans(c, o, loans)
      PROVE  CallsFine'
  <2>1. CASE \A l \in Range(loans) : HasManager(o, l.at)
    <3>1. PICK sorted \in Sorted(loans) :
             Begins(c, "collect", o, NoAddress, loans, "done", CollectTxs(o, Groups(sorted)))
      BY <1>5, <2>1 DEF CollectLoans
    <3> DEFINE txs == CollectTxs(o, Groups(sorted))
               call == Call("done", "collect", o, NoAddress, loans, txs)
    <3>2. Collected(call)
      BY <2>1, <3>1, LoansAreCollected DEF Begins
    <3>3. Fine(call)
      <4>1. call.st = "done" /\ call.op = "collect"
        BY DEF Call
      <4> HIDE DEF call
      <4> QED
        BY <3>2, <4>1 DEF Fine
    <3>4. calls' = [calls EXCEPT ![c] = call]
      BY <3>1 DEF Begins
    <3> HIDE DEF call
    <3> QED
      BY <3>3, <3>4, OneCallChanges
  <2>2. CASE ~\A l \in Range(loans) : HasManager(o, l.at)
    <3> DEFINE call == Call("thrown", "collect", o, NoAddress, loans, <<>>)
    <3>1. calls' = [calls EXCEPT ![c] = call]
      BY <1>5, <2>2 DEF CollectLoans, Begins
    <3>2. Fine(call)
      BY DEF Call, Fine, Collected
    <3> HIDE DEF call
    <3> QED
      BY <3>1, <3>2, OneCallChanges
  <2> QED
    BY <2>1, <2>2
<1>6. ASSUME NEW c \in Callers, NEW o \in Objects, NEW at \in Exchanges, PlaceOrder(c, o, at)
      PROVE  CallsFine'
  <2>1. ASSUME NEW st \in {"thrown", "refused"}, Begins(c, "order", o, at, <<>>, st, <<>>)
        PROVE  CallsFine'
    BY <2>1, FineBegin
  <2>2. ASSUME NEW tx, Begins(c, "order", o, at, <<>>, "done", <<tx>>) PROVE CallsFine'
    BY <2>2, FineBegin
  <2> QED
    BY <1>6, <2>1, <2>2 DEF PlaceOrder
<1>7. ASSUME NEW c \in Callers, NEW o \in Objects,
             SetRate(c, o) \/ GetAllLoans(c, o) \/ GetFeeAccount(c, o)
      PROVE  CallsFine'
  BY <1>7, FineBegin DEF SetRate, GetAllLoans, GetFeeAccount
<1>8. ASSUME NEW c \in Callers, Repaid(c) \/ LoanCounted(c) \/ GotAllLoans(c) \/ GotFeeAccount(c)
      PROVE  CallsFine'
  <2>1. CASE Repaid(c)
    BY <2>1, FineEnd DEF Repaid
  <2>2. CASE LoanCounted(c)
    BY <2>2, FineEnd DEF LoanCounted
  <2>3. CASE GotAllLoans(c)
    BY <2>3, FineEnd DEF GotAllLoans
  <2>4. CASE GotFeeAccount(c)
    BY <2>4, FineEnd DEF GotFeeAccount
  <2> QED
    BY <1>8, <2>1, <2>2, <2>3, <2>4
<1> QED
  BY <1>1, <1>2, <1>3, <1>4, <1>5, <1>6, <1>7, <1>8, Zenon DEF Next

LEMMA CallsFineInit == Init => CallsFine
BY DEF Init, CallsFine, Fine, Collected, NoCall, Call

(* collectLoans leaves no loan out and collects none twice, sends each to  *)
(* its own loan manager, and makes one transaction per address, for every  *)
(* list and however it is sorted (Augmint.ts 261-282).                     *)
THEOREM EveryLoanIsCollected == Spec => []CollectedOnce
<1>1. CallsFine => CollectedOnce
  BY DEF CallsFine, Fine, Collected, EachOnce, Served, CollectedOnce
<1> QED
  BY <1>1, HomeInit, HomeStep, PromiseInit, PromiseStep, CallsFineInit, CallsFineStep, PTL DEF Spec

-----------------------------------------------------------------------------
(* Type correctness *)

States == {"none", "connecting", "ready", "failed"}

(* Instances are never dropped, so those of a ready object stay.           *)
ManagersAreInstances ==
    \A o \in Objects : state[o] = "ready" =>
        \A a \in DOMAIN loanManagers[o] : loanManagers[o][a] \in instances

PromiseShape ==
    \A k \in Remembered : promises[k].st # "known" => promises[k].val = NoAddress

TypeInv ==
    /\ state \in [Objects -> States]
    /\ ManagersAreInstances
    /\ PromiseShape

LEMMA InstancesStay ==
    ASSUME NEW o, NEW ds
    PROVE  instances \subseteq Connected(o, ds)
BY DEF Connected

(* Everything but the making of an object leaves the objects alone and     *)
(* drops no instance.                                                      *)
LEMMA ManagersStay ==
    ASSUME ManagersAreInstances, UNCHANGED objectVars, instances \subseteq instances'
    PROVE  ManagersAreInstances'
BY DEF ManagersAreInstances

LEMMA AskShape ==
    ASSUME PromiseShape, NEW ks, Ask(ks)
    PROVE  PromiseShape'
BY DEF PromiseShape, Ask

(* The map of a new object holds instances that connect returned.          *)
LEMMA MapIsInstances ==
    ASSUME NEW o, NEW list, NEW n \in Nat, DOMAIN list = 1 .. n
    PROVE  LET is == Connected(o, Range(list))
               map == ManagerMap(list, is)
           IN  \A a \in DOMAIN map : map[a] \in is
<1> DEFINE is == Connected(o, Range(list))
           map == ManagerMap(list, is)
           latter(a) == CHOOSE i \in Places(list, a) : \A j \in Places(list, a) : j <= i
<1>1. DOMAIN map = {Lower(list[i].address) : i \in DOMAIN list}
  BY DEF ManagerMap
<1> SUFFICES ASSUME NEW a \in DOMAIN map PROVE map[a] \in is
  OBVIOUS
<1>2. PICK k \in DOMAIN list : a = Lower(list[k].address)
  BY <1>1
<1>3. k \in Places(list, a)
  BY <1>2 DEF Places, Lower
<1>4. latter(a) \in Places(list, a)
  BY <1>3, LastPlace
<1>5. list[latter(a)] \in Range(list)
  BY <1>4 DEF Places, Range
<1>6. map[a] = InstanceOf(list[latter(a)], is)
  BY <1>1 DEF ManagerMap
<1> QED
  BY <1>5, <1>6, InstanceFits

LEMMA ManagersAreSequence ==
    ASSUME NEW e \in Environments
    PROVE  \E n \in Nat : DOMAIN Managers(e) = 1 .. n
<1>1. CASE "LoanManager" \in DOMAIN e
  BY <1>1, ListsAreSequences DEF Managers
<1>2. CASE "LoanManager" \notin DOMAIN e
  <2>1. Managers(e) = <<>>
    BY <1>2 DEF Managers
  <2> QED
    BY <2>1
<1> QED
  BY <1>1, <1>2

LEMMA CreateTypes ==
    ASSUME TypeInv, HomeInv, NEW o \in Objects, Create(o) \/ Created(o) \/ NotCreated(o)
    PROVE  TypeInv'
<1>1. state' \in [Objects -> States]
  BY DEF TypeInv, States, Create, Created, NotCreated
<1>2. ManagersAreInstances'
  <2>1. CASE Create(o) \/ NotCreated(o)
    BY <2>1 DEF Create, NotCreated, TypeInv, ManagersAreInstances
  <2>2. CASE Created(o)
    <3>1. PICK e \in Environments :
             /\ instances' = Connected(o, Range(Managers(e)))
             /\ loanManagers' = [loanManagers EXCEPT ![o] = ManagerMap(Managers(e), instances')]
      BY <2>2 DEF Created
    <3>2. \A a \in DOMAIN loanManagers'[o] : loanManagers'[o][a] \in instances'
      <4>1. loanManagers'[o] = ManagerMap(Managers(e), Connected(o, Range(Managers(e))))
        BY <3>1 DEF HomeInv
      <4> QED
        BY <3>1, <4>1, ManagersAreSequence, MapIsInstances
    <3>3. ASSUME NEW p \in Objects \ {o}
          PROVE  loanManagers'[p] = loanManagers[p] /\ state'[p] = state[p]
      BY <2>2, <3>1 DEF Created, HomeInv
    <3>4. instances \subseteq instances'
      BY <3>1, InstancesStay
    <3> QED
      BY <3>2, <3>3, <3>4 DEF TypeInv, ManagersAreInstances
  <2> QED
    BY <2>1, <2>2
<1>3. UNCHANGED promises
  BY DEF Create, Created, NotCreated
<1> QED
  BY <1>1, <1>2, <1>3 DEF TypeInv, PromiseShape

(* A call's step: the objects stay, instances are added, promises asked.   *)
LEMMA CallTypes ==
    ASSUME TypeInv, UNCHANGED objectVars, instances \subseteq instances',
           UNCHANGED promises \/ \E ks : Ask(ks)
    PROVE  TypeInv'
<1>1. ManagersAreInstances'
  BY ManagersStay DEF TypeInv
<1>2. PromiseShape'
  BY AskShape DEF TypeInv, PromiseShape
<1> QED
  BY <1>1, <1>2 DEF TypeInv

LEMMA TypeStep == TypeInv /\ HomeInv /\ PromiseInv /\ [Next]_vars => TypeInv'
<1> SUFFICES ASSUME TypeInv, HomeInv, PromiseInv, [Next]_vars PROVE TypeInv'
  OBVIOUS
<1>1. CASE UNCHANGED vars
  BY <1>1, CallTypes DEF vars
<1>2. ASSUME NEW o \in Objects, Create(o) \/ Created(o) \/ NotCreated(o) PROVE TypeInv'
  BY <1>2, CreateTypes
<1>3. ASSUME NEW k \in Remembered, NodeAnswers(k) \/ NodeFails(k) PROVE TypeInv'
  <2>1. PromiseShape'
    BY <1>3 DEF NodeAnswers, NodeFails, TypeInv, PromiseShape, PromiseInv, PromiseType
  <2>2. ManagersAreInstances'
    BY <1>3, ManagersStay DEF NodeAnswers, NodeFails, TypeInv
  <2> QED
    BY <1>3, <2>1, <2>2 DEF NodeAnswers, NodeFails, TypeInv
<1>4. ASSUME NEW c \in Callers, NEW o \in Objects, NEW loan \in Loans,
             RepayLoan(c, o, loan) \/ NewEthBackedLoan(c, o, loan) \/ AddExtraCollateral(c, o, loan)
      PROVE  TypeInv'
  <2>1. CASE RepayLoan(c, o, loan)
    BY <2>1, CallTypes DEF RepayLoan, Begins
  <2>2. CASE NewEthBackedLoan(c, o, loan) \/ AddExtraCollateral(c, o, loan)
    BY <2>2, CallTypes DEF NewEthBackedLoan, AddExtraCollateral, Begins
  <2> QED
    BY <1>4, <2>1, <2>2
<1>5. ASSUME NEW c \in Callers, NEW o \in Objects, NEW loans \in LoanLists,
             CollectLoans(c, o, loans)
      PROVE  TypeInv'
  BY <1>5, CallTypes DEF CollectLoans, Begins
<1>6. ASSUME NEW c \in Callers, NEW o \in Objects, NEW at \in Exchanges, PlaceOrder(c, o, at)
      PROVE  TypeInv'
  <2>1. instances \subseteq instances'
    BY <1>6, InstancesStay DEF PlaceOrder
  <2>2. UNCHANGED <<objectVars, promises>>
    BY <1>6 DEF PlaceOrder, Begins
  <2> QED
    BY <2>1, <2>2, CallTypes
<1>7. ASSUME NEW c \in Callers, NEW o \in Objects,
             SetRate(c, o) \/ GetAllLoans(c, o) \/ GetFeeAccount(c, o)
      PROVE  TypeInv'
  <2>1. CASE SetRate(c, o)
    BY <2>1, CallTypes, InstancesStay DEF SetRate, Begins
  <2>2. CASE GetAllLoans(c, o)
    BY <2>2, CallTypes DEF GetAllLoans, Begins
  <2>3. CASE GetFeeAccount(c, o)
    BY <2>3, CallTypes, InstancesStay DEF GetFeeAccount, Begins
  <2> QED
    BY <1>7, <2>1, <2>2, <2>3
<1>8. ASSUME NEW c \in Callers, Repaid(c) \/ LoanCounted(c) \/ GotAllLoans(c) \/ GotFeeAccount(c)
      PROVE  TypeInv'
  <2>1. UNCHANGED <<objectVars, promises>>
    BY <1>8 DEF Repaid, LoanCounted, GotAllLoans, GotFeeAccount, Ends
  <2>2. instances \subseteq instances'
    BY <1>8, InstancesStay DEF Repaid, LoanCounted, GotAllLoans, GotFeeAccount
  <2> QED
    BY <2>1, <2>2, CallTypes
<1> QED
  BY <1>1, <1>2, <1>3, <1>4, <1>5, <1>6, <1>7, <1>8, Zenon DEF Next

LEMMA TypeInit == Init => TypeInv
BY AugmintAssumption DEF Init, TypeInv, States, ManagersAreInstances, PromiseShape, AugmintAssumption

(* A ready object knows an environment, and has each of its loan managers  *)
(* under its own address, as one of the connected instances (Augmint.ts    *)
(* 78-92, DeployedContract.ts 24-31); a promise has an answer only when    *)
(* there was one, and a call transactions only when it succeeded.          *)
THEOREM TypeCorrect == Spec => []TypeOK
<1>1. TypeInv /\ HomeInv /\ PromiseInv /\ CallsFine => TypeOK
  <2> SUFFICES ASSUME TypeInv, HomeInv, PromiseInv, CallsFine PROVE TypeOK
    OBVIOUS
  <2>1. ASSUME NEW o \in Objects, state[o] = "ready"
        PROVE  /\ environment[o] \in Environments
               /\ \A a \in DOMAIN loanManagers[o] :
                     loanManagers[o][a] \in instances /\ Lower(loanManagers[o][a].address) = a
    <3>1. environment[o] \in Environments /\ MapFits(loanManagers[o], Managers(environment[o]))
      BY <2>1 DEF HomeInv, ObjectFits
    <3>2. \A a \in DOMAIN loanManagers[o] : Lower(loanManagers[o][a].address) = a
      BY <3>1 DEF MapFits, Fits
    <3> QED
      BY <2>1, <3>1, <3>2 DEF TypeInv, ManagersAreInstances
  <2>2. ASSUME NEW k \in Remembered
        PROVE  /\ promises[k].st \in {"none", "asked", "known", "failed"}
               /\ promises[k].st # "known" => promises[k].val = NoAddress
    BY DEF PromiseInv, PromiseType, TypeInv, PromiseShape
  <2>3. ASSUME NEW c \in Callers
        PROVE  /\ calls[c].st \in {"idle", "waiting", "done", "rejected", "thrown", "refused"}
               /\ calls[c].txs # <<>> => calls[c].st = "done"
    BY DEF CallsFine, Fine
  <2> QED
    BY <2>1, <2>2, <2>3 DEF TypeOK, TypeInv, States
<1> QED
  BY <1>1, TypeInit, TypeStep, HomeInit, HomeStep, PromiseInit, PromiseStep,
     CallsFineInit, CallsFineStep, PTL DEF Spec
=============================================================================
