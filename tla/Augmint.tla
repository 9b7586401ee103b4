------------------------------- MODULE Augmint -------------------------------
(***************************************************************************)
(* src/src/Augmint.ts and what it hands its work to: the deployed          *)
(* environment, the module-wide cache of contract instances, the promises  *)
(* that LoanManager and AugmintToken keep, and the transactions that are   *)
(* built for loans and orders.  Several Augmint objects live in one        *)
(* process; callers use them concurrently.                                 *)
(***************************************************************************)
EXTENDS Naturals, Sequences, FiniteSets, SequencesExt

CONSTANTS
    Objects,            \* Augmint objects, each with a connection of its own
    Callers,            \* one asynchronous call each
    Generated,          \* per contract name the deployments of the generated list
    Stubs,              \* environments that create is given
    PreMarginAbis,      \* ABIs of loan managers without margin loans
    TokenOf,            \* external: the augmintToken of each loan manager, exchange
    LoanManagers,       \* ... and the loan managers themselves
    Loans,              \* what callers hold: [id, at, margin]
    LoanLists,          \* arguments of collectLoans
    Exchanges,          \* addresses that callers ask exchanges for
    FeeAccount, NoAddress, NoEnvironment

ASSUME AugmintAssumption ==
    /\ LoanManagers \cup {at.of : at \in Exchanges} = DOMAIN TokenOf
    /\ FeeAccount \notin LoanManagers
    /\ LoanLists \subseteq Seq(Loans)

VARIABLES
    environment,        \* deployedEnvironment of each object
    state,              \* of each object: "none", "connecting", "ready", "failed"
    instances,          \* connectedInstances, shared by all objects
    loanManagers,       \* per object, the instance per lower-case address
    promises,           \* per object, tokenAddress of its loan managers, and
                        \* feeAccountAddress of its token
    calls

objectVars == <<environment, state, loanManagers>>
vars == <<objectVars, instances, promises, calls>>

-----------------------------------------------------------------------------
(* Addresses are strings: the same contract may be spelled in lower case,  *)
(* with web3's checksum, or as somebody typed it.                          *)

Lower(at) == [of |-> at.of, spelled |-> "lower"]
Checksum(at) == [of |-> at.of, spelled |-> "checksum"]

(* The generated list: the current deployment first, then the newest. *)
Listed(deployments) ==
    LET Before(a, b) == a.current \/ (~b.current /\ a.generated > b.generated)
        sorted == CHOOSE s \in [1 .. Cardinality(deployments) -> deployments] :
                      \A i, j \in DOMAIN s : i < j => s[i] # s[j] /\ Before(s[i], s[j])
    IN  [i \in DOMAIN sorted |->
            [abi |-> sorted[i].abi, address |-> Lower(sorted[i].address)]]

Deployments == [name \in DOMAIN Generated |-> Listed(Generated[name])]

Managers(e) == IF "LoanManager" \in DOMAIN e THEN e["LoanManager"] ELSE <<>>

(* Where a list has this address, in any spelling, and where first. *)
PlacesBug(list, at) == {i \in DOMAIN list : Lower(list[i].address) = at}
Places(list, at) == {i \in DOMAIN list : Lower(list[i].address) = Lower(at)}
Found(list, at) == list[CHOOSE i \in Places(list, at) : \A j \in Places(list, at) : i <= j]

-----------------------------------------------------------------------------
(* connect(): one instance per ABI and address, made with the web3 of the  *)
(* object that asks first.                                                 *)
InstanceHashBug(d) == d.abi
InstanceHash(d) == <<d.abi, d.address>>

Connected(o, deployments) ==
    instances \cup
        {[abi |-> d.abi, address |-> d.address, web3 |-> o] :
            d \in {e \in deployments : \A i \in instances : InstanceHash(i) # InstanceHash(e)}}

InstanceOf(d, connected) == CHOOSE i \in connected : InstanceHash(i) = InstanceHash(d)

(* The map that the constructor makes; a later deployment replaces an      *)
(* earlier one at its address.                                             *)
ManagerMap(list, connected) ==
    LET Latter(a) == CHOOSE i \in Places(list, a) : \A j \in Places(list, a) : j <= i
    IN  [a \in {Lower(list[i].address) : i \in DOMAIN list} |->
            InstanceOf(list[Latter(a)], connected)]

(* The environments have what the getters take for granted, and know their *)
(* loan managers.                                                          *)
Environments == Stubs \cup {Deployments}

ASSUME EnvironmentAssumption ==
    \A e \in Environments :
        /\ {"TokenAEur", "Exchange", "Rates"} \subseteq DOMAIN e
        /\ \A name \in DOMAIN e : e[name] \in Seq(Range(e[name])) /\ e[name] # <<>>
        /\ \A d \in Range(Managers(e)) : d.address.of \in LoanManagers

(* What LoanManager and AugmintToken keep the promises of. *)
Remembered == Objects \X (LoanManagers \cup {FeeAccount})

(* A call: what it does, of which object, about which address and loans,   *)
(* and the transactions it has returned.                                   *)
Call(st, op, o, at, loans, txs) ==
    [st |-> st, op |-> op, o |-> o, at |-> at, loans |-> loans, txs |-> txs]

NoCall == Call("idle", "none", NoEnvironment, NoAddress, <<>>, <<>>)

Init ==
    /\ environment = [o \in Objects |-> NoEnvironment]
    /\ state = [o \in Objects |-> "none"]
    /\ instances = {}
    /\ loanManagers = [o \in Objects |-> <<>>]
    /\ promises = [k \in Remembered |-> [st |-> "none", val |-> NoAddress]]
    /\ calls = [c \in Callers |-> NoCall]

(* create() up to its first await, and after it: the environment is the    *)
(* one given or that of the network.                                       *)
Create(o) ==
    /\ state[o] = "none"
    /\ state' = [state EXCEPT ![o] = "connecting"]
    /\ UNCHANGED <<environment, loanManagers, instances, promises, calls>>

Created(o) ==
    /\ state[o] = "connecting"
    /\ \E e \in Environments :
          /\ environment' = [environment EXCEPT ![o] = e]
          /\ instances' = Connected(o, Range(Managers(e)))
          /\ loanManagers' = [loanManagers EXCEPT ![o] = ManagerMap(Managers(e), instances')]
    /\ state' = [state EXCEPT ![o] = "ready"]
    /\ UNCHANGED <<promises, calls>>

(* connect rejects, or there is no environment for the network. *)
NotCreated(o) ==
    /\ state[o] = "connecting"
    /\ state' = [state EXCEPT ![o] = "failed"]
    /\ UNCHANGED <<environment, loanManagers, instances, promises, calls>>

-----------------------------------------------------------------------------
(* Promises that are kept: the getter asks the node unless it did before,  *)
(* and stores the promise before it is answered.                           *)
MustAsk(k) == promises[k].st = "none"

Ask(ks) ==
    promises' = [k \in Remembered |-> IF k \in ks /\ MustAsk(k)
                                THEN [st |-> "asked", val |-> NoAddress] ELSE promises[k]]

OnChain(k) == IF k[2] = FeeAccount THEN [of |-> FeeAccount, spelled |-> "checksum"]
              ELSE TokenOf[k[2]]

NodeAnswers(k) ==
    /\ promises[k].st = "asked"
    /\ promises' = [promises EXCEPT ![k] = [st |-> "known", val |-> OnChain(k)]]
    /\ UNCHANGED <<objectVars, instances, calls>>

NodeFails(k) ==
    /\ promises[k].st = "asked"
    /\ promises' = [promises EXCEPT ![k] = [st |-> "failed", val |-> NoAddress]]
    /\ UNCHANGED <<objectVars, instances, calls>>

-----------------------------------------------------------------------------
Begins(c, op, o, at, loans, st, txs) ==
    /\ calls[c].st = "idle" /\ state[o] = "ready"
    /\ calls' = [calls EXCEPT ![c] = Call(st, op, o, at, loans, txs)]
    /\ UNCHANGED objectVars

Waits(c, op) == calls[c].st = "waiting" /\ calls[c].op = op

Ends(c, st, txs) ==
    /\ calls' = [calls EXCEPT ![c] =
                     Call(st, calls[c].op, calls[c].o, calls[c].at, calls[c].loans, txs)]
    /\ UNCHANGED <<objectVars, promises>>

Tx(method, to, notify, ids) == [method |-> method, to |-> to, notify |-> notify, ids |-> ids]

(* getLoanManagerByAddress throws if there is none. *)
HasManagerBug(o, at) == at \in DOMAIN loanManagers[o]
HasManager(o, at) == Lower(at) \in DOMAIN loanManagers[o]
Manager(o, at) == loanManagers[o][Lower(at)]

-----------------------------------------------------------------------------
(* repayLoan awaits the token's address, and finds the token. *)
RepayLoan(c, o, loan) ==
    LET known == HasManager(o, loan.at)
    IN  /\ Begins(c, "repay", o, loan.at, <<loan>>, IF known THEN "waiting" ELSE "thrown", <<>>)
        /\ Ask(IF known THEN {<<o, loan.at.of>>} ELSE {})
        /\ UNCHANGED instances

Repaid(c) ==
    LET o == calls[c].o
        k == <<o, calls[c].at.of>>
        tokens == environment[o]["TokenAEur"]
        token == Found(tokens, promises[k].val)
    IN  /\ Waits(c, "repay") /\ promises[k].st \in {"known", "failed"}
        /\ IF promises[k].st = "known" /\ Places(tokens, promises[k].val) # {}
           THEN /\ instances' = Connected(o, {token})
                /\ Ends(c, "done", <<Tx("transferAndNotify", InstanceOf(token, instances'),
                                        Checksum(Manager(o, calls[c].at).address),
                                        <<calls[c].loans[1].id>>)>>)
           ELSE UNCHANGED instances /\ Ends(c, "rejected", <<>>)

(* newEthBackedLoan awaits the number of loans; whether a minimal rate is  *)
(* given must agree with the manager's ABI.                                *)
NewEthBackedLoan(c, o, loan) ==
    /\ Begins(c, "new", o, loan.at, <<loan>>,
              IF HasManager(o, loan.at) THEN "waiting" ELSE "thrown", <<>>)
    /\ UNCHANGED <<instances, promises>>

LoanCounted(c) ==
    LET manager == Manager(calls[c].o, calls[c].at)
    IN  /\ Waits(c, "new")
        /\ \/ \E minRate \in BOOLEAN :
                 IF minRate <=> manager.abi \notin PreMarginAbis
                 THEN Ends(c, "done", <<Tx("newEthBackedLoan", manager, NoAddress,
                                          <<calls[c].loans[1].id>>)>>)
                 ELSE Ends(c, "rejected", <<>>)
           \/ Ends(c, "rejected", <<>>)
        /\ UNCHANGED instances

AddExtraCollateral(c, o, loan) ==
    LET margin == /\ HasManager(o, loan.at) /\ loan.margin
                  /\ Manager(o, loan.at).abi \notin PreMarginAbis
    IN  /\ IF margin
           THEN Begins(c, "collateral", o, loan.at, <<loan>>, "done",
                       <<Tx("addExtraCollateral", Manager(o, loan.at), NoAddress, <<loan.id>>)>>)
           ELSE Begins(c, "collateral", o, loan.at, <<loan>>,
                       IF HasManager(o, loan.at) THEN "refused" ELSE "thrown", <<>>)
        /\ UNCHANGED <<instances, promises>>

(* The lists of all loan managers together: a loan is given the token's    *)
(* address, and one list that fails fails them all.                        *)
Managed(o) == {o} \X {a.of : a \in DOMAIN loanManagers[o]}

GetAllLoans(c, o) ==
    /\ Begins(c, "list", o, NoAddress, <<>>, "waiting", <<>>)
    /\ Ask(Managed(o))
    /\ UNCHANGED instances

GotAllLoans(c) ==
    LET ks == Managed(calls[c].o)
    IN  /\ Waits(c, "list")
        /\ \/ /\ \A k \in ks : promises[k].st = "known"
              /\ Ends(c, "done", <<>>)
           \/ /\ \E k \in ks :      \* its token's address, or its list
                    promises[k].st \in {"known", "failed"}
              /\ Ends(c, "rejected", <<>>)
        /\ UNCHANGED instances

-----------------------------------------------------------------------------
(* collectLoans sorts by address, and equal strings are taken to be         *)
(* neighbours then; the comparison never says "equal", so their order is    *)
(* anybody's guess.                                                         *)
Sorted(loans) ==
    {p \in [DOMAIN loans -> Range(loans)] :
        /\ \A l \in Range(loans) : Cardinality({i \in DOMAIN p : p[i] = l})
                                   = Cardinality({i \in DOMAIN loans : loans[i] = l})
        /\ \A i, j, k \in DOMAIN p : i < j /\ j < k /\ p[i].at = p[k].at => p[j].at = p[i].at}

(* The loop: a loan joins the group before it or opens the next one. *)
JoinBug(groups, loan) ==                 \* goes on with the loans it has
    IF groups # <<>> THEN Append(groups, Append(groups[Len(groups)], loan)) ELSE <<<<loan>>>>
Join(groups, loan) ==
    IF groups # <<>> /\ groups[Len(groups)][1].at = loan.at
    THEN [groups EXCEPT ![Len(groups)] = Append(@, loan)]
    ELSE Append(groups, <<loan>>)

Groups(loans) == FoldLeft(Join, <<>>, loans)

Ids(loans) == [i \in DOMAIN loans |-> loans[i].id]

CollectTxs(o, groups) ==
    [i \in DOMAIN groups |->
        Tx("collect", Manager(o, groups[i][1].at), NoAddress, Ids(groups[i]))]

(* One unknown loan manager, and no transaction is returned. *)
CollectLoans(c, o, loans) ==
    /\ IF \A l \in Range(loans) : HasManager(o, l.at)
       THEN \E sorted \in Sorted(loans) :
                Begins(c, "collect", o, NoAddress, loans, "done", CollectTxs(o, Groups(sorted)))
       ELSE Begins(c, "collect", o, NoAddress, loans, "thrown", <<>>)
    /\ UNCHANGED <<instances, promises>>

-----------------------------------------------------------------------------
(* An exchange, the latest or a legacy one, is made with the latest token  *)
(* and rates.  Selling goes through the token, the rest to the exchange;   *)
(* a match without ids, or with ids that do not pair up, is refused.       *)
(* Addresses that do not match as many exchanges are refused altogether.   *)
Latest(o, name) == environment[o][name][1]
HasExchange(o, at) == Cardinality(Places(environment[o]["Exchange"], at)) = 1

PlaceOrder(c, o, at) ==
    LET found == Found(environment[o]["Exchange"], at)
        token == Latest(o, "TokenAEur")
        exchange == InstanceOf(found, instances')
    IN  /\ state[o] = "ready"
        /\ IF HasExchange(o, at)
           THEN /\ instances' = Connected(o, {found, token, Latest(o, "Rates")})
                /\ \/ Begins(c, "order", o, at, <<>>, "refused", <<>>)
                   \/ \E tx \in {Tx("transferAndNotify", InstanceOf(token, instances'),
                                    Checksum(exchange.address), <<>>),
                                 Tx("placeBuyTokenOrder", exchange, NoAddress, <<>>),
                                 Tx("matchMultipleOrders", exchange, NoAddress, <<>>)} :
                          Begins(c, "order", o, at, <<>>, "done", <<tx>>)
           ELSE /\ UNCHANGED instances
                /\ Begins(c, "order", o, at, <<>>, "thrown", <<>>)
        /\ UNCHANGED promises

SetRate(c, o) ==
    /\ state[o] = "ready"
    /\ instances' = Connected(o, {Latest(o, "Rates")})
    /\ Begins(c, "rate", o, NoAddress, <<>>, "done",
              <<Tx("setRate", InstanceOf(Latest(o, "Rates"), instances'), NoAddress, <<>>)>>)
    /\ UNCHANGED promises

(* The token's properties, of which the fee account's address is one. *)
GetFeeAccount(c, o) ==
    /\ state[o] = "ready"
    /\ Begins(c, "fee", o, NoAddress, <<>>, "waiting", <<>>)
    /\ instances' = Connected(o, {Latest(o, "TokenAEur")})
    /\ Ask({<<o, FeeAccount>>})

GotFeeAccount(c) ==
    LET k == <<calls[c].o, FeeAccount>>
    IN  /\ Waits(c, "fee") /\ promises[k].st \in {"known", "failed"}
        /\ Ends(c, IF promises[k].st = "known" THEN "done" ELSE "rejected", <<>>)
        /\ UNCHANGED instances

-----------------------------------------------------------------------------
Next ==
    \/ \E o \in Objects : Create(o) \/ Created(o) \/ NotCreated(o)
    \/ \E k \in Remembered : NodeAnswers(k) \/ NodeFails(k)
    \/ \E c \in Callers, o \in Objects :
          \/ \E loan \in Loans : \/ RepayLoan(c, o, loan) \/ NewEthBackedLoan(c, o, loan)
                                \/ AddExtraCollateral(c, o, loan)
          \/ \E loans \in LoanLists : CollectLoans(c, o, loans)
          \/ \E at \in Exchanges : PlaceOrder(c, o, at)
          \/ SetRate(c, o) \/ GetAllLoans(c, o) \/ GetFeeAccount(c, o)
    \/ \E c \in Callers : Repaid(c) \/ LoanCounted(c) \/ GotAllLoans(c) \/ GotFeeAccount(c)

Spec == Init /\ [][Next]_vars

-----------------------------------------------------------------------------
(* Safety *)

Deployed(o) == UNION {Range(environment[o][name]) : name \in DOMAIN environment[o]}

TypeOK ==
    /\ state \in [Objects -> {"none", "connecting", "ready", "failed"}]
    /\ \A o \in Objects : state[o] = "ready" =>
          /\ environment[o] \in Environments
          /\ \A a \in DOMAIN loanManagers[o] :
                loanManagers[o][a] \in instances /\ Lower(loanManagers[o][a].address) = a
    /\ \A k \in Remembered : /\ promises[k].st \in {"none", "asked", "known", "failed"}
                       /\ promises[k].st # "known" => promises[k].val = NoAddress
    /\ \A c \in Callers :
          /\ calls[c].st \in {"idle", "waiting", "done", "rejected", "thrown", "refused"}
          /\ calls[c].txs # <<>> => calls[c].st = "done"

(* A call about a loan or an exchange ends at the contract it is about:    *)
(* with the ABI and the address that the environment has for it, however   *)
(* the address was spelled and whoever connected first.  A repayment goes  *)
(* through the token of that loan manager, addressed to it.  A sell is     *)
(* addressed to its exchange too, but goes through the latest token: the   *)
(* exchange's own exactly if that is the latest.  Nobody is told that a    *)
(* deployed loan manager does not exist.  Through which object's web3 the  *)
(* transaction is sent is not claimed (Augmint.ts 178-197, 231-311,        *)
(* DeployedContract.ts 22-29, DeployedEnvironment.ts 50-80).               *)
ThroughOwnToken(tx, home) == tx.to.address.of = TokenOf[home.of].of

GoesHome(tx, o, op, home) ==
    /\ \E d \in Deployed(o) : tx.to.abi = d.abi /\ tx.to.address = d.address
    /\ op \in {"repay", "new", "collateral", "order"} =>
          IF tx.method = "transferAndNotify"
          THEN /\ tx.notify = Checksum(home)
               /\ op = "repay" => ThroughOwnToken(tx, home)
               /\ op = "order" =>
                     LET latest == Latest(o, "TokenAEur").address
                     IN  /\ tx.to.address = latest
                         /\ ThroughOwnToken(tx, home) <=> TokenOf[home.of].of = latest.of
          ELSE tx.to.address.of = home.of

ServedHome ==
    \A c \in Callers :
        LET o == calls[c].o
            op == calls[c].op
            home == calls[c].at
        IN  /\ op # "collect" => \A tx \in Range(calls[c].txs) : GoesHome(tx, o, op, home)
            /\ op \in {"repay", "new", "collateral"} /\ calls[c].st = "thrown" =>
                  \A d \in Range(Managers(environment[o])) : d.address.of # home.of

(* collectLoans puts each loan into one transaction, that of its own loan  *)
(* manager, and as often as it was given; there is one transaction per     *)
(* spelling of an address, so two for one loan manager that is spelled     *)
(* twice (Augmint.ts 261-282).  That equal spellings are neighbours after  *)
(* the sort is an assumption about the engine: see Sorted.                 *)
CollectedOnce ==
    \A c \in Callers : calls[c].op = "collect" /\ calls[c].st = "done" =>
        LET txs == calls[c].txs
            given == calls[c].loans
        IN  /\ \A l \in Range(given) :
                  Cardinality({i \in DOMAIN given : given[i].id = l.id /\ given[i].at.of = l.at.of})
                    = Cardinality({p \in UNION {{i} \X DOMAIN txs[i].ids : i \in DOMAIN txs} :
                                     /\ txs[p[1]].ids[p[2]] = l.id
                                     /\ txs[p[1]].to.address.of = l.at.of})
            /\ Len(txs) = Cardinality({l.at : l \in Range(given)})

(* Nobody is refused because of what others did: a repayment is rejected   *)
(* only if the one request for its manager's token failed, or if the       *)
(* environment has no token at the address the chain gave, in whatever     *)
(* spelling; a question for the fee account only if its request failed.    *)
(* That later callers share the failure of an earlier one is what the code *)
(* does (Augmint.ts 231-240, LoanManager.ts 58-63, DeployedEnvironment.ts  *)
(* 57-79).                                                                 *)
RejectedForCause ==
    \A c \in Callers : calls[c].st = "rejected" =>
        LET o == calls[c].o
            at == calls[c].at
        IN  /\ calls[c].op = "repay" =>
                  \/ promises[<<o, at.of>>].st = "failed"
                  \/ \A d \in Range(environment[o]["TokenAEur"]) : d.address.of # TokenOf[at.of].of
            /\ calls[c].op = "fee" => promises[<<o, FeeAccount>>].st = "failed"
=============================================================================
