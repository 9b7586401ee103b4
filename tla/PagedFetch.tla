------------------------------ MODULE PagedFetch ------------------------------
(***************************************************************************)
(* The loop that reads a contract's list page by page, an await a page,    *)
(* while the chain goes on: Exchange.getOrders, and getLoansForAccount,    *)
(* getAllLoans and getProducts of LoanManager (src/src/Exchange.ts and     *)
(* src/src/LoanManager.ts).                                                *)
(***************************************************************************)
EXTENDS Integers, Filter, Sequences, SequencesExt

CONSTANTS
    Kinds,        \* the lists: among "orders", "loans" and "products"
    CHUNK_SIZE,   \* 100 in constants.ts
    MaxItems      \* bound on the items ever created

ASSUME PagesAssumption ==
    /\ Kinds \subseteq {"orders", "loans", "products"}
    /\ CHUNK_SIZE \in Nat \ {0}
    /\ MaxItems \in Nat

VARIABLES
    kind, legacy, onlyActive,   \* what is read, from which contract
    pc,                         \* "fetching", "returned" or "rejected"
    i,                          \* pages read
    result,                     \* what was read: items as they were then
    list,                       \* EXTERNAL: the contract's list of item ids
    active,                     \* EXTERNAL: those of the items that are active
    created,                    \* EXTERNAL: how many items there ever were
    \* History, for the properties only:
    atRead,                     \* the list when the last page was read
    stayed                      \* listed and active ever since the first request

callVars == <<kind, legacy, onlyActive, pc, i, result, atRead>>
chainVars == <<list, active, created, stayed>>
vars == <<callVars, chainVars>>

Items == 1 .. MaxItems
NoItem == 0                     \* an all-zero tuple

Init ==
    /\ kind \in Kinds
    /\ legacy \in BOOLEAN
    /\ onlyActive \in IF kind = "products" THEN BOOLEAN ELSE {FALSE}
    /\ pc = "fetching" /\ i = 0 /\ result = <<>>
    /\ created \in 0 .. MaxItems
    /\ list = [n \in 1 .. created |-> n]
    /\ active \in IF kind = "products" THEN SUBSET (1 .. created) ELSE {1 .. created}
    /\ atRead = list /\ stayed = active

-----------------------------------------------------------------------------
(* The chain *)

Create ==
    /\ created < MaxItems
    /\ created' = created + 1
    /\ list' = Append(list, created + 1)
    /\ active' = active \cup {created + 1}
    /\ UNCHANGED <<callVars, stayed>>

(* An order is filled or cancelled: the list closes up, in order or with   *)
(* its last item.                                                          *)
Leave(n) ==
    /\ kind = "orders"
    /\ n \in DOMAIN list
    /\ list' \in {RemoveAt(list, n), Front([list EXCEPT ![n] = Last(list)])}
    /\ active' = active \ {list[n]} /\ stayed' = stayed \ {list[n]}
    /\ UNCHANGED <<callVars, created>>

(* A product is activated or disabled. *)
Toggle(item) ==
    /\ kind = "products"
    /\ item \in 1 .. created
    /\ active' = IF item \in active THEN active \ {item} ELSE active \cup {item}
    /\ stayed' = stayed \ {item}
    /\ UNCHANGED <<callVars, list, created>>

-----------------------------------------------------------------------------
(* The loop *)

(* The contract's answer.  A legacy contract fills its fixed-size array    *)
(* with zeros.                                                             *)
Page(offset) ==
    [n \in 1 .. IF legacy \/ Len(list) >= offset + CHUNK_SIZE THEN CHUNK_SIZE
                ELSE IF Len(list) > offset THEN Len(list) - offset ELSE 0 |->
        IF offset + n <= Len(list)
        THEN [id |-> list[offset + n], active |-> list[offset + n] \in active]
        ELSE [id |-> NoItem, active |-> FALSE]]

FilteredBug(page) == page                                \* keeps the zeros
FilteredEarlyBug(page) ==                                \* drops what is inactive
    Kept(page, {n \in DOMAIN page : page[n].id # NoItem /\ (page[n].active \/ ~onlyActive)})
Filtered(page) == Kept(page, {n \in DOMAIN page : page[n].id # NoItem})

OffsetBug(pages) == pages                                \* an offset in pages
Offset(pages) == pages * CHUNK_SIZE

HasMoreBug(fetched) == Len(fetched) > CHUNK_SIZE
HasMore(fetched) == Len(fetched) = CHUNK_SIZE

ReadPage ==
    /\ pc = "fetching"
    /\ LET fetched == Filtered(Page(Offset(i)))
       IN  /\ result' = result \o fetched
           /\ pc' = IF HasMore(fetched) THEN "fetching" ELSE "returned"
    /\ i' = i + 1
    /\ atRead' = list
    /\ UNCHANGED <<kind, legacy, onlyActive, chainVars>>

(* A request is rejected, and with it the call. *)
PageFails ==
    /\ pc = "fetching"
    /\ pc' = "rejected"
    /\ UNCHANGED <<kind, legacy, onlyActive, i, result, atRead, chainVars>>

Next ==
    \/ ReadPage \/ PageFails \/ Create
    \/ \E n \in Items : Leave(n) \/ Toggle(n)

Spec == Init /\ [][Next]_vars

(* What the call returns: getActiveProducts drops the others at the end. *)
Returned == Kept(result, {n \in DOMAIN result : result[n].active \/ ~onlyActive})

-----------------------------------------------------------------------------
(* Safety *)

TypeOK ==
    /\ kind \in Kinds /\ legacy \in BOOLEAN /\ onlyActive \in BOOLEAN
    /\ pc \in {"fetching", "returned", "rejected"}
    /\ i \in Nat
    /\ result \in Seq([id : Items, active : BOOLEAN])
    /\ created \in 0 .. MaxItems
    /\ list \in Seq(1 .. created)
    /\ active \subseteq 1 .. created /\ stayed \subseteq 1 .. created
    /\ atRead \in Seq(1 .. created)

(* A list that only grows comes back as it was when its last page was      *)
(* read, wherever its length falls among the pages and whenever it grew    *)
(* (LoanManager.ts 102-113, 148-159, 209-220).                             *)
CompleteList ==
    pc = "returned" /\ kind # "orders" =>
        [n \in DOMAIN result |-> result[n].id] = atRead

(* No order appears twice in a book, although orders move towards the      *)
(* front of the list when others leave it between two pages (Exchange.ts   *)
(* 311-322).                                                               *)
NoDuplicates == \A m, n \in DOMAIN result : result[m].id = result[n].id => m = n

(* An order is missing from a book only if another left the list: each one *)
(* that leaves moves at most one order to a page already read, and it may  *)
(* end the loop early only when no page is left (Exchange.ts 311-322).     *)
Missed == {item \in stayed : \A n \in DOMAIN result : result[n].id # item}

MissedBounded == pc = "returned" => Cardinality(Missed) <= created - Len(list)

(* getActiveProducts misses no product that was active all the time: the   *)
(* inactive ones on the way do not end the loop early (lines 209-220).     *)
ActiveAreReturned ==
    pc = "returned" /\ kind = "products" =>
        \A item \in stayed : \E n \in DOMAIN Returned : Returned[n].id = item
=============================================================================
