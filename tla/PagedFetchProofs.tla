-------------------------- MODULE PagedFetchProofs --------------------------
(***************************************************************************)
(* Proofs about module PagedFetch, for any page size and number of items,  *)
(* whatever the chain does between two pages.                              *)
(***************************************************************************)
EXTENDS PagedFetch, FilterProofs, FiniteSetTheorems

-----------------------------------------------------------------------------
(* What a page holds after the zeros are dropped: the part of the list     *)
(* that starts at the offset, with what is active at that time.            *)

Item == [id : Items, active : BOOLEAN]

(* How many items a page has. *)
PageSize(offset) ==
    IF Len(list) >= offset + CHUNK_SIZE THEN CHUNK_SIZE
    ELSE IF Len(list) > offset THEN Len(list) - offset ELSE 0

LEMMA FilteredPage ==
    ASSUME TypeOK, NEW offset \in Nat
    PROVE  LET fetched == Filtered(Page(offset))
           IN  /\ fetched \in Seq(Item)
               /\ Len(fetched) = PageSize(offset)
               /\ \A n \in 1 .. PageSize(offset) :
                    /\ offset + n \in 1 .. Len(list)
                    /\ fetched[n] = [id |-> list[offset + n],
                                     active |-> list[offset + n] \in active]
<1> DEFINE page == Page(offset)
           size == IF legacy \/ Len(list) >= offset + CHUNK_SIZE THEN CHUNK_SIZE
                   ELSE IF Len(list) > offset THEN Len(list) - offset ELSE 0
           entry(n) == IF offset + n <= Len(list)
                       THEN [id |-> list[offset + n], active |-> list[offset + n] \in active]
                       ELSE [id |-> NoItem, active |-> FALSE]
           m == PageSize(offset)
           full == {n \in DOMAIN page : page[n].id # NoItem}
           S == [id : Items \cup {NoItem}, active : BOOLEAN]
<1>1. Len(list) \in Nat /\ CHUNK_SIZE \in Nat \ {0} /\ MaxItems \in Nat /\ created \in Nat
      /\ created <= MaxItems
  BY PagesAssumption DEF TypeOK
<1>2. size \in Nat /\ m \in 0 .. size
  BY <1>1 DEF PageSize
<1>3. page = [n \in 1 .. size |-> entry(n)]
  BY DEF Page
<1>4. \A n \in 1 .. Len(list) : list[n] \in Items
  BY <1>1 DEF TypeOK, Items
<1>5. \A n \in 1 .. size : n <= m <=> offset + n <= Len(list)
  BY <1>1 DEF PageSize
<1>6. ASSUME NEW n \in 1 .. size
      PROVE  entry(n) \in S /\ (entry(n).id # NoItem <=> n <= m)
  <2>1. CASE offset + n <= Len(list)
    <3>1. offset + n \in 1 .. Len(list)
      BY <1>1, <1>2, <2>1
    <3>2. list[offset + n] \in Items /\ list[offset + n] # NoItem
      BY <1>4, <3>1 DEF Items, NoItem
    <3> QED
      BY <1>5, <2>1, <3>2
  <2>2. CASE ~(offset + n <= Len(list))
    BY <1>5, <2>2
  <2> QED
    BY <2>1, <2>2
<1> HIDE DEF entry, size, m, S
<1>7. page \in Seq(S) /\ Len(page) = size /\ \A n \in 1 .. size : page[n] = entry(n)
  BY <1>2, <1>3, <1>6
<1>8. DOMAIN page = 1 .. size
  BY <1>3
<1> HIDE DEF page
<1>9. \A k \in 1 .. Len(page) : k \in full <=> k <= m
  BY <1>6, <1>7, <1>8
<1>10. /\ Kept(page, full) \in Seq(S) /\ Len(Kept(page, full)) = m
       /\ \A j \in 1 .. m : Kept(page, full)[j] = page[j]
  <2> HIDE DEF full
  <2> QED
    BY <1>2, <1>7, <1>9, KeptPrefix
<1>11. Filtered(page) = Kept(page, full)
  BY DEF Filtered
<1>12. ASSUME NEW n \in 1 .. m
       PROVE  /\ offset + n \in 1 .. Len(list)
              /\ Filtered(page)[n] = [id |-> list[offset + n],
                                      active |-> list[offset + n] \in active]
  <2>1. n \in 1 .. size /\ n <= m
    BY <1>2
  <2>2. offset + n <= Len(list)
    BY <1>5, <2>1
  <2>3. offset + n \in 1 .. Len(list)
    BY <1>1, <1>2, <2>2
  <2> QED
    BY <1>7, <1>10, <1>11, <2>1, <2>2, <2>3 DEF entry
<1>13. Filtered(page) \in Seq(Item)
  <2>1. ASSUME NEW n \in 1 .. m PROVE Filtered(page)[n] \in Item
    <3>1. list[offset + n] \in Items
      BY <1>4, <1>12
    <3>2. (list[offset + n] \in active) \in BOOLEAN
      OBVIOUS
    <3>3. ASSUME NEW x \in Items, NEW b \in BOOLEAN PROVE [id |-> x, active |-> b] \in Item
      BY DEF Item
    <3> QED
      BY <1>12, <3>1, <3>2, <3>3
  <2>2. Filtered(page) \in Seq(S) /\ Len(Filtered(page)) = m
    BY <1>10, <1>11
  <2> HIDE DEF full
  <2> QED
    BY <2>1, <2>2
<1> QED
  BY <1>10, <1>11, <1>12, <1>13 DEF page, m

-----------------------------------------------------------------------------
(* The invariant *)

(* The list has no item twice; one that only grows has them all in order.  *)
ListInv ==
    /\ Len(list) <= created
    /\ \A m, n \in 1 .. Len(list) : list[m] = list[n] => m = n
    /\ kind # "orders" => Len(list) = created /\ \A n \in 1 .. Len(list) : list[n] = n

(* While it goes on, every page was full, and no item that was read is     *)
(* listed behind the pages that were read: items only move to the front.   *)
FetchInv ==
    /\ i > 0 => Offset(i - 1) <= created
    /\ \A n \in 1 .. Len(result) : result[n].id <= created
    /\ NoDuplicates
    /\ pc = "fetching" =>
        /\ Len(result) = Offset(i) /\ Offset(i) <= created
        /\ \A n \in 1 .. Len(list), m \in 1 .. Len(result) :
             result[m].id = list[n] => n <= Offset(i)

(* From a list that only grows, the items were read in their order.        *)
GrowingInv ==
    kind # "orders" =>
        /\ \A n \in 1 .. Len(result) : result[n].id = n
        /\ pc = "returned" =>
            /\ Len(atRead) = Len(result)
            /\ \A n \in 1 .. Len(atRead) : atRead[n] = n

(* What stayed active was active when it was read, and it was read.        *)
ActiveInv ==
    /\ stayed \subseteq active
    /\ \A n \in 1 .. Len(result) : result[n].id \in stayed => result[n].active
    /\ kind # "orders" /\ pc = "returned" => \A item \in stayed : item <= Len(result)

Inv == TypeOK /\ ListInv /\ FetchInv /\ GrowingInv /\ ActiveInv

LEMMA TypeFacts ==
    ASSUME TypeOK
    PROVE  /\ CHUNK_SIZE \in Nat \ {0} /\ MaxItems \in Nat /\ created \in Nat
           /\ created <= MaxItems /\ i \in Nat
           /\ Len(list) \in Nat /\ Len(result) \in Nat /\ Len(atRead) \in Nat
           /\ list \in Seq(1 .. created) /\ result \in Seq(Item)
           /\ \A n \in 1 .. Len(list) : list[n] \in 1 .. created
           /\ \A n \in 1 .. Len(result) : result[n].id \in Nat \ {0}
           /\ Offset(i) \in Nat /\ Offset(i + 1) = Offset(i) + CHUNK_SIZE
<1>1. /\ CHUNK_SIZE \in Nat \ {0} /\ MaxItems \in Nat /\ created \in Nat
      /\ created <= MaxItems /\ i \in Nat
  BY PagesAssumption DEF TypeOK
<1>2. /\ Len(list) \in Nat /\ Len(result) \in Nat /\ Len(atRead) \in Nat
      /\ list \in Seq(1 .. created) /\ result \in Seq(Item)
      /\ \A n \in 1 .. Len(list) : list[n] \in 1 .. created
  BY DEF TypeOK, Item
<1>3. \A x \in Item : x.id \in Nat \ {0}
  BY <1>1 DEF Item, Items
<1>4. \A n \in 1 .. Len(result) : result[n] \in Item
  BY <1>2
<1>5. Offset(i) \in Nat /\ Offset(i + 1) = Offset(i) + CHUNK_SIZE
  BY <1>1 DEF Offset
<1> QED
  BY <1>1, <1>2, <1>3, <1>4, <1>5

LEMMA InvInit == Init => Inv
<1> SUFFICES ASSUME Init PROVE Inv
  OBVIOUS
<1>1. created \in Nat /\ created <= MaxItems /\ CHUNK_SIZE \in Nat \ {0} /\ MaxItems \in Nat
  BY PagesAssumption DEF Init
<1>2. /\ list \in Seq(1 .. created) /\ Len(list) = created
      /\ \A n \in 1 .. Len(list) : list[n] = n
  BY <1>1 DEF Init
<1>3. active \subseteq 1 .. created /\ onlyActive \in BOOLEAN
  <2>1. CASE kind = "products"
    BY <2>1 DEF Init
  <2>2. CASE kind # "products"
    BY <2>2 DEF Init
  <2> QED
    BY <2>1, <2>2
<1>4. /\ pc = "fetching" /\ i = 0 /\ result = <<>> /\ Len(result) = 0 /\ Offset(i) = 0
      /\ atRead = list /\ stayed = active /\ kind \in Kinds /\ legacy \in BOOLEAN
  BY <1>1 DEF Init, Offset
<1>5. result \in Seq([id : Items, active : BOOLEAN])
  BY <1>4
<1>6. TypeOK
  BY <1>1, <1>2, <1>3, <1>4, <1>5 DEF TypeOK
<1>7. ListInv
  BY <1>1, <1>2 DEF ListInv
<1>8. FetchInv
  BY <1>1, <1>4 DEF FetchInv, NoDuplicates
<1>9. GrowingInv /\ ActiveInv
  BY <1>4 DEF GrowingInv, ActiveInv
<1> QED
  BY <1>6, <1>7, <1>8, <1>9 DEF Inv

LEMMA Concatenated ==
    ASSUME NEW S, NEW s \in Seq(S), NEW t \in Seq(S)
    PROVE  /\ s \o t \in Seq(S) /\ Len(s \o t) = Len(s) + Len(t)
           /\ Len(s) \in Nat /\ Len(t) \in Nat
           /\ \A n \in 1 .. Len(s) : (s \o t)[n] = s[n]
           /\ \A n \in 1 .. Len(t) : (s \o t)[Len(s) + n] = t[n]
  OBVIOUS

(* A page adds the items that follow those of the pages before it.         *)
LEMMA ReadKeepsInv ==
    ASSUME Inv, ReadPage
    PROVE  Inv'
<1> DEFINE off == Offset(i)
           fetched == Filtered(Page(off))
           size == PageSize(off)
<1>1. /\ CHUNK_SIZE \in Nat \ {0} /\ created \in Nat /\ i \in Nat
      /\ Len(list) \in Nat /\ off \in Nat /\ Offset(i + 1) = off + CHUNK_SIZE
      /\ result \in Seq(Item)
      /\ TypeOK
  BY TypeFacts DEF Inv
<1>2. /\ fetched \in Seq(Item) /\ Len(fetched) = size
      /\ \A n \in 1 .. size :
           /\ off + n \in 1 .. Len(list)
           /\ fetched[n] = [id |-> list[off + n], active |-> list[off + n] \in active]
  <2> HIDE DEF off
  <2> QED
    BY <1>1, FilteredPage DEF fetched, size
<1>3. /\ size \in Nat /\ size <= CHUNK_SIZE
      /\ size = CHUNK_SIZE <=> Len(list) >= off + CHUNK_SIZE
      /\ size < CHUNK_SIZE => size = IF Len(list) > off THEN Len(list) - off ELSE 0
  <2> HIDE DEF off
  <2> QED
    BY <1>1 DEF PageSize, size
<1>4. /\ pc = "fetching" /\ pc' = IF size = CHUNK_SIZE THEN "fetching" ELSE "returned"
      /\ result' = result \o fetched /\ i' = i + 1 /\ atRead' = list
      /\ UNCHANGED <<kind, legacy, onlyActive, list, active, created, stayed>>
  BY <1>2 DEF ReadPage, HasMore, chainVars
<1>5. Len(result) = off /\ off <= created
  BY <1>4 DEF Inv, FetchInv
<1> HIDE DEF off, fetched, size
<1>6. /\ result' \in Seq(Item) /\ Len(result') = off + size
      /\ \A n \in 1 .. off : result'[n] = result[n]
      /\ \A n \in 1 .. size : result'[off + n] = fetched[n]
  <2>1. /\ result \o fetched \in Seq(Item) /\ Len(result \o fetched) = Len(result) + Len(fetched)
        /\ \A n \in 1 .. Len(result) : (result \o fetched)[n] = result[n]
        /\ \A n \in 1 .. Len(fetched) : (result \o fetched)[Len(result) + n] = fetched[n]
    BY <1>1, <1>2, Concatenated
  <2>2. result' = result \o fetched /\ Len(result) = off /\ Len(fetched) = size
    BY <1>2, <1>4, <1>5
  <2> QED
    BY <2>1, <2>2, Zenon
<1>7. /\ \A n \in 1 .. Len(result') : n \in 1 .. off \/ \E k \in 1 .. size : n = off + k
      /\ \A k \in 1 .. size : /\ result'[off + k].id = list[off + k]
                              /\ result'[off + k].active = (list[off + k] \in active)
                              /\ off + k \in 1 .. Len(list)
  <2>1. ASSUME NEW n \in 1 .. Len(result'), n \notin 1 .. off
        PROVE  \E k \in 1 .. size : n = off + k
    <3>1. n - off \in 1 .. size /\ n = off + (n - off)
      BY <1>1, <1>3, <1>6, <2>1
    <3> QED
      BY <3>1
  <2>2. ASSUME NEW k \in 1 .. size
        PROVE  /\ result'[off + k].id = list[off + k]
               /\ result'[off + k].active = (list[off + k] \in active)
               /\ off + k \in 1 .. Len(list)
    <3> DEFINE id == list[off + k]
               isActive == list[off + k] \in active
    <3>1. /\ off + k \in 1 .. Len(list)
          /\ result'[off + k] = [id |-> id, active |-> isActive]
      BY <1>2, <1>6
    <3> HIDE DEF id, isActive
    <3>2. result'[off + k].id = id /\ result'[off + k].active = isActive
      BY <3>1
    <3> QED
      BY <3>1, <3>2 DEF id, isActive
  <2> QED
    BY <2>1, <2>2
<1>8. TypeOK'
  <2>1. result' \in Seq([id : Items, active : BOOLEAN]) /\ i' \in Nat
    BY <1>1, <1>4, <1>6 DEF Item
  <2>2. atRead' \in Seq(1 .. created) /\ pc' \in {"fetching", "returned", "rejected"}
    BY <1>1, <1>4 DEF TypeOK
  <2> QED
    BY <1>1, <1>4, <2>1, <2>2 DEF TypeOK, Items
<1>9. ListInv'
  BY <1>4 DEF Inv, ListInv
<1>10. /\ Len(list) <= created
       /\ \A m, n \in 1 .. Len(list) : list[m] = list[n] => m = n
       /\ \A n \in 1 .. Len(list) : list[n] \in 1 .. created
       /\ kind # "orders" => Len(list) = created /\ \A n \in 1 .. Len(list) : list[n] = n
       /\ \A n \in 1 .. off : result[n].id <= created
       /\ \A m, n \in 1 .. off : result[m].id = result[n].id => m = n
       /\ \A n \in 1 .. Len(list), m \in 1 .. off : result[m].id = list[n] => n <= off
  <2>1. DOMAIN result = 1 .. off
    BY <1>1, <1>5
  <2> QED
    BY <1>1, <1>4, <1>5, <2>1, TypeFacts DEF Inv, ListInv, FetchInv, NoDuplicates, off
<1>11. FetchInv'
  <2>1. Offset(i' - 1) <= created'
    <3>1. i' - 1 = i
      BY <1>1, <1>4
    <3> QED
      BY <1>4, <1>5, <3>1 DEF off
  <2>2. ASSUME NEW n \in 1 .. Len(result') PROVE result'[n].id <= created
    <3>1. CASE n \in 1 .. off
      BY <1>6, <1>10, <3>1
    <3>2. CASE n \notin 1 .. off
      <4>1. PICK k \in 1 .. size : n = off + k
        BY <1>7, <3>2
      <4>2. result'[n].id \in 1 .. created
        BY <1>7, <1>10, <4>1
      <4> QED
        BY <4>2
    <3> QED
      BY <3>1, <3>2
  <2>3. ASSUME NEW m \in 1 .. Len(result'), NEW n \in 1 .. Len(result'),
               result'[m].id = result'[n].id
        PROVE  m = n
    <3>1. CASE m \in 1 .. off /\ n \in 1 .. off
      BY <1>6, <1>10, <2>3, <3>1
    <3>2. CASE m \in 1 .. off /\ n \notin 1 .. off
      <4>1. PICK k \in 1 .. size : n = off + k
        BY <1>7, <3>2
      <4>2. result[m].id = list[off + k] /\ off + k \in 1 .. Len(list)
        BY <1>6, <1>7, <2>3, <3>2, <4>1
      <4>3. off + k <= off
        BY <1>10, <3>2, <4>2
      <4> QED
        BY <1>1, <1>3, <4>3
    <3>3. CASE m \notin 1 .. off /\ n \in 1 .. off
      <4>1. PICK k \in 1 .. size : m = off + k
        BY <1>7, <3>3
      <4>2. result[n].id = list[off + k] /\ off + k \in 1 .. Len(list)
        BY <1>6, <1>7, <2>3, <3>3, <4>1
      <4>3. off + k <= off
        BY <1>10, <3>3, <4>2
      <4> QED
        BY <1>1, <1>3, <4>3
    <3>4. CASE m \notin 1 .. off /\ n \notin 1 .. off
      <4>1. PICK k \in 1 .. size : m = off + k
        BY <1>7, <3>4
      <4>2. PICK l \in 1 .. size : n = off + l
        BY <1>7, <3>4
      <4> QED
        BY <1>7, <1>10, <2>3, <4>1, <4>2
    <3> QED
      BY <3>1, <3>2, <3>3, <3>4
  <2>4. DOMAIN result' = 1 .. Len(result')
    BY <1>6
  <2>5. ASSUME pc' = "fetching"
        PROVE  Len(result') = Offset(i') /\ Offset(i') <= created'
    BY <1>1, <1>3, <1>4, <1>6, <1>10, <2>5
  <2>6. ASSUME pc' = "fetching", NEW n \in 1 .. Len(list), NEW m \in 1 .. Len(result'),
               result'[m].id = list[n]
        PROVE  n <= Offset(i')
    <3>1. Offset(i') = off + CHUNK_SIZE
      BY <1>1, <1>4
    <3>2. CASE m \in 1 .. off
      <4>1. n <= off
        BY <1>6, <1>10, <2>6, <3>2
      <4> QED
        BY <1>1, <3>1, <4>1
    <3>3. CASE m \notin 1 .. off
      <4>1. PICK k \in 1 .. size : m = off + k
        BY <1>7, <3>3
      <4>2. n = off + k
        BY <1>7, <1>10, <2>6, <4>1
      <4> QED
        BY <1>1, <1>3, <3>1, <4>2
    <3> QED
      BY <3>2, <3>3
  <2> QED
    BY <1>4, <2>1, <2>2, <2>3, <2>4, <2>5, <2>6 DEF FetchInv, NoDuplicates
<1>12. GrowingInv'
  <2> SUFFICES ASSUME kind # "orders"
               PROVE  /\ \A n \in 1 .. Len(result') : result'[n].id = n
                      /\ pc' = "returned" =>
                          /\ Len(atRead') = Len(result')
                          /\ \A n \in 1 .. Len(atRead') : atRead'[n] = n
    BY <1>4 DEF GrowingInv
  <2>1. \A n \in 1 .. off : result[n].id = n
    BY <1>5 DEF Inv, GrowingInv
  <2>2. \A n \in 1 .. Len(result') : result'[n].id = n
    BY <1>6, <1>7, <1>10, <2>1
  <2>3. ASSUME pc' = "returned" PROVE Len(list) = off + size
    BY <1>1, <1>3, <1>4, <1>5, <1>10, <2>3
  <2> QED
    BY <1>4, <1>6, <1>10, <2>2, <2>3
<1>13. ActiveInv'
  <2>1. stayed \subseteq active /\ \A n \in 1 .. off : result[n].id \in stayed => result[n].active
    BY <1>5 DEF Inv, ActiveInv
  <2>2. ASSUME NEW n \in 1 .. Len(result'), result'[n].id \in stayed PROVE result'[n].active
    <3>1. CASE n \in 1 .. off
      BY <1>6, <2>1, <2>2, <3>1
    <3>2. CASE n \notin 1 .. off
      <4>1. PICK k \in 1 .. size : n = off + k
        BY <1>7, <3>2
      <4>2. list[off + k] \in active
        BY <1>7, <2>1, <2>2, <4>1
      <4> QED
        BY <1>7, <4>1, <4>2
    <3> QED
      BY <3>1, <3>2
  <2>3. ASSUME kind # "orders", pc' = "returned", NEW item \in stayed PROVE item <= Len(result')
    <3>1. Len(list) = off + size
      BY <1>1, <1>3, <1>4, <1>5, <1>10, <2>3
    <3>2. item \in 1 .. created
      BY <1>1 DEF TypeOK
    <3> QED
      BY <1>1, <1>6, <1>10, <2>3, <3>1, <3>2
  <2> QED
    BY <1>4, <2>1, <2>2, <2>3 DEF ActiveInv
<1> QED
  BY <1>8, <1>9, <1>11, <1>12, <1>13 DEF Inv

(* An item that is added was never listed, and comes last.                 *)
LEMMA CreateKeepsInv ==
    ASSUME Inv, Create
    PROVE  Inv'
<1>1. /\ created \in Nat /\ MaxItems \in Nat /\ i \in Nat /\ Len(list) \in Nat
      /\ list \in Seq(1 .. created)
      /\ \A n \in 1 .. Len(list) : list[n] \in 1 .. created
      /\ TypeOK
  BY TypeFacts DEF Inv
<1>2. /\ created < MaxItems /\ created' = created + 1 /\ list' = Append(list, created + 1)
      /\ active' = active \cup {created + 1}
      /\ UNCHANGED <<kind, legacy, onlyActive, pc, i, result, atRead, stayed>>
  BY DEF Create, callVars
<1>3. /\ list' \in Seq(1 .. created + 1) /\ Len(list') = Len(list) + 1
      /\ \A n \in 1 .. Len(list) : list'[n] = list[n]
      /\ list'[Len(list) + 1] = created + 1
  <2>1. list \in Seq(1 .. created + 1) /\ created + 1 \in 1 .. created + 1
    <3>1. \A n \in 1 .. Len(list) : list[n] \in 1 .. created + 1
      BY <1>1
    <3> QED
      BY <1>1, <3>1
  <2> QED
    BY <1>2, <2>1, Appended
<1>4. TypeOK'
  <2>1. active \subseteq 1 .. created /\ stayed \subseteq 1 .. created /\ atRead \in Seq(1 .. created)
    BY <1>1 DEF TypeOK
  <2>2. active' \subseteq 1 .. created' /\ stayed' \subseteq 1 .. created'
    BY <1>1, <1>2, <2>1
  <2>3. atRead' \in Seq(1 .. created')
    <3>1. \A n \in 1 .. Len(atRead) : atRead[n] \in 1 .. created + 1
      BY <1>1, <2>1
    <3> QED
      BY <1>2, <2>1, <3>1
  <2>4. created' \in 0 .. MaxItems /\ list' \in Seq(1 .. created')
    BY <1>1, <1>2, <1>3
  <2> QED
    BY <1>1, <1>2, <2>2, <2>3, <2>4 DEF TypeOK
<1>5. ListInv'
  <2>1. \A m, n \in 1 .. Len(list) + 1 : list'[m] = list'[n] => m = n
    <3>1. /\ \A m, n \in 1 .. Len(list) : list[m] = list[n] => m = n
      BY DEF Inv, ListInv
    <3>2. \A n \in 1 .. Len(list) : list'[n] # created + 1
      BY <1>1, <1>3
    <3>3. \A n \in 1 .. Len(list) + 1 : n \in 1 .. Len(list) \/ n = Len(list) + 1
      BY <1>1
    <3> QED
      BY <1>3, <3>1, <3>2, <3>3
  <2>2. Len(list') <= created'
    BY <1>1, <1>2, <1>3 DEF Inv, ListInv
  <2>3. kind # "orders" => Len(list') = created' /\ \A n \in 1 .. Len(list') : list'[n] = n
    BY <1>1, <1>2, <1>3 DEF Inv, ListInv
  <2> QED
    BY <1>2, <1>3, <2>1, <2>2, <2>3 DEF ListInv
<1>6. FetchInv'
  <2>1. /\ \A n \in 1 .. Len(result) : result[n].id \in Nat /\ result[n].id <= created
        /\ NoDuplicates /\ Offset(i) \in Nat /\ (i > 0 => Offset(i - 1) \in Nat)
    <3>1. i > 0 => Offset(i - 1) \in Nat
      BY <1>1, TypeFacts DEF Offset
    <3> QED
      BY <1>1, <3>1, TypeFacts DEF Inv, FetchInv
  <2>2. ASSUME pc = "fetching", NEW n \in 1 .. Len(list'), NEW m \in 1 .. Len(result),
               result[m].id = list'[n]
        PROVE  n <= Offset(i)
    <3>1. n # Len(list) + 1
      BY <1>1, <1>3, <2>1, <2>2
    <3>2. n \in 1 .. Len(list)
      BY <1>1, <1>3, <3>1
    <3> QED
      BY <1>3, <2>2, <3>2 DEF Inv, FetchInv
  <2>3. /\ i > 0 => Offset(i - 1) <= created + 1
        /\ \A n \in 1 .. Len(result) : result[n].id <= created + 1
        /\ pc = "fetching" => Len(result) = Offset(i) /\ Offset(i) <= created + 1
    <3>1. /\ i > 0 => Offset(i - 1) <= created
          /\ pc = "fetching" => Len(result) = Offset(i) /\ Offset(i) <= created
      BY DEF Inv, FetchInv
    <3> QED
      BY <1>1, <2>1, <3>1
  <2>4. NoDuplicates' /\ Offset(i)' = Offset(i) /\ (i > 0 => Offset(i - 1)' = Offset(i - 1))
    BY <1>2, <2>1 DEF NoDuplicates, Offset
  <2> QED
    BY <1>2, <2>2, <2>3, <2>4 DEF FetchInv
<1>7. GrowingInv' /\ ActiveInv'
  BY <1>2 DEF Inv, GrowingInv, ActiveInv
<1> QED
  BY <1>4, <1>5, <1>6, <1>7 DEF Inv

ClosesUp(s, n, t) ==
    /\ Len(t) = Len(s) - 1
    /\ \A k \in 1 .. Len(t) : \E l \in 1 .. Len(s) : t[k] = s[l] /\ k <= l /\ l # n
    /\ \A k, l \in 1 .. Len(t) : t[k] = t[l] => k = l
    /\ \A l \in 1 .. Len(s) : l # n => \E k \in 1 .. Len(t) : t[k] = s[l]

(* However the list closes up, the items that remain keep their place or   *)
(* move to the front.                                                      *)
LEMMA ClosedUp ==
    ASSUME NEW S, NEW s \in Seq(S), NEW n \in 1 .. Len(s),
           \A k, l \in 1 .. Len(s) : s[k] = s[l] => k = l,
           NEW t, t \in {RemoveAt(s, n), Front([s EXCEPT ![n] = Last(s)])}
    PROVE  t \in Seq(S) /\ ClosesUp(s, n, t)
<1>1. Len(s) \in Nat /\ n \in Nat
  OBVIOUS
<1>2. CASE t = RemoveAt(s, n)
  <2> DEFINE a == SubSeq(s, 1, n - 1)
             b == SubSeq(s, n + 1, Len(s))
  <2>1. /\ a \in Seq(S) /\ Len(a) = n - 1 /\ \A k \in 1 .. n - 1 : a[k] = s[k]
    BY <1>1
  <2>2. /\ b \in Seq(S) /\ Len(b) = Len(s) - n
        /\ \A k \in 1 .. Len(s) - n : b[k] = s[n + k]
    BY <1>1
  <2> HIDE DEF a, b
  <2>3. /\ a \o b \in Seq(S) /\ Len(a \o b) = Len(a) + Len(b)
        /\ \A k \in 1 .. Len(a) : (a \o b)[k] = a[k]
        /\ \A k \in 1 .. Len(b) : (a \o b)[Len(a) + k] = b[k]
    <3>1. a \in Seq(S) /\ b \in Seq(S)
      BY <2>1, <2>2
    <3> QED
      BY <3>1, Concatenated
  <2>4. t = a \o b
    BY <1>2 DEF RemoveAt, a, b
  <2>5. t \in Seq(S) /\ Len(t) = Len(s) - 1
    BY <1>1, <2>1, <2>2, <2>3, <2>4
  <2>6. ASSUME NEW k \in 1 .. Len(t)
        PROVE  t[k] = s[IF k < n THEN k ELSE k + 1]
    <3>1. CASE k < n
      <4>1. k \in 1 .. n - 1 /\ k \in 1 .. Len(a)
        BY <1>1, <2>1, <2>5, <3>1
      <4> QED
        BY <2>1, <2>3, <2>4, <3>1, <4>1
    <3>2. CASE ~(k < n)
      <4> DEFINE j == k - (n - 1)
      <4>1. j \in 1 .. Len(s) - n /\ Len(a) + j = k /\ n + j = k + 1 /\ j \in 1 .. Len(b)
        BY <1>1, <2>1, <2>2, <2>5, <3>2
      <4> HIDE DEF j
      <4>2. t[k] = b[j] /\ b[j] = s[n + j]
        BY <2>2, <2>3, <2>4, <4>1
      <4> QED
        BY <3>2, <4>1, <4>2
    <3> QED
      BY <3>1, <3>2
  <2> DEFINE from(k) == IF k < n THEN k ELSE k + 1
  <2>7. \A k \in 1 .. Len(t) : from(k) \in 1 .. Len(s) /\ k <= from(k) /\ from(k) # n
    BY <1>1, <2>5
  <2>8. \A k, l \in 1 .. Len(t) : from(k) = from(l) => k = l
    BY <1>1, <2>5
  <2>9. \A k \in 1 .. Len(t) : t[k] = s[from(k)]
    BY <2>6
  <2>10. ASSUME NEW l \in 1 .. Len(s), l # n PROVE \E k \in 1 .. Len(t) : from(k) = l
    <3>1. CASE l < n
      BY <1>1, <2>5, <3>1
    <3>2. CASE ~(l < n)
      <4>1. l - 1 \in 1 .. Len(t) /\ from(l - 1) = l
        BY <1>1, <2>5, <2>10, <3>2
      <4> QED
        BY <4>1
    <3> QED
      BY <3>1, <3>2
  <2> HIDE DEF from
  <2> QED
    BY <2>5, <2>7, <2>8, <2>9, <2>10 DEF ClosesUp
<1>3. CASE t = Front([s EXCEPT ![n] = Last(s)])
  <2> DEFINE u == [s EXCEPT ![n] = Last(s)]
             from(k) == IF k = n THEN Len(s) ELSE k
  <2>1. u \in Seq(S) /\ Len(u) = Len(s) /\ \A k \in 1 .. Len(s) : u[k] = s[from(k)]
    <3>1. Last(s) = s[Len(s)] /\ s[Len(s)] \in S
      BY <1>1 DEF Last
    <3> QED
      BY <1>1, <3>1
  <2> HIDE DEF u
  <2>2. t = SubSeq(u, 1, Len(s) - 1)
    BY <1>3, <2>1 DEF Front, u
  <2>3. t \in Seq(S) /\ Len(t) = Len(s) - 1 /\ \A k \in 1 .. Len(s) - 1 : t[k] = u[k]
    BY <1>1, <2>1, <2>2
  <2>4. \A k \in 1 .. Len(t) : t[k] = s[from(k)]
    BY <1>1, <2>1, <2>3
  <2>5. \A k \in 1 .. Len(t) : from(k) \in 1 .. Len(s) /\ k <= from(k) /\ from(k) # n
    BY <1>1, <2>3
  <2>6. \A k, l \in 1 .. Len(t) : from(k) = from(l) => k = l
    BY <1>1, <2>3
  <2>7. ASSUME NEW l \in 1 .. Len(s), l # n PROVE \E k \in 1 .. Len(t) : from(k) = l
    <3>1. CASE l = Len(s)
      <4>1. n \in 1 .. Len(t) /\ from(n) = l
        BY <1>1, <2>3, <2>7, <3>1
      <4> QED
        BY <4>1
    <3>2. CASE l # Len(s)
      <4>1. l \in 1 .. Len(s) - 1 /\ from(l) = l
        BY <1>1, <2>7, <3>2
      <4> QED
        BY <2>3, <4>1
    <3> QED
      BY <3>1, <3>2
  <2> HIDE DEF from
  <2>8. \A l \in 1 .. Len(s) : l # n => \E k \in 1 .. Len(t) : t[k] = s[l]
    BY <2>4, <2>7
  <2>9. \A k, l \in 1 .. Len(t) : t[k] = t[l] => k = l
    BY <2>4, <2>5, <2>6
  <2>10. \A k \in 1 .. Len(t) : \E l \in 1 .. Len(s) : t[k] = s[l] /\ k <= l /\ l # n
    BY <2>4, <2>5
  <2> QED
    BY <2>3, <2>8, <2>9, <2>10 DEF ClosesUp
<1> QED
  BY <1>2, <1>3

(* An order that leaves shortens the list, and no other order moves back.  *)
LEMMA LeaveKeepsInv ==
    ASSUME Inv, NEW n \in Items, Leave(n)
    PROVE  Inv'
<1>1. /\ created \in Nat /\ created \in 0 .. MaxItems /\ Len(list) \in Nat
      /\ Offset(i) \in Nat
      /\ list \in Seq(1 .. created) /\ TypeOK /\ ListInv /\ FetchInv /\ ActiveInv
  BY TypeFacts DEF Inv, TypeOK
<1>2. /\ kind = "orders" /\ n \in 1 .. Len(list)
      /\ list' \in {RemoveAt(list, n), Front([list EXCEPT ![n] = Last(list)])}
      /\ active' = active \ {list[n]} /\ stayed' = stayed \ {list[n]}
      /\ UNCHANGED <<kind, legacy, onlyActive, pc, i, result, atRead, created>>
  BY <1>1 DEF Leave, callVars
<1>3. /\ list' \in Seq(1 .. created) /\ Len(list') = Len(list) - 1
      /\ \A k \in 1 .. Len(list') : \E l \in 1 .. Len(list) : list'[k] = list[l] /\ k <= l
      /\ \A k, l \in 1 .. Len(list') : list'[k] = list'[l] => k = l
  <2>1. \A k, l \in 1 .. Len(list) : list[k] = list[l] => k = l
    BY <1>1 DEF ListInv
  <2>2. ASSUME NEW t, t \in {RemoveAt(list, n), Front([list EXCEPT ![n] = Last(list)])}
        PROVE  /\ t \in Seq(1 .. created) /\ Len(t) = Len(list) - 1
               /\ \A k \in 1 .. Len(t) : \E l \in 1 .. Len(list) : t[k] = list[l] /\ k <= l
               /\ \A k, l \in 1 .. Len(t) : t[k] = t[l] => k = l
    <3> DEFINE S == 1 .. created
    <3>1. list \in Seq(S) /\ n \in 1 .. Len(list)
      BY <1>1, <1>2
    <3> HIDE DEF S
    <3>2. t \in Seq(S) /\ ClosesUp(list, n, t)
      BY <2>1, <2>2, <3>1, ClosedUp
    <3> QED
      BY <3>2 DEF S, ClosesUp
  <2> QED
    BY <1>2, <2>2
<1>4. TypeOK'
  BY <1>1, <1>2, <1>3 DEF TypeOK
<1>5. ListInv'
  BY <1>1, <1>2, <1>3 DEF ListInv
<1>6. FetchInv'
  <2>1. ASSUME pc = "fetching", NEW k \in 1 .. Len(list'), NEW m \in 1 .. Len(result),
               result[m].id = list'[k]
        PROVE  k <= Offset(i)
    <3>1. PICK l \in 1 .. Len(list) : list'[k] = list[l] /\ k <= l
      BY <1>3
    <3>2. l <= Offset(i)
      BY <1>1, <2>1, <3>1 DEF FetchInv
    <3> QED
      BY <1>1, <1>3, <3>1, <3>2
  <2>2. NoDuplicates' /\ Offset(i)' = Offset(i) /\ Offset(i - 1)' = Offset(i - 1)
    BY <1>1, <1>2 DEF NoDuplicates, Offset, FetchInv
  <2> QED
    BY <1>1, <1>2, <2>1, <2>2 DEF FetchInv
<1>7. GrowingInv' /\ ActiveInv'
  BY <1>1, <1>2 DEF GrowingInv, ActiveInv
<1> QED
  BY <1>4, <1>5, <1>6, <1>7 DEF Inv

LEMMA ToggleKeepsInv ==
    ASSUME Inv, NEW item \in Items, Toggle(item)
    PROVE  Inv'
<1>1. /\ item \in 1 .. created /\ (active' = active \ {item} \/ active' = active \cup {item})
      /\ stayed' = stayed \ {item}
      /\ UNCHANGED <<kind, legacy, onlyActive, pc, i, result, atRead, list, created>>
  BY DEF Toggle, callVars
<1>2. TypeOK'
  BY <1>1 DEF Inv, TypeOK
<1>3. ListInv' /\ FetchInv' /\ GrowingInv'
  BY <1>1 DEF Inv, ListInv, FetchInv, NoDuplicates, Offset, GrowingInv
<1>4. ActiveInv'
  BY <1>1 DEF Inv, ActiveInv
<1> QED
  BY <1>2, <1>3, <1>4 DEF Inv

LEMMA FailureKeepsInv ==
    ASSUME Inv, PageFails \/ UNCHANGED vars
    PROVE  Inv'
<1>1. /\ pc' \in {pc, "rejected"}
      /\ UNCHANGED <<kind, legacy, onlyActive, i, result, atRead, list, active, created, stayed>>
  BY DEF PageFails, vars, callVars, chainVars
<1>2. TypeOK'
  BY <1>1 DEF Inv, TypeOK
<1>3. ListInv' /\ FetchInv' /\ GrowingInv' /\ ActiveInv'
  BY <1>1 DEF Inv, ListInv, FetchInv, NoDuplicates, Offset, GrowingInv, ActiveInv
<1> QED
  BY <1>2, <1>3 DEF Inv

(* The invariant is inductive: one case per action of Next. *)
LEMMA InvStep == Inv /\ [Next]_vars => Inv'
<1> SUFFICES ASSUME Inv, [Next]_vars PROVE Inv'
  OBVIOUS
<1>1. CASE ReadPage
  BY <1>1, ReadKeepsInv
<1>2. CASE Create
  BY <1>2, CreateKeepsInv
<1>3. ASSUME NEW n \in Items, Leave(n) PROVE Inv'
  BY <1>3, LeaveKeepsInv
<1>4. ASSUME NEW n \in Items, Toggle(n) PROVE Inv'
  BY <1>4, ToggleKeepsInv
<1>5. CASE PageFails \/ UNCHANGED vars
  BY <1>5, FailureKeepsInv
<1> QED
  BY <1>1, <1>2, <1>3, <1>4, <1>5, Zenon DEF Next

LEMMA Invariance == Spec => []Inv
  BY InvInit, InvStep, PTL DEF Spec

-----------------------------------------------------------------------------
(* The theorems *)

(* Every item that is read is an item that was created, with its state.    *)
THEOREM TypeCorrect == Spec => []TypeOK
<1>1. Inv => TypeOK
  BY DEF Inv
<1> QED
  BY <1>1, Invariance, PTL

(* A list that only grows comes back complete and in order, as it was when *)
(* its last page was read (LoanManager.ts 102-113, 148-159, 209-220).      *)
THEOREM GrowingListIsComplete == Spec => []CompleteList
<1>1. ASSUME Inv, pc = "returned", kind # "orders"
      PROVE  [n \in DOMAIN result |-> result[n].id] = atRead
  <2>1. /\ \A n \in 1 .. Len(result) : result[n].id = n
        /\ Len(atRead) = Len(result) /\ \A n \in 1 .. Len(atRead) : atRead[n] = n
    BY <1>1 DEF Inv, GrowingInv
  <2>2. atRead \in Seq(1 .. created) /\ result \in Seq(Item)
    BY <1>1, TypeFacts DEF Inv, TypeOK
  <2>3. atRead = [n \in 1 .. Len(atRead) |-> atRead[n]] /\ DOMAIN result = 1 .. Len(result)
    BY <2>2
  <2> QED
    BY <2>1, <2>3
<1>2. Inv => CompleteList
  BY <1>1 DEF CompleteList
<1> QED
  BY <1>2, Invariance, PTL

(* No order is read twice, whatever leaves the book between two pages      *)
(* (Exchange.ts 311-322).                                                  *)
THEOREM NoOrderTwice == Spec => []NoDuplicates
<1>1. Inv => NoDuplicates
  BY DEF Inv, FetchInv
<1> QED
  BY <1>1, Invariance, PTL

(* getActiveProducts returns every product that was active all the time    *)
(* (LoanManager.ts 209-220).                                               *)
THEOREM ActiveProductsAreReturned == Spec => []ActiveAreReturned
<1>1. ASSUME Inv, pc = "returned", kind = "products", NEW item \in stayed
      PROVE  \E n \in DOMAIN Returned : Returned[n].id = item
  <2> DEFINE indices == {n \in DOMAIN result : result[n].active \/ ~onlyActive}
  <2>1. /\ result \in Seq(Item) /\ Len(result) \in Nat /\ created \in Nat
        /\ stayed \subseteq 1 .. created /\ kind # "orders"
    BY <1>1, TypeFacts DEF Inv, TypeOK
  <2>2. item \in 1 .. Len(result)
    BY <1>1, <2>1 DEF Inv, ActiveInv
  <2>3. result[item].id = item /\ result[item].active
    BY <1>1, <2>1, <2>2 DEF Inv, ActiveInv, GrowingInv
  <2>4. item \in indices
    BY <2>1, <2>2, <2>3
  <2>5. Returned = Kept(result, indices)
    BY DEF Returned
  <2> HIDE DEF indices
  <2>6. \E j \in 1 .. Len(Returned) : Returned[j] = result[item]
    BY <2>1, <2>2, <2>4, <2>5, KeptAll
  <2>7. Returned \in Seq(Item)
    BY <2>1, <2>5, KeptElements
  <2>8. DOMAIN Returned = 1 .. Len(Returned)
    BY <2>7
  <2> QED
    BY <2>3, <2>6, <2>8
<1>2. Inv => ActiveAreReturned
  BY <1>1 DEF ActiveAreReturned
<1> QED
  BY <1>2, Invariance, PTL

(* The loop asks for a page only after a full one: it makes at most one    *)
(* request more than the items ever created fill, legacy contracts with    *)
(* their full arrays included.                                             *)
RequestsBounded == i > 0 => (i - 1) * CHUNK_SIZE <= created

(* The loop asks for at most one page more than the items ever created     *)
(* fill (Exchange.ts 315-320).                                             *)
THEOREM RequestsAreBounded == Spec => []RequestsBounded
<1>1. Inv => RequestsBounded
  BY DEF Inv, FetchInv, RequestsBounded, Offset
<1> QED
  BY <1>1, Invariance, PTL
-----------------------------------------------------------------------------
(* How many orders a book misses *)

(* What stayed is still listed; what the call missed is bounded.           *)
StayedInv == \A item \in stayed : \E n \in 1 .. Len(list) : list[n] = item

(* A sequence without repetition has as many elements as its length.       *)
LEMMA ImageSize ==
    ASSUME NEW m \in Nat, NEW f, NEW S, f \in [1 .. m -> S],
           \A k, l \in 1 .. m : f[k] = f[l] => k = l,
           \A x \in S : \E k \in 1 .. m : f[k] = x
    PROVE  IsFiniteSet(S) /\ Cardinality(S) = m
<1>1. f \in Surjection(1 .. m, S) /\ f \in Injection(1 .. m, S)
  BY DEF Surjection, Injection, IsInjective
<1>2. IsFiniteSet(1 .. m) /\ Cardinality(1 .. m) = m
  BY FS_Interval
<1> QED
  BY <1>1, <1>2, FS_Surjection

(* Of N items, those in L are listed.  If the F of them that are listed in *)
(* front contain all the listed ones of those that were read, R, and if    *)
(* they are no more, then at most N - Cardinality(L) of them are unread.   *)
LEMMA UnreadInFront ==
    ASSUME NEW N \in Nat, NEW L, NEW F, NEW R,
           L \subseteq 1 .. N, R \subseteq 1 .. N, F \subseteq L, R \cap L \subseteq F,
           Cardinality(F) <= Cardinality(R)
    PROVE  IsFiniteSet(F \ R) /\ Cardinality(F \ R) <= N - Cardinality(L)
<1>1. IsFiniteSet(1 .. N) /\ Cardinality(1 .. N) = N
  BY FS_Interval
<1>2. /\ IsFiniteSet(L) /\ IsFiniteSet(R) /\ IsFiniteSet(F)
  <2>1. L \in SUBSET (1 .. N) /\ R \in SUBSET (1 .. N) /\ F \in SUBSET (1 .. N)
    OBVIOUS
  <2> QED
    BY <1>1, <2>1, FS_Subset
<1>3. /\ Cardinality(L) \in Nat /\ Cardinality(R) \in Nat /\ Cardinality(F) \in Nat
  BY <1>2, FS_CardinalityType
<1>4. /\ IsFiniteSet(F \ R)
      /\ Cardinality(F \ R) = Cardinality(F) - Cardinality(F \cap R)
  BY <1>2, FS_Difference
<1>5. Cardinality(R \ L) = Cardinality(R) - Cardinality(R \cap L)
  BY <1>2, FS_Difference
<1>6. F \cap R = R \cap L
  OBVIOUS
<1>7. /\ IsFiniteSet((1 .. N) \ L)
      /\ Cardinality((1 .. N) \ L) = N - Cardinality(L)
  <2> DEFINE U == 1 .. N
  <2>1. U \cap L = L
    OBVIOUS
  <2>2. IsFiniteSet(U) /\ Cardinality(U) = N
    BY <1>1
  <2> HIDE DEF U
  <2>3. IsFiniteSet(U \ L) /\ Cardinality(U \ L) = Cardinality(U) - Cardinality(U \cap L)
    BY <2>2, FS_Difference
  <2> QED
    BY <2>1, <2>2, <2>3 DEF U
<1>8. Cardinality(R \ L) <= Cardinality((1 .. N) \ L)
  <2>1. (R \ L) \in SUBSET ((1 .. N) \ L)
    OBVIOUS
  <2> QED
    BY <1>7, <2>1, FS_Subset
<1>9. Cardinality(R \cap L) \in Nat
  BY <1>2, FS_Intersection, FS_CardinalityType
<1> QED
  BY <1>3, <1>4, <1>5, <1>6, <1>7, <1>8, <1>9

(* The last page ends the call with no more missed than have left.         *)
LEMMA LastPageMisses ==
    ASSUME Inv, StayedInv, ReadPage, pc' = "returned"
    PROVE  Cardinality(Missed)' <= created - Len(list)
<1> DEFINE off == Offset(i)
           fetched == Filtered(Page(off))
           size == PageSize(off)
           front == IF Len(list) <= off THEN Len(list) ELSE off
           L == {list[n] : n \in 1 .. Len(list)}
           F == {list[n] : n \in 1 .. front}
           R == {result[n].id : n \in 1 .. off}
<1>1. /\ CHUNK_SIZE \in Nat \ {0} /\ created \in Nat /\ i \in Nat
      /\ Len(list) \in Nat /\ off \in Nat /\ TypeOK /\ result \in Seq(Item)
      /\ \A n \in 1 .. Len(list) : list[n] \in 1 .. created
  BY TypeFacts DEF Inv
<1>2. /\ fetched \in Seq(Item) /\ Len(fetched) = size
      /\ \A n \in 1 .. size :
           fetched[n] = [id |-> list[off + n], active |-> list[off + n] \in active]
  <2> HIDE DEF off
  <2> QED
    BY <1>1, FilteredPage DEF fetched, size
<1>3. /\ pc = "fetching" /\ size # CHUNK_SIZE /\ result' = result \o fetched
      /\ UNCHANGED <<list, created, stayed>>
  BY <1>2 DEF ReadPage, HasMore, chainVars
<1>4. /\ Len(result) = off
      /\ \A n \in 1 .. off : result[n].id \in 1 .. created
      /\ \A m, n \in 1 .. off : result[m].id = result[n].id => m = n
      /\ \A n \in 1 .. Len(list), m \in 1 .. off : result[m].id = list[n] => n <= off
      /\ \A m, n \in 1 .. Len(list) : list[m] = list[n] => m = n
  <2>1. Len(result) = off
    BY <1>3 DEF Inv, FetchInv
  <2>2. DOMAIN result = 1 .. off
    BY <1>1, <2>1
  <2>3. \A n \in 1 .. off : result[n].id \in Nat \ {0} /\ result[n].id <= created
    BY <1>1, <2>1, TypeFacts DEF Inv, FetchInv
  <2>4. \A m, n \in 1 .. off : result[m].id = result[n].id => m = n
    BY <2>2 DEF Inv, FetchInv, NoDuplicates
  <2>5. \A n \in 1 .. Len(list), m \in 1 .. off : result[m].id = list[n] => n <= off
    BY <1>3, <2>1 DEF Inv, FetchInv
  <2>6. \A n \in 1 .. off : result[n].id \in 1 .. created
    BY <1>1, <2>3
  <2>7. \A m, n \in 1 .. Len(list) : list[m] = list[n] => m = n
    BY DEF Inv, ListInv
  <2> QED
    BY <2>1, <2>4, <2>5, <2>6, <2>7
<1>5. size = IF Len(list) > off THEN Len(list) - off ELSE 0
  <2> HIDE DEF off
  <2> QED
    BY <1>1, <1>3 DEF PageSize, size
<1> HIDE DEF off, fetched, size
<1>6. front \in Nat /\ front <= off /\ front <= Len(list)
  BY <1>1
<1>7. IsFiniteSet(L) /\ Cardinality(L) = Len(list)
  <2> DEFINE f == [n \in 1 .. Len(list) |-> list[n]]
  <2>1. f \in [1 .. Len(list) -> L] /\ Len(list) \in Nat
    BY <1>1
  <2>2. \A x \in L : \E k \in 1 .. Len(list) : f[k] = x
    OBVIOUS
  <2>3. \A k, l \in 1 .. Len(list) : f[k] = f[l] => k = l
    BY <1>4
  <2> HIDE DEF L, f
  <2> QED
    BY <2>1, <2>2, <2>3, ImageSize
<1>8. IsFiniteSet(F) /\ Cardinality(F) = front
  <2>1. [n \in 1 .. front |-> list[n]] \in [1 .. front -> F]
    OBVIOUS
  <2>2. \A x \in F : \E k \in 1 .. front : [n \in 1 .. front |-> list[n]][k] = x
    OBVIOUS
  <2>3. \A k, l \in 1 .. front : list[k] = list[l] => k = l
    BY <1>1, <1>4, <1>6
  <2> HIDE DEF F, front
  <2> QED
    BY <1>6, <2>1, <2>2, <2>3, ImageSize
<1>9. IsFiniteSet(R) /\ Cardinality(R) = off
  <2> DEFINE f == [n \in 1 .. off |-> result[n].id]
  <2>1. f \in [1 .. off -> R] /\ off \in Nat
    BY <1>1
  <2>2. \A x \in R : \E k \in 1 .. off : f[k] = x
    OBVIOUS
  <2>3. \A k, l \in 1 .. off : f[k] = f[l] => k = l
    BY <1>4
  <2> HIDE DEF R, f
  <2> QED
    BY <2>1, <2>2, <2>3, ImageSize
<1>10. /\ L \subseteq 1 .. created /\ R \subseteq 1 .. created
       /\ F \subseteq L /\ R \cap L \subseteq F
  <2>1. ASSUME NEW x \in R \cap L PROVE x \in F
    <3>1. PICK m \in 1 .. off : x = result[m].id
      BY <2>1
    <3>2. PICK n \in 1 .. Len(list) : x = list[n]
      BY <2>1
    <3>3. n <= off
      BY <1>4, <3>1, <3>2
    <3>4. n \in 1 .. front
      BY <1>1, <3>2, <3>3
    <3> QED
      BY <3>2, <3>4
  <2> QED
    BY <1>1, <1>4, <1>6, <2>1
<1>11. IsFiniteSet(F \ R) /\ Cardinality(F \ R) <= created - Len(list)
  <2> HIDE DEF F, R, L, front
  <2> QED
    BY <1>1, <1>6, <1>7, <1>8, <1>9, <1>10, UnreadInFront
<1>12. /\ result' \in Seq(Item) /\ Len(result') = off + size
       /\ \A n \in 1 .. off : result'[n] = result[n]
       /\ \A n \in 1 .. size : result'[off + n] = fetched[n]
  <2>1. /\ result \o fetched \in Seq(Item) /\ Len(result \o fetched) = Len(result) + Len(fetched)
        /\ \A n \in 1 .. Len(result) : (result \o fetched)[n] = result[n]
        /\ \A n \in 1 .. Len(fetched) : (result \o fetched)[Len(result) + n] = fetched[n]
    <3>1. result \in Seq(Item) /\ fetched \in Seq(Item)
      BY <1>1, <1>2
    <3> QED
      BY <3>1, Concatenated
  <2>2. result' = result \o fetched /\ Len(result) = off /\ Len(fetched) = size
    BY <1>2, <1>3, <1>4
  <2> QED
    BY <2>1, <2>2, Zenon
<1>13. Missed' \in SUBSET (F \ R)
  <2> SUFFICES ASSUME NEW item \in stayed,
                      \A n \in DOMAIN result' : result'[n].id # item
               PROVE  item \in F /\ item \notin R
    BY <1>3 DEF Missed
  <2>2. size \in Nat /\ DOMAIN result' = 1 .. off + size
    BY <1>1, <1>5, <1>12
  <2>3. item \notin R
    <3> SUFFICES ASSUME NEW m \in 1 .. off, item = result[m].id PROVE FALSE
      OBVIOUS
    <3>1. m \in DOMAIN result'
      BY <1>1, <2>2
    <3> QED
      BY <1>12, <3>1
  <2>4. PICK p \in 1 .. Len(list) : list[p] = item
    BY DEF StayedInv
  <2>5. p <= off
    <3> SUFFICES ASSUME p > off PROVE FALSE
      BY <1>1
    <3> DEFINE k == p - off
    <3>1. k \in 1 .. size /\ off + k = p /\ p \in DOMAIN result'
      BY <1>1, <1>5, <2>2
    <3> HIDE DEF k
    <3>2. fetched[k].id = list[off + k]
      <4> DEFINE isActive == list[off + k] \in active
      <4>1. fetched[k] = [id |-> list[off + k], active |-> isActive]
        BY <1>2, <3>1
      <4> HIDE DEF isActive
      <4> QED
        BY <4>1
    <3>3. result'[p] = fetched[k]
      BY <1>12, <3>1
    <3> QED
      BY <2>4, <3>1, <3>2, <3>3
  <2>6. p \in 1 .. front
    BY <1>1, <2>4, <2>5
  <2> QED
    BY <2>3, <2>4, <2>6
<1>14. Cardinality(Missed') <= Cardinality(F \ R) /\ IsFiniteSet(Missed')
  BY <1>11, <1>13, FS_Subset
<1>15. Cardinality(Missed') \in Nat /\ Cardinality(F \ R) \in Nat
  BY <1>11, <1>14, FS_CardinalityType
<1> QED
  BY <1>1, <1>11, <1>14, <1>15

(* What has returned misses no more later: only what leaves counts.        *)
LEMMA MissedStep ==
    ASSUME Inv, StayedInv, MissedBounded, [Next]_vars
    PROVE  StayedInv' /\ MissedBounded'
<1>1. /\ created \in Nat /\ Len(list) \in Nat /\ list \in Seq(1 .. created) /\ TypeOK
      /\ \A k, l \in 1 .. Len(list) : list[k] = list[l] => k = l
  BY TypeFacts DEF Inv, ListInv
<1>2. IsFiniteSet(Missed) /\ Cardinality(Missed) \in Nat
  <2>1. Missed \in SUBSET (1 .. created)
    BY <1>1 DEF Missed, TypeOK
  <2>2. IsFiniteSet(1 .. created)
    BY <1>1, FS_Interval
  <2> QED
    BY <2>1, <2>2, FS_Subset, FS_CardinalityType
<1>3. ASSUME stayed' \subseteq stayed, UNCHANGED <<pc, result>>,
             created' - Len(list') >= created - Len(list), Len(list') \in Nat, created' \in Nat
      PROVE  MissedBounded'
  <2>1. Missed' \in SUBSET Missed
    BY <1>3 DEF Missed
  <2>2. Cardinality(Missed') <= Cardinality(Missed) /\ IsFiniteSet(Missed')
    BY <1>2, <2>1, FS_Subset
  <2>3. Cardinality(Missed') \in Nat
    BY <2>2, FS_CardinalityType
  <2> QED
    BY <1>1, <1>2, <1>3, <2>2, <2>3 DEF MissedBounded
<1>4. CASE ReadPage
  <2>1. UNCHANGED <<list, stayed, created>> /\ pc = "fetching"
    BY <1>4 DEF ReadPage, chainVars
  <2>2. pc' = "returned" => Cardinality(Missed') <= created - Len(list)
    BY <1>4, LastPageMisses
  <2> QED
    BY <2>1, <2>2 DEF StayedInv, MissedBounded
<1>5. CASE Create
  <2>1. /\ list' = Append(list, created + 1) /\ created' = created + 1
        /\ UNCHANGED <<pc, result, stayed>>
    BY <1>5 DEF Create, callVars
  <2>2. list \in Seq(Nat) /\ created + 1 \in Nat
    BY <1>1
  <2>3. Len(list') = Len(list) + 1 /\ \A n \in 1 .. Len(list) : list'[n] = list[n]
    BY <2>1, <2>2, Appended
  <2> QED
    BY <1>1, <1>3, <2>1, <2>3 DEF StayedInv
<1>6. ASSUME NEW n \in Items, Leave(n) PROVE StayedInv' /\ MissedBounded'
  <2>1. /\ n \in 1 .. Len(list) /\ stayed' = stayed \ {list[n]}
        /\ list' \in {RemoveAt(list, n), Front([list EXCEPT ![n] = Last(list)])}
        /\ UNCHANGED <<pc, result, created>>
    BY <1>1, <1>6 DEF Leave, callVars
  <2>2. /\ Len(list') = Len(list) - 1
        /\ \A l \in 1 .. Len(list) : l # n => \E k \in 1 .. Len(list') : list'[k] = list[l]
    <3> DEFINE S == 1 .. created
    <3>1. list \in Seq(S)
      BY <1>1
    <3> HIDE DEF S
    <3>2. ASSUME NEW t, t \in {RemoveAt(list, n), Front([list EXCEPT ![n] = Last(list)])}
          PROVE  ClosesUp(list, n, t)
      <4>1. n \in 1 .. Len(list) /\ \A k, l \in 1 .. Len(list) : list[k] = list[l] => k = l
        BY <1>1, <2>1
      <4> QED
        BY <3>1, <3>2, <4>1, ClosedUp
    <3> QED
      BY <2>1, <3>2 DEF ClosesUp
  <2>3. StayedInv'
    <3> SUFFICES ASSUME NEW item \in stayed, item # list[n]
                 PROVE  \E k \in 1 .. Len(list') : list'[k] = item
      BY <2>1 DEF StayedInv
    <3>1. PICK l \in 1 .. Len(list) : list[l] = item
      BY DEF StayedInv
    <3> QED
      BY <2>2, <3>1
  <2> QED
    BY <1>1, <1>3, <2>1, <2>2, <2>3
<1>7. ASSUME NEW n \in Items, Toggle(n) PROVE StayedInv' /\ MissedBounded'
  BY <1>1, <1>3, <1>7 DEF Toggle, callVars, StayedInv
<1>8. CASE PageFails
  BY <1>8 DEF PageFails, chainVars, StayedInv, MissedBounded
<1>9. CASE UNCHANGED vars
  BY <1>1, <1>3, <1>9 DEF vars, callVars, chainVars, StayedInv
<1> QED
  BY <1>4, <1>5, <1>6, <1>7, <1>8, <1>9, Zenon DEF Next

(* A book misses at most as many of the orders that stayed in the list as  *)
(* others left it, whatever page size and length (Exchange.ts 311-322).    *)
THEOREM MissedAreBounded == Spec => []MissedBounded
<1>1. Init => StayedInv /\ MissedBounded
  <2> SUFFICES ASSUME Init PROVE StayedInv /\ MissedBounded
    OBVIOUS
  <2>1. created \in Nat /\ stayed \subseteq 1 .. created /\ pc = "fetching"
    BY InvInit, TypeFacts DEF Inv, TypeOK, Init
  <2>2. Len(list) = created /\ \A n \in 1 .. created : list[n] = n
    BY <2>1 DEF Init
  <2> QED
    BY <2>1, <2>2 DEF StayedInv, MissedBounded
<1>2. Inv /\ StayedInv /\ MissedBounded /\ [Next]_vars => (StayedInv /\ MissedBounded)'
  BY MissedStep
<1> QED
  BY <1>1, <1>2, Invariance, PTL DEF Spec
=============================================================================
