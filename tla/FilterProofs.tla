---------------------------- MODULE FilterProofs ----------------------------
(***************************************************************************)
(* What filtering a sequence yields, and what folding one does step by     *)
(* step, by induction over its length.                                     *)
(***************************************************************************)
EXTENDS Filter, FiniteSetsExt, WellFoundedInduction, TLAPS

(* A set of natural numbers has a least element. *)
LEMMA LeastElement ==
    ASSUME NEW T \in SUBSET Nat, T # {}
    PROVE  \E x \in T : \A y \in T : x <= y
<1>1. \E x \in T : \A y \in T : ~(<<y, x>> \in OpToRel(<, Nat))
  BY NatLessThanWellFounded, WFMin
<1>2. \A x, y \in T : <<y, x>> \in OpToRel(<, Nat) <=> y < x
  BY DEF OpToRel
<1>3. \E x \in T : \A y \in T : ~(y < x)
  BY <1>1, <1>2, Zenon
<1> QED
  BY <1>3

(* Induction, for a set instead of a predicate. *)
LEMMA SetInduction ==
    ASSUME NEW T, 0 \in T, \A n \in Nat : n \in T => n + 1 \in T
    PROVE  Nat \subseteq T
<1> SUFFICES ASSUME Nat \ T # {} PROVE FALSE
  OBVIOUS
<1>1. PICK x \in Nat \ T : \A y \in Nat \ T : x <= y
  BY LeastElement
<1> QED
  BY <1>1

(* The steps of filtering s, as far as n. *)
Steps(g, s, indices, n) ==
    \A k \in 0 .. n :
        g[k] = IF k = 0 THEN <<>>
               ELSE IF k \in indices THEN Append(g[k - 1], s[k]) ELSE g[k - 1]

LEMMA StepsExist ==
    ASSUME NEW S, NEW s \in Seq(S), NEW indices
    PROVE  \E g \in [0 .. Len(s) -> Seq(S)] : Steps(g, s, indices, Len(s))
<1> DEFINE T == {n \in Nat : n <= Len(s) =>
                    \E g \in [0 .. n -> Seq(S)] : Steps(g, s, indices, n)}
<1>1. 0 \in T
  <2>1. [k \in 0 .. 0 |-> <<>>] \in [0 .. 0 -> Seq(S)]
    OBVIOUS
  <2>2. Steps([k \in 0 .. 0 |-> <<>>], s, indices, 0)
    BY DEF Steps
  <2> QED
    BY <2>1, <2>2
<1>2. ASSUME NEW n \in Nat, n \in T PROVE n + 1 \in T
  <2> SUFFICES ASSUME n + 1 <= Len(s)
               PROVE  \E g \in [0 .. n + 1 -> Seq(S)] : Steps(g, s, indices, n + 1)
    OBVIOUS
  <2>1. PICK g \in [0 .. n -> Seq(S)] : Steps(g, s, indices, n)
    BY <1>2
  <2> DEFINE last == IF n + 1 \in indices THEN Append(g[n], s[n + 1]) ELSE g[n]
             h == [k \in 0 .. n + 1 |-> IF k = n + 1 THEN last ELSE g[k]]
  <2>2. last \in Seq(S)
    <3>1. g[n] \in Seq(S) /\ s[n + 1] \in S
      OBVIOUS
    <3> QED
      BY <3>1
  <2> HIDE DEF last
  <2>3. h \in [0 .. n + 1 -> Seq(S)]
    BY <2>2
  <2>4. ASSUME NEW k \in 0 .. n + 1
        PROVE  h[k] = IF k = 0 THEN <<>>
                      ELSE IF k \in indices THEN Append(h[k - 1], s[k]) ELSE h[k - 1]
    <3>1. CASE k = n + 1
      <4>1. h[k] = last /\ h[k - 1] = g[n] /\ k # 0
        BY <3>1
      <4> QED
        BY <3>1, <4>1 DEF last
    <3>2. CASE k # n + 1
      <4>1. k \in 0 .. n /\ h[k] = g[k] /\ (k # 0 => h[k - 1] = g[k - 1])
        BY <3>2
      <4> HIDE DEF h
      <4> QED
        BY <4>1, <2>1 DEF Steps
    <3> QED
      BY <3>1, <3>2
  <2> QED
    BY <2>3, <2>4 DEF Steps
<1>3. Nat \subseteq T
  <2> HIDE DEF T
  <2> QED
    BY <1>1, <1>2, SetInduction
<1>4. Len(s) \in Nat
  OBVIOUS
<1> QED
  BY <1>3, <1>4

(* Kept is the last of these steps. *)
LEMMA KeptSteps ==
    ASSUME NEW S, NEW s \in Seq(S), NEW indices
    PROVE  \E f : /\ DOMAIN f = 0 .. Len(s)
                  /\ Steps(f, s, indices, Len(s))
                  /\ Kept(s, indices) = f[Len(s)]
<1> DEFINE Def(f) == f = [n \in 0 .. Len(s) |->
                            IF n = 0 THEN <<>>
                            ELSE IF n \in indices THEN Append(f[n - 1], s[n]) ELSE f[n - 1]]
           f == CHOOSE f : Def(f)
<1>1. \E g : Def(g)
  <2>1. PICK g \in [0 .. Len(s) -> Seq(S)] : Steps(g, s, indices, Len(s))
    BY StepsExist
  <2>2. g = [n \in 0 .. Len(s) |->
                IF n = 0 THEN <<>>
                ELSE IF n \in indices THEN Append(g[n - 1], s[n]) ELSE g[n - 1]]
    BY <2>1 DEF Steps
  <2> QED
    BY <2>2
<1>2. Def(f)
  BY <1>1
<1>3. Kept(s, indices) = f[Len(s)]
  BY DEF Kept
<1> HIDE DEF f
<1>4. DOMAIN f = 0 .. Len(s) /\ Steps(f, s, indices, Len(s))
  BY <1>2 DEF Steps
<1> QED
  BY <1>3, <1>4

(* The kept elements are elements of the sequence, and no more of them.    *)
LEMMA KeptElements ==
    ASSUME NEW S, NEW s \in Seq(S), NEW indices
    PROVE  /\ Kept(s, indices) \in Seq(S)
           /\ Len(Kept(s, indices)) <= Len(s)
           /\ \A j \in 1 .. Len(Kept(s, indices)) :
                \E i \in 1 .. Len(s) : i \in indices /\ Kept(s, indices)[j] = s[i]
<1> DEFINE Good(r, n) == /\ r \in Seq(S) /\ Len(r) <= n
                         /\ \A j \in 1 .. Len(r) : \E i \in 1 .. Len(s) : i \in indices /\ r[j] = s[i]
<1>1. PICK f : Steps(f, s, indices, Len(s)) /\ Kept(s, indices) = f[Len(s)]
  BY KeptSteps
<1> DEFINE T == {n \in Nat : n <= Len(s) => Good(f[n], n)}
<1>2. Len(s) \in Nat
  OBVIOUS
<1>3. 0 \in T
  <2>1. f[0] = <<>>
    BY <1>1, <1>2 DEF Steps
  <2>2. f[0] \in Seq(S) /\ Len(f[0]) = 0
    BY <2>1
  <2> QED
    BY <2>2
<1>4. ASSUME NEW n \in Nat, n \in T PROVE n + 1 \in T
  <2> SUFFICES ASSUME n + 1 <= Len(s) PROVE Good(f[n + 1], n + 1)
    OBVIOUS
  <2>1. Good(f[n], n)
    BY <1>2, <1>4
  <2>2. f[n + 1] = IF n + 1 \in indices THEN Append(f[n], s[n + 1]) ELSE f[n]
    <3>1. n + 1 \in 0 .. Len(s) /\ n + 1 # 0 /\ (n + 1) - 1 = n
      BY <1>2
    <3> QED
      BY <1>1, <3>1 DEF Steps
  <2>3. CASE n + 1 \notin indices
    BY <1>2, <2>1, <2>2, <2>3
  <2>4. CASE n + 1 \in indices
    <3> DEFINE r == f[n]
               e == s[n + 1]
    <3>1. e \in S /\ n + 1 \in 1 .. Len(s)
      BY <1>2
    <3>2. f[n + 1] = Append(r, e) /\ Good(r, n)
      BY <2>1, <2>2, <2>4
    <3> HIDE DEF r
    <3>3. Append(r, e) \in Seq(S) /\ Len(Append(r, e)) = Len(r) + 1 /\ Len(r) \in Nat
      BY <3>1, <3>2
    <3>4. ASSUME NEW j \in 1 .. Len(r) + 1
          PROVE  \E i \in 1 .. Len(s) : i \in indices /\ Append(r, e)[j] = s[i]
      <4>1. CASE j = Len(r) + 1
        <5>1. Append(r, e)[j] = e
          BY <3>1, <3>2, <4>1
        <5> QED
          BY <2>4, <3>1, <5>1
      <4>2. CASE j \in 1 .. Len(r)
        <5>1. Append(r, e)[j] = r[j]
          BY <3>1, <3>2, <4>2
        <5> QED
          BY <3>2, <4>2, <5>1
      <4> QED
        BY <3>3, <4>1, <4>2
    <3> QED
      BY <1>2, <3>2, <3>3, <3>4
  <2> QED
    BY <2>3, <2>4
<1>5. Nat \subseteq T
  <2> HIDE DEF T
  <2> QED
    BY <1>3, <1>4, SetInduction
<1>6. Good(f[Len(s)], Len(s))
  BY <1>2, <1>5
<1> QED
  BY <1>1, <1>6

(* One step of filtering appends at most one element. *)
LEMMA StepAppends ==
    ASSUME NEW S, NEW s \in Seq(S), NEW indices, NEW f, Steps(f, s, indices, Len(s)),
           NEW n \in Nat, n + 1 <= Len(s)
    PROVE  /\ s[n + 1] \in S
           /\ f[n + 1] = IF n + 1 \in indices THEN Append(f[n], s[n + 1]) ELSE f[n]
<1>1. n + 1 \in 0 .. Len(s) /\ n + 1 # 0 /\ (n + 1) - 1 = n /\ n + 1 \in 1 .. Len(s)
  OBVIOUS
<1> QED
  BY <1>1 DEF Steps

LEMMA Appended ==
    ASSUME NEW S, NEW r \in Seq(S), NEW e \in S
    PROVE  /\ Append(r, e) \in Seq(S) /\ Len(r) \in Nat /\ Len(Append(r, e)) = Len(r) + 1
           /\ Append(r, e)[Len(r) + 1] = e
           /\ \A j \in 1 .. Len(r) : Append(r, e)[j] = r[j]
  OBVIOUS

(* Nothing that is to be kept is lost.                                     *)
LEMMA KeptAll ==
    ASSUME NEW S, NEW s \in Seq(S), NEW indices, NEW i \in 1 .. Len(s), i \in indices
    PROVE  \E j \in 1 .. Len(Kept(s, indices)) : Kept(s, indices)[j] = s[i]
<1> DEFINE Good(r) == r \in Seq(S) /\ \E j \in 1 .. Len(r) : r[j] = s[i]
<1>1. PICK f : Steps(f, s, indices, Len(s)) /\ Kept(s, indices) = f[Len(s)]
  BY KeptSteps
<1> DEFINE T == {n \in Nat : n <= Len(s) => f[n] \in Seq(S) /\ (i <= n => Good(f[n]))}
<1>2. Len(s) \in Nat
  OBVIOUS
<1>3. 0 \in T
  <2>1. f[0] = <<>>
    BY <1>1, <1>2 DEF Steps
  <2>2. f[0] \in Seq(S) /\ ~(i <= 0)
    BY <2>1
  <2> QED
    BY <2>2
<1>4. ASSUME NEW n \in Nat, n \in T PROVE n + 1 \in T
  <2> SUFFICES ASSUME n + 1 <= Len(s)
               PROVE  f[n + 1] \in Seq(S) /\ (i <= n + 1 => Good(f[n + 1]))
    OBVIOUS
  <2> DEFINE r == f[n]
             e == s[n + 1]
  <2>1. r \in Seq(S) /\ (i <= n => Good(r))
    BY <1>2, <1>4
  <2>2. e \in S /\ f[n + 1] = IF n + 1 \in indices THEN Append(r, e) ELSE r
    BY <1>1, StepAppends
  <2>3. i = n + 1 => e = s[i]
    OBVIOUS
  <2> HIDE DEF r, e
  <2>4. CASE n + 1 \notin indices
    <3>1. i <= n + 1 => i <= n
      BY <2>4
    <3> QED
      BY <2>1, <2>2, <2>4, <3>1
  <2>5. CASE n + 1 \in indices
    <3>1. /\ Append(r, e) \in Seq(S) /\ Len(r) \in Nat /\ Len(Append(r, e)) = Len(r) + 1
          /\ Append(r, e)[Len(r) + 1] = e
          /\ \A j \in 1 .. Len(r) : Append(r, e)[j] = r[j]
      BY <2>1, <2>2, Appended
    <3>2. i = n + 1 => Good(Append(r, e))
      BY <2>3, <3>1
    <3>3. ASSUME i <= n PROVE Good(Append(r, e))
      <4>1. PICK j \in 1 .. Len(r) : r[j] = s[i]
        BY <2>1, <3>3
      <4>2. j \in 1 .. Len(Append(r, e)) /\ Append(r, e)[j] = s[i]
        BY <3>1, <4>1
      <4> QED
        BY <3>1, <4>2
    <3>4. i <= n + 1 => i <= n \/ i = n + 1
      OBVIOUS
    <3> QED
      BY <2>2, <2>5, <3>1, <3>2, <3>3, <3>4
  <2> QED
    BY <2>4, <2>5
<1>5. Nat \subseteq T
  <2> HIDE DEF T
  <2> QED
    BY <1>3, <1>4, SetInduction
<1>6. Good(f[Len(s)])
  BY <1>2, <1>5
<1> QED
  BY <1>1, <1>6

(* If what is kept are the first m, then the result is the first m.        *)
LEMMA KeptPrefix ==
    ASSUME NEW S, NEW s \in Seq(S), NEW m \in 0 .. Len(s), NEW indices,
           \A k \in 1 .. Len(s) : k \in indices <=> k <= m
    PROVE  /\ Kept(s, indices) \in Seq(S)
           /\ Len(Kept(s, indices)) = m
           /\ \A j \in 1 .. m : Kept(s, indices)[j] = s[j]
<1> DEFINE Good(r, n) == r \in Seq(S) /\ Len(r) = n /\ \A j \in 1 .. n : r[j] = s[j]
           upTo(n) == IF n <= m THEN n ELSE m
<1>1. PICK f : Steps(f, s, indices, Len(s)) /\ Kept(s, indices) = f[Len(s)]
  BY KeptSteps
<1> DEFINE T == {n \in Nat : n <= Len(s) => Good(f[n], upTo(n))}
<1>2. Len(s) \in Nat /\ m \in Nat /\ m <= Len(s)
  OBVIOUS
<1>3. 0 \in T
  <2>1. f[0] = <<>>
    BY <1>1, <1>2 DEF Steps
  <2>2. f[0] \in Seq(S) /\ Len(f[0]) = 0 /\ upTo(0) = 0
    BY <1>2, <2>1
  <2> HIDE DEF upTo
  <2> QED
    BY <2>2
<1>4. ASSUME NEW n \in Nat, n \in T PROVE n + 1 \in T
  <2> SUFFICES ASSUME n + 1 <= Len(s) PROVE Good(f[n + 1], upTo(n + 1))
    OBVIOUS
  <2> DEFINE r == f[n]
             e == s[n + 1]
  <2>1. Good(r, upTo(n))
    BY <1>2, <1>4
  <2>2. e \in S /\ f[n + 1] = IF n + 1 \in indices THEN Append(r, e) ELSE r
    BY <1>1, StepAppends
  <2>3. n + 1 \in indices <=> n + 1 <= m
    BY <1>2
  <2> HIDE DEF r
  <2>4. CASE ~(n + 1 <= m)
    <3>1. upTo(n + 1) = upTo(n)
      BY <1>2, <2>4
    <3> QED
      BY <2>1, <2>2, <2>3, <2>4, <3>1
  <2>5. CASE n + 1 <= m
    <3>1. upTo(n + 1) = n + 1 /\ upTo(n) = n
      BY <1>2, <2>5
    <3> HIDE DEF upTo
    <3>2. /\ Append(r, e) \in Seq(S) /\ Len(Append(r, e)) = n + 1
          /\ Append(r, e)[n + 1] = e
          /\ \A j \in 1 .. n : Append(r, e)[j] = r[j]
      BY <2>1, <2>2, <3>1, Appended
    <3>3. \A j \in 1 .. n + 1 : Append(r, e)[j] = s[j]
      BY <2>1, <3>1, <3>2
    <3> QED
      BY <2>2, <2>3, <2>5, <3>1, <3>2, <3>3
  <2> QED
    BY <2>4, <2>5
<1>5. Nat \subseteq T
  <2> HIDE DEF T
  <2> QED
    BY <1>3, <1>4, SetInduction
<1>6. Good(f[Len(s)], upTo(Len(s))) /\ upTo(Len(s)) = m
  BY <1>2, <1>5
<1> QED
  BY <1>1, <1>6

-----------------------------------------------------------------------------
(* Folds.  FoldLeft takes its elements from the set of all indices, the    *)
(* greatest first; what is shown here is that this amounts to the steps    *)
(* from the first index to the last.                                       *)

(* A set of indices has a greatest one. *)
LEMMA GreatestIndex ==
    ASSUME NEW N \in Nat, NEW T \in SUBSET (1 .. N), T # {}
    PROVE  Max(T) \in T /\ \A y \in T : Max(T) >= y
<1> DEFINE D == {d \in Nat : \E x \in T : d = N - x}
<1>1. D \in SUBSET Nat /\ D # {}
  <2>1. PICK x \in T : TRUE
    OBVIOUS
  <2>2. N - x \in Nat
    OBVIOUS
  <2> QED
    BY <2>2
<1>2. PICK d \in D : \A e \in D : d <= e
  BY <1>1, LeastElement
<1>3. PICK x \in T : d = N - x
  BY <1>2
<1>4. ASSUME NEW y \in T PROVE x >= y
  <2>1. N - y \in D
    OBVIOUS
  <2> QED
    BY <1>2, <1>3, <2>1
<1> QED
  BY <1>4 DEF Max

LEMMA FirstIndices ==
    ASSUME NEW n \in Nat
    PROVE  Max(1 .. n + 1) = n + 1 /\ (1 .. n + 1) \ {n + 1} = 1 .. n /\ 1 .. n + 1 # {}
<1>1. n + 1 \in 1 .. n + 1 /\ n + 1 \in Nat
  OBVIOUS
<1>2. 1 .. n + 1 # {} /\ 1 .. n + 1 \in SUBSET (1 .. n + 1)
  BY <1>1
<1>3. Max(1 .. n + 1) \in 1 .. n + 1 /\ \A y \in 1 .. n + 1 : Max(1 .. n + 1) >= y
  BY <1>1, <1>2, GreatestIndex, Zenon
<1>4. Max(1 .. n + 1) = n + 1
  BY <1>1, <1>3
<1>5. (1 .. n + 1) \ {n + 1} = 1 .. n
  OBVIOUS
<1> QED
  BY <1>2, <1>4, <1>5

(* g folds step over every set of the first n indices. *)
FoldsAll(g, base, step, n) ==
    \A T \in SUBSET (1 .. n) :
        g[T] = IF T = {} THEN base ELSE step[<<g[T \ {Max(T)}], Max(T)>>]

FoldTo(R, base, step, n) == \E g \in [SUBSET (1 .. n) -> R] : FoldsAll(g, base, step, n)

LEMMA OneIndexMore ==
    ASSUME NEW N \in Nat, NEW R, NEW base \in R, NEW step \in [R \X (1 .. N) -> R],
           NEW n \in Nat, n + 1 <= N, FoldTo(R, base, step, n)
    PROVE  FoldTo(R, base, step, n + 1)
<1>1. PICK g \in [SUBSET (1 .. n) -> R] : FoldsAll(g, base, step, n)
  BY DEF FoldTo
<1> DEFINE h == [T \in SUBSET (1 .. n + 1) |->
                   IF n + 1 \in T THEN step[<<g[T \ {n + 1}], n + 1>>] ELSE g[T]]
<1>2. n + 1 \in Nat /\ n + 1 \in 1 .. N
  OBVIOUS
<1>3. ASSUME NEW T \in SUBSET (1 .. n + 1)
      PROVE  /\ h[T] \in R
             /\ h[T] = IF T = {} THEN base ELSE step[<<h[T \ {Max(T)}], Max(T)>>]
  <2>1. T # {} => Max(T) \in T /\ \A y \in T : Max(T) >= y
    BY <1>2, GreatestIndex, Zenon
  <2>2. T \ {n + 1} \in SUBSET (1 .. n)
    OBVIOUS
  <2>3. CASE n + 1 \in T
    <3>1. Max(T) = n + 1
      <4>1. Max(T) \in 1 .. n + 1 /\ Max(T) >= n + 1
        BY <2>1, <2>3
      <4> HIDE DEF h
      <4> QED
        BY <4>1
    <3>2. h[T \ {n + 1}] = g[T \ {n + 1}] /\ g[T \ {n + 1}] \in R
      BY <2>2
    <3>3. h[T] = step[<<g[T \ {n + 1}], n + 1>>]
      BY <2>3
    <3> HIDE DEF h
    <3>4. h[T] \in R
      BY <1>2, <3>2, <3>3
    <3> QED
      BY <2>3, <3>1, <3>2, <3>3, <3>4
  <2>4. CASE n + 1 \notin T
    <3>1. T \in SUBSET (1 .. n)
      BY <2>2, <2>4
    <3>2. h[T] = g[T] /\ g[T] \in R
      BY <2>4, <3>1
    <3>3. g[T] = IF T = {} THEN base ELSE step[<<g[T \ {Max(T)}], Max(T)>>]
      BY <1>1, <3>1 DEF FoldsAll
    <3>4. T \ {Max(T)} \in SUBSET (1 .. n) /\ T \ {Max(T)} \in SUBSET (1 .. n + 1)
          /\ n + 1 \notin T \ {Max(T)}
      BY <2>4, <3>1, Zenon
    <3>5. h[T \ {Max(T)}] = g[T \ {Max(T)}]
      BY <3>4
    <3> HIDE DEF h
    <3> QED
      BY <3>2, <3>3, <3>5
  <2> QED
    BY <2>3, <2>4
<1>4. h \in [SUBSET (1 .. n + 1) -> R]
  <2>1. h = [T \in SUBSET (1 .. n + 1) |-> h[T]]
    OBVIOUS
  <2> HIDE DEF h
  <2> QED
    BY <1>3, <2>1
<1>5. FoldsAll(h, base, step, n + 1)
  <2> HIDE DEF h
  <2> QED
    BY <1>3 DEF FoldsAll
<1> HIDE DEF h
<1> QED
  BY <1>4, <1>5 DEF FoldTo

LEMMA FoldExists ==
    ASSUME NEW N \in Nat, NEW R, NEW base \in R, NEW step \in [R \X (1 .. N) -> R]
    PROVE  \E g \in [SUBSET (1 .. N) -> R] : FoldsAll(g, base, step, N)
<1> DEFINE P == {n \in Nat : n <= N => FoldTo(R, base, step, n)}
<1>1. 0 \in P
  <2> DEFINE g == [T \in SUBSET (1 .. 0) |-> base]
  <2>1. \A T \in SUBSET (1 .. 0) : T = {}
    OBVIOUS
  <2>2. g \in [SUBSET (1 .. 0) -> R] /\ \A T \in SUBSET (1 .. 0) : g[T] = base
    OBVIOUS
  <2> HIDE DEF g
  <2>3. FoldTo(R, base, step, 0)
    BY <2>1, <2>2 DEF FoldTo, FoldsAll
  <2> QED
    BY <2>3
<1>2. ASSUME NEW n \in Nat, n \in P PROVE n + 1 \in P
  <2>1. ASSUME n + 1 <= N PROVE FoldTo(R, base, step, n + 1)
    <3>1. FoldTo(R, base, step, n)
      BY <1>2, <2>1
    <3> QED
      BY <2>1, <3>1, OneIndexMore
  <2> QED
    BY <2>1
<1>3. Nat \subseteq P
  <2> HIDE DEF P
  <2> QED
    BY <1>1, <1>2, SetInduction
<1>4. FoldTo(R, base, step, N)
  BY <1>3
<1> QED
  BY <1>4 DEF FoldTo
=============================================================================
