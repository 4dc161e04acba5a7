--------------------------- MODULE SerializerProofs ---------------------------
(***************************************************************************)
(* The serializer (BinarySerializer): that it keeps its types and its read  *)
(* offset whatever the threads do and, of one that one thread writes to,    *)
(* that what is written fits in the memory reserved for it, has the size    *)
(* announced for it, and is what is read back, at its place, by whatever    *)
(* sequence of writes, reads, moves, copies and clears.                     *)
(*                                                                         *)
(* What is written and read is built with folds and recursive functions    *)
(* over data of any length.  Each of them is first shown to be the last of  *)
(* what the prefixes of its data give, by an induction for a set of         *)
(* numbers that comes from the library's theorem that < is well-founded;    *)
(* from there on it is used one element after another.                      *)
(***************************************************************************)
EXTENDS BinarySerializer, SequenceTheorems, WellFoundedInduction, TLAPS

(* Induction over the naturals, for a property given as a set.              *)
LEMMA NatSetInduction ==
  ASSUME NEW P, 0 \in P, \A n \in Nat : n \in P => n + 1 \in P
  PROVE  \A n \in Nat : n \in P
<1> DEFINE Less == OpToRel(<, Nat)
           Bad == {n \in Nat : n \notin P}
<1> SUFFICES ASSUME Bad # {} PROVE FALSE
  OBVIOUS
<1>1. IsWellFoundedOn(Less, Nat)
  BY NatLessThanWellFounded
<1>2. PICK m \in Bad : \A y \in Nat : <<y, m>> \in Less => y \notin Bad
  BY <1>1, WFMin
<1>3. \A y \in Nat : y < m => y \in P
  BY <1>2 DEF OpToRel
<1>4. m \in Nat /\ m \notin P
  BY <1>2
<1>5. m # 0 /\ m - 1 \in Nat /\ m - 1 < m /\ (m - 1) + 1 = m
  BY <1>4
<1> QED BY <1>3, <1>4, <1>5

(* The greatest of a nonempty set of indices, which the folds start from.   *)
LEMMA MaxOfIndices ==
  ASSUME NEW n \in Nat, NEW S \in SUBSET (1 .. n), S # {}
  PROVE  Max(S) \in S /\ \A y \in S : Max(S) >= y
<1> DEFINE P == {k \in Nat : \A R \in SUBSET (1 .. k) : R # {} => \E x \in R : \A y \in R : x >= y}
<1>1. 0 \in P
  <2>1. \A R \in SUBSET (1 .. 0) : R = {}
    OBVIOUS
  <2> QED BY <2>1
<1>2. ASSUME NEW k \in Nat, k \in P PROVE k + 1 \in P
  <2>1. ASSUME NEW R \in SUBSET (1 .. k + 1), R # {}
        PROVE  \E x \in R : \A y \in R : x >= y
    <3>1. CASE k + 1 \in R
      BY <3>1
    <3>2. CASE k + 1 \notin R
      <4>1. R \in SUBSET (1 .. k)
        BY <3>2
      <4> QED BY <1>2, <2>1, <4>1
    <3> QED BY <3>1, <3>2
  <2> QED BY <2>1
<1>3. \A k \in Nat : k \in P
  <2> HIDE DEF P
  <2> QED BY <1>1, <1>2, NatSetInduction
<1>4. \E x \in S : \A y \in S : x >= y
  BY <1>3
<1> QED BY <1>4 DEF Max
-----------------------------------------------------------------------------
(* Sums.  The fold that defines them takes the indices from the greatest    *)
(* down, over all sets of indices.                                          *)
LEMMA SumOverSetsExists ==
  ASSUME NEW s \in Seq(Nat)
  PROVE  \E g \in [SUBSET (1 .. Len(s)) -> Nat] :
           g = [S \in SUBSET (1 .. Len(s)) |-> IF S = {} THEN 0 ELSE g[S \ {Max(S)}] + s[Max(S)]]
<1> DEFINE Is(g, m) == /\ g \in [SUBSET (1 .. m) -> Nat]
                       /\ \A S \in SUBSET (1 .. m) :
                            g[S] = IF S = {} THEN 0 ELSE g[S \ {Max(S)}] + s[Max(S)]
           P == {m \in Nat : m <= Len(s) => \E g : Is(g, m)}
<1>1. 0 \in P
  <2> DEFINE g == [S \in SUBSET (1 .. 0) |-> 0]
  <2>1. \A S \in SUBSET (1 .. 0) : S = {}
    OBVIOUS
  <2>2. Is(g, 0)
    BY <2>1
  <2> HIDE DEF g, Is
  <2> QED BY <2>2
<1>2. ASSUME NEW m \in Nat, m \in P PROVE m + 1 \in P
  <2> HIDE DEF Is
  <2> SUFFICES ASSUME m + 1 <= Len(s) PROVE \E g : Is(g, m + 1)
    OBVIOUS
  <2>1. PICK f : Is(f, m)
    BY <1>2
  <2> USE DEF Is
  <2> DEFINE Rest(S) == S \ {m + 1}
             g == [S \in SUBSET (1 .. m + 1) |->
                     IF m + 1 \in S THEN f[S \ {m + 1}] + s[m + 1] ELSE f[S]]
  <2>2. \A S \in SUBSET (1 .. m + 1) : S \ {m + 1} \in SUBSET (1 .. m)
    OBVIOUS
  <2>3. \A S \in SUBSET (1 .. m + 1) : m + 1 \notin S => S \in SUBSET (1 .. m)
    OBVIOUS
  <2>4. s[m + 1] \in Nat
    OBVIOUS
  <2>5. g \in [SUBSET (1 .. m + 1) -> Nat]
    <3>1. ASSUME NEW S \in SUBSET (1 .. m + 1)
          PROVE  (IF m + 1 \in S THEN f[S \ {m + 1}] + s[m + 1] ELSE f[S]) \in Nat
      <4>1. f[S \ {m + 1}] \in Nat
        BY <2>1, <2>2
      <4>2. m + 1 \notin S => f[S] \in Nat
        BY <2>1, <2>3
      <4> QED BY <4>1, <4>2, <2>4
    <3> QED BY <3>1
  <2>6. ASSUME NEW S \in SUBSET (1 .. m + 1)
        PROVE  g[S] = IF S = {} THEN 0 ELSE g[S \ {Max(S)}] + s[Max(S)]
    <3>1. CASE m + 1 \in S
      <4>1. Max(S) = m + 1
        <5>1. m + 1 \in Nat /\ S # {}
          BY <3>1
        <5>2. Max(S) \in S /\ \A y \in S : Max(S) >= y
          BY <5>1, MaxOfIndices
        <5>3. Max(S) \in 1 .. m + 1 /\ Max(S) >= m + 1
          BY <3>1, <5>2
        <5> QED BY <5>3
      <4>2. S \ {m + 1} \in SUBSET (1 .. m + 1) /\ m + 1 \notin S \ {m + 1}
        OBVIOUS
      <4>3. g[S \ {m + 1}] = f[S \ {m + 1}]
        BY <4>2
      <4> QED BY <3>1, <4>1, <4>3
    <3>2. CASE m + 1 \notin S
      <4>1. S \in SUBSET (1 .. m)
        BY <2>3, <3>2
      <4>2. g[S] = f[S]
        BY <3>2
      <4>3. S # {} => g[S \ {Max(S)}] = f[S \ {Max(S)}]
        BY <3>2
      <4> QED BY <2>1, <4>1, <4>2, <4>3
    <3> QED BY <3>1, <3>2
  <2> HIDE DEF g
  <2>7. Is(g, m + 1)
    BY <2>5, <2>6
  <2> QED BY <2>7
<1>3. Len(s) \in P
  <2>1. Len(s) \in Nat
    OBVIOUS
  <2> HIDE DEF P
  <2> QED BY <1>1, <1>2, <2>1, NatSetInduction
<1>4. PICK g : Is(g, Len(s))
  <2> HIDE DEF Is
  <2> QED BY <1>3
<1>5. g = [S \in SUBSET (1 .. Len(s)) |-> IF S = {} THEN 0 ELSE g[S \ {Max(S)}] + s[Max(S)]]
  BY <1>4
<1> QED BY <1>4, <1>5

(* A sum is the last of the sums of its prefixes.                           *)
LEMMA TotalOfPrefixes ==
  ASSUME NEW s \in Seq(Nat)
  PROVE  \E p \in [0 .. Len(s) -> Nat] :
           /\ p[0] = 0 /\ \A k \in 1 .. Len(s) : p[k] = p[k-1] + s[k]
           /\ Total(s) = p[Len(s)]
<1> DEFINE D == 1 .. Len(s)
<1>1. DOMAIN s = D
  OBVIOUS
<1>2. PICK g : g = [S \in SUBSET D |-> IF S = {} THEN 0 ELSE g[S \ {Max(S)}] + s[Max(S)]]
  BY SumOverSetsExists
<1> DEFINE it == CHOOSE f : f = [S \in SUBSET D |-> IF S = {} THEN 0 ELSE f[S \ {Max(S)}] + s[Max(S)]]
<1>3. it = [S \in SUBSET D |-> IF S = {} THEN 0 ELSE it[S \ {Max(S)}] + s[Max(S)]]
  BY <1>2
<1>4. Total(s) = it[D]
  BY <1>1 DEF Total, FoldLeft, MapThenFoldSet
<1> HIDE DEF it
<1> DEFINE p == [k \in 0 .. Len(s) |-> it[1 .. k]]
<1>0. Len(s) \in Nat /\ \A k \in 0 .. Len(s) : p[k] = it[1 .. k]
  OBVIOUS
<1> HIDE DEF p
<1>5. p[0] = 0
  <2>1. 1 .. 0 = {}
    OBVIOUS
  <2>2. p[0] = it[1 .. 0]
    BY <1>0
  <2>3. it[{}] = 0
    BY <1>3
  <2> QED BY <2>1, <2>2, <2>3
<1>6. ASSUME NEW k \in 1 .. Len(s) PROVE p[k] = p[k-1] + s[k]
  <2>0. k \in Nat /\ k >= 1 /\ k <= Len(s)
    OBVIOUS
  <2>1. 1 .. k \in SUBSET (1 .. k) /\ 1 .. k # {} /\ k \in 1 .. k /\ 1 .. k \in SUBSET D
    BY <1>0, <2>0, SMTT(40)
  <2>2. Max(1 .. k) = k
    <3>1. Max(1 .. k) \in 1 .. k /\ Max(1 .. k) >= k
      <4>1. Max(1 .. k) \in 1 .. k /\ \A y \in 1 .. k : Max(1 .. k) >= y
        BY <2>0, <2>1, MaxOfIndices
      <4> QED BY <2>1, <4>1
    <3> QED BY <2>0, <3>1
  <2>3. (1 .. k) \ {k} = 1 .. k - 1
    OBVIOUS
  <2>4. it[1 .. k] = it[(1 .. k) \ {Max(1 .. k)}] + s[Max(1 .. k)]
    BY <1>3, <2>1
  <2>5. p[k] = it[1 .. k] /\ p[k-1] = it[1 .. k - 1]
    BY <1>0
  <2> QED BY <2>2, <2>3, <2>4, <2>5
<1>7. p \in [0 .. Len(s) -> Nat]
  <2> DEFINE P == {k \in Nat : k <= Len(s) => p[k] \in Nat}
  <2>1. 0 \in P
    BY <1>5
  <2>2. ASSUME NEW k \in Nat, k \in P PROVE k + 1 \in P
    <3> SUFFICES ASSUME k + 1 <= Len(s) PROVE p[k + 1] \in Nat
      OBVIOUS
    <3>1. k + 1 \in 1 .. Len(s) /\ (k + 1) - 1 = k /\ p[k] \in Nat /\ s[k + 1] \in Nat
      BY <2>2
    <3>2. p[k + 1] = p[k] + s[k + 1]
      BY <1>6, <3>1
    <3> QED BY <3>1, <3>2
  <2>3. \A k \in Nat : k \in P
    <3> HIDE DEF P
    <3> QED BY <2>1, <2>2, NatSetInduction
  <2>4. \A k \in 0 .. Len(s) : p[k] \in Nat
    BY <2>3
  <2> QED BY <2>4 DEF p
<1>8. p[Len(s)] = Total(s)
  BY <1>0, <1>4
<1> QED BY <1>5, <1>6, <1>7, <1>8

(* And whatever these sums are computed by, they are the same.              *)
LEMMA TotalIs ==
  ASSUME NEW s \in Seq(Nat), NEW q, q[0] = 0, \A k \in 1 .. Len(s) : q[k] = q[k-1] + s[k]
  PROVE  Total(s) = q[Len(s)] /\ Total(s) \in Nat
<1>1. PICK p \in [0 .. Len(s) -> Nat] :
        /\ p[0] = 0 /\ \A k \in 1 .. Len(s) : p[k] = p[k-1] + s[k]
        /\ Total(s) = p[Len(s)]
  BY TotalOfPrefixes
<1> DEFINE P == {k \in Nat : k <= Len(s) => p[k] = q[k]}
<1>2. 0 \in P
  BY <1>1
<1>3. ASSUME NEW k \in Nat, k \in P PROVE k + 1 \in P
  <2> SUFFICES ASSUME k + 1 <= Len(s) PROVE p[k + 1] = q[k + 1]
    OBVIOUS
  <2>1. k + 1 \in 1 .. Len(s) /\ (k + 1) - 1 = k /\ p[k] = q[k]
    BY <1>3
  <2> QED BY <1>1, <2>1
<1>4. Len(s) \in P
  <2>1. Len(s) \in Nat
    OBVIOUS
  <2> HIDE DEF P
  <2> QED BY <1>2, <1>3, <2>1, NatSetInduction
<1> QED BY <1>1, <1>4

(* The sum of nothing, of two sequences one after the other, and of one    *)
(* number.                                                                 *)
LEMMA TotalEmpty == Total(<<>>) = 0
<1> DEFINE q == [k \in 0 .. 0 |-> 0]
<1>1. q[0] = 0 /\ Len(<<>>) = 0 /\ <<>> \in Seq(Nat)
  OBVIOUS
<1>2. \A k \in 1 .. Len(<<>>) : q[k] = q[k-1] + <<>>[k]
  BY <1>1
<1> HIDE DEF q
<1> QED BY <1>1, <1>2, TotalIs

LEMMA TotalConcat ==
  ASSUME NEW s \in Seq(Nat), NEW t \in Seq(Nat)
  PROVE  Total(s \o t) = Total(s) + Total(t) /\ Total(s) \in Nat /\ Total(t) \in Nat
<1>1. PICK p \in [0 .. Len(s) -> Nat] :
        /\ p[0] = 0 /\ \A k \in 1 .. Len(s) : p[k] = p[k-1] + s[k]
        /\ Total(s) = p[Len(s)]
  BY TotalOfPrefixes
<1>2. PICK r \in [0 .. Len(t) -> Nat] :
        /\ r[0] = 0 /\ \A k \in 1 .. Len(t) : r[k] = r[k-1] + t[k]
        /\ Total(t) = r[Len(t)]
  BY TotalOfPrefixes
<1>3. /\ s \o t \in Seq(Nat) /\ Len(s \o t) = Len(s) + Len(t) /\ Len(s) \in Nat /\ Len(t) \in Nat
      /\ \A k \in 1 .. Len(s) : (s \o t)[k] = s[k]
      /\ \A k \in 1 .. Len(s) + Len(t) : k > Len(s) => (s \o t)[k] = t[k - Len(s)]
  OBVIOUS
<1> DEFINE q == [k \in 0 .. Len(s) + Len(t) |->
                   IF k <= Len(s) THEN p[k] ELSE p[Len(s)] + r[k - Len(s)]]
<1>4. \A k \in 0 .. Len(s) + Len(t) :
        q[k] = IF k <= Len(s) THEN p[k] ELSE p[Len(s)] + r[k - Len(s)]
  OBVIOUS
<1> HIDE DEF q
<1>5. q[0] = 0
  BY <1>1, <1>3, <1>4
<1>6. ASSUME NEW k \in 1 .. Len(s) + Len(t) PROVE q[k] = q[k-1] + (s \o t)[k]
  <2>1. CASE k <= Len(s)
    <3>1. k \in 1 .. Len(s) /\ k \in 0 .. Len(s) + Len(t) /\ k - 1 \in 0 .. Len(s) + Len(t) /\ k - 1 <= Len(s)
      BY <1>3, <2>1
    <3>2. q[k] = p[k] /\ q[k-1] = p[k-1] /\ (s \o t)[k] = s[k]
      BY <1>3, <1>4, <2>1, <3>1
    <3> QED BY <1>1, <3>1, <3>2
  <2>2. CASE k = Len(s) + 1
    <3>1. /\ q[k] = p[Len(s)] + r[1] /\ q[k-1] = p[Len(s)]
          /\ (s \o t)[k] = t[1] /\ 1 \in 1 .. Len(t)
      BY <1>3, <1>4, <2>2, SMTT(40)
    <3>2. r[1] = r[0] + t[1]
      BY <1>2, <3>1
    <3> QED BY <1>1, <1>2, <1>3, <3>1, <3>2
  <2>3. CASE k > Len(s) + 1
    <3> DEFINE j == k - Len(s)
    <3>1. j \in 1 .. Len(t) /\ j - 1 \in 0 .. Len(t)
      BY <1>3, <2>3
    <3>2. /\ q[k] = p[Len(s)] + r[j] /\ q[k-1] = p[Len(s)] + r[j-1]
          /\ (s \o t)[k] = t[j]
      <4>1. /\ k \in 0 .. Len(s) + Len(t) /\ k - 1 \in 0 .. Len(s) + Len(t)
            /\ ~(k <= Len(s)) /\ ~(k - 1 <= Len(s)) /\ (k - 1) - Len(s) = j - 1
        BY <1>3, <2>3
      <4>2. q[k] = p[Len(s)] + r[k - Len(s)]
        BY <1>4, <4>1
      <4>3. q[k-1] = p[Len(s)] + r[(k - 1) - Len(s)]
        BY <1>4, <4>1
      <4>4. (s \o t)[k] = t[k - Len(s)]
        BY <1>3, <4>1
      <4> QED BY <4>1, <4>2, <4>3, <4>4
    <3>3. r[j] = r[j-1] + t[j]
      BY <1>2, <3>1
    <3>4. r[j-1] \in Nat /\ p[Len(s)] \in Nat
      <4> HIDE DEF j
      <4>1. r[j-1] \in Nat
        BY <1>2, <3>1
      <4>2. Len(s) \in 0 .. Len(s)
        BY <1>3
      <4>3. p \in [0 .. Len(s) -> Nat]
        BY <1>1
      <4>4. p[Len(s)] \in Nat
        BY ONLY <4>2, <4>3
      <4> QED BY <4>1, <4>4
    <3>5. t[j] \in Nat
      <4> HIDE DEF j
      <4> QED BY <3>1
    <3> HIDE DEF j
    <3> QED BY <3>2, <3>3, <3>4, <3>5
  <2> QED BY <1>3, <2>1, <2>2, <2>3
<1>7. Total(s \o t) = q[Len(s) + Len(t)]
  BY <1>3, <1>5, <1>6, TotalIs
<1>8. q[Len(s) + Len(t)] = p[Len(s)] + r[Len(t)]
  <2>1. Len(s) + Len(t) \in 0 .. Len(s) + Len(t)
    BY <1>3
  <2>2. CASE Len(t) = 0
    BY <1>1, <1>2, <1>3, <1>4, <2>1, <2>2
  <2>3. CASE Len(t) # 0
    <3>1. ~(Len(s) + Len(t) <= Len(s)) /\ (Len(s) + Len(t)) - Len(s) = Len(t)
      BY <1>3, <2>3
    <3> QED BY <1>4, <2>1, <3>1
  <2> QED BY <2>2, <2>3
<1>9. Total(s) = p[Len(s)] /\ Total(t) = r[Len(t)]
  BY <1>1, <1>2
<1>10. Len(s) \in 0 .. Len(s) /\ Len(t) \in 0 .. Len(t)
  BY <1>3
<1>11. p \in [0 .. Len(s) -> Nat] /\ r \in [0 .. Len(t) -> Nat]
  BY <1>1, <1>2
<1>12. p[Len(s)] \in Nat /\ r[Len(t)] \in Nat
  BY ONLY <1>10, <1>11
<1>13. Total(s \o t) = p[Len(s)] + r[Len(t)]
  BY ONLY <1>7, <1>8
<1> QED BY ONLY <1>9, <1>12, <1>13

LEMMA TotalOne ==
  ASSUME NEW n \in Nat
  PROVE  Total(<<n>>) = n
<1> DEFINE q == [k \in 0 .. 1 |-> IF k = 0 THEN 0 ELSE n]
<1>1. q[0] = 0 /\ q[1] = n /\ Len(<<n>>) = 1 /\ <<n>> \in Seq(Nat) /\ <<n>>[1] = n
  OBVIOUS
<1>2. \A k \in 1 .. Len(<<n>>) : q[k] = q[k-1] + <<n>>[k]
  BY <1>1
<1> HIDE DEF q
<1> QED BY <1>1, <1>2, TotalIs

(* A sum of equal numbers is a product.                                     *)
LEMMA TotalOfEqual ==
  ASSUME NEW n \in Nat, NEW c \in Nat
  PROVE  Total([i \in 1 .. n |-> c]) = c * n
<1> DEFINE s == [i \in 1 .. n |-> c]
           q == [k \in 0 .. n |-> c * k]
<1>1. s \in Seq(Nat) /\ Len(s) = n
  OBVIOUS
<1>2. \A k \in 1 .. n : q[k] = q[k-1] + s[k]
  <2>1. ASSUME NEW k \in 1 .. n PROVE c * k = c * (k-1) + c
    OBVIOUS
  <2> QED BY <2>1
<1>3. q[0] = 0 /\ q[n] = c * n
  OBVIOUS
<1> HIDE DEF s, q
<1>4. Total(s) = q[Len(s)]
  BY <1>1, <1>2, <1>3, TotalIs
<1> QED BY <1>1, <1>3, <1>4 DEF s
-----------------------------------------------------------------------------
(* Sequences put together.  As a sum is, FlattenSeq(ss) is the last of what  *)
(* the prefixes of ss make, and whatever makes them makes the same.         *)
LEMMA PrefixesExist ==
  ASSUME NEW B, NEW ss \in Seq(Seq(B))
  PROVE  \E p \in [0 .. Len(ss) -> Seq(B)] :
           p[0] = <<>> /\ \A k \in 1 .. Len(ss) : p[k] = p[k-1] \o ss[k]
<1> DEFINE Is(p, m) == /\ p \in [0 .. m -> Seq(B)] /\ p[0] = <<>>
                       /\ \A k \in 1 .. m : p[k] = p[k-1] \o ss[k]
           P == {m \in Nat : m <= Len(ss) => \E p : Is(p, m)}
<1>1. 0 \in P
  <2> DEFINE q == [k \in 0 .. 0 |-> <<>>]
  <2>1. q \in [0 .. 0 -> Seq(B)] /\ q[0] = <<>> /\ \A k \in 1 .. 0 : q[k] = q[k-1] \o ss[k]
    OBVIOUS
  <2>2. Is(q, 0)
    BY <2>1
  <2> HIDE DEF q, Is
  <2> QED BY <2>2
<1>2. ASSUME NEW m \in Nat, m \in P PROVE m + 1 \in P
  <2> HIDE DEF Is
  <2> SUFFICES ASSUME m + 1 <= Len(ss) PROVE \E p : Is(p, m + 1)
    OBVIOUS
  <2>1. PICK p : Is(p, m)
    BY <1>2
  <2>0. p \in [0 .. m -> Seq(B)] /\ p[0] = <<>> /\ \A k \in 1 .. m : p[k] = p[k-1] \o ss[k]
    BY <2>1 DEF Is
  <2> DEFINE last == p[m] \o ss[m + 1]
             q == [k \in 0 .. m + 1 |-> IF k <= m THEN p[k] ELSE last]
  <2>2. last \in Seq(B)
    <3>1. p[m] \in Seq(B) /\ ss[m + 1] \in Seq(B)
      BY <2>0
    <3> QED BY <3>1
  <2> HIDE DEF last
  <2>3. q \in [0 .. m + 1 -> Seq(B)]
    <3>1. \A k \in 0 .. m + 1 : k <= m => p[k] \in Seq(B)
      BY <2>0
    <3> QED BY <2>2, <3>1
  <2>4. q[0] = <<>>
    BY <2>0
  <2>5. ASSUME NEW k \in 1 .. m + 1 PROVE q[k] = q[k-1] \o ss[k]
    <3>1. CASE k <= m
      <4>1. q[k] = p[k] /\ q[k-1] = p[k-1]
        BY <3>1
      <4>2. p[k] = p[k-1] \o ss[k]
        <5>1. k \in 1 .. m
          BY <3>1
        <5> QED BY <2>0, <5>1
      <4> QED BY <4>1, <4>2
    <3>2. CASE k = m + 1
      <4>1. q[k] = last /\ q[k-1] = p[m]
        BY <3>2
      <4> QED BY <3>2, <4>1 DEF last
    <3>3. k <= m \/ k = m + 1
      OBVIOUS
    <3> QED BY <3>1, <3>2, <3>3
  <2> HIDE DEF q
  <2>6. Is(q, m + 1)
    BY <2>3, <2>4, <2>5 DEF Is
  <2> QED BY <2>6
<1>3. Len(ss) \in P
  <2>1. Len(ss) \in Nat
    OBVIOUS
  <2> HIDE DEF P
  <2> QED BY <1>1, <1>2, <2>1, NatSetInduction
<1>4. PICK p : Is(p, Len(ss))
  <2> HIDE DEF Is
  <2> QED BY <1>3
<1> QED BY <1>4

(* FlattenSeq gives the last of what the prefixes make.                    *)
LEMMA FlattenOfPrefixes ==
  ASSUME NEW B, NEW ss \in Seq(Seq(B))
  PROVE  \E p \in [0 .. Len(ss) -> Seq(B)] :
           /\ p[0] = <<>> /\ \A k \in 1 .. Len(ss) : p[k] = p[k-1] \o ss[k]
           /\ FlattenSeq(ss) = p[Len(ss)]
<1> DEFINE n == Len(ss)
<1>1. n \in Nat /\ <<>> \in Seq(B) /\ \A k \in 1 .. n : ss[k] \in Seq(B)
  OBVIOUS
<1>3. PICK p \in [0 .. n -> Seq(B)] :
        p[0] = <<>> /\ \A k \in 1 .. n : p[k] = p[k-1] \o ss[k]
  BY PrefixesExist
<1> HIDE DEF n
<1>4. ASSUME NEW k \in 1 .. n PROVE p[k] = p[k-1] \o ss[k]
  BY <1>3
<1>5. FlattenSeq(ss) = p[n]
  <2>1. CASE n = 0
    <3>1. ss = <<>>
      BY <2>1 DEF n
    <3> QED BY <1>3, <2>1, <3>1 DEF FlattenSeq, n
  <2>2. CASE n # 0
    <3> DEFINE f == [i \in 1 .. n |-> p[i]]
               g == CHOOSE h : h = [i \in 1 .. n |-> IF i = 1 THEN ss[i] ELSE h[i-1] \o ss[i]]
    <3>1. f = [i \in 1 .. n |-> IF i = 1 THEN ss[i] ELSE f[i-1] \o ss[i]]
      <4>1. ASSUME NEW i \in 1 .. n PROVE p[i] = IF i = 1 THEN ss[i] ELSE f[i-1] \o ss[i]
        <5>1. CASE i = 1
          <6>1. p[i] = p[i-1] \o ss[i]
            BY <1>4
          <6>2. i - 1 = 0
            BY <5>1
          <6>3. ss[i] \in Seq(B)
            BY <1>1
          <6>4. <<>> \o ss[i] = ss[i]
            BY <6>3
          <6>5. p[i-1] = <<>>
            BY <1>3, <6>2
          <6> QED BY <5>1, <6>1, <6>4, <6>5
        <5>2. CASE i # 1
          <6>1. i - 1 \in 1 .. n
            BY <1>1, <5>2
          <6> QED BY <1>4, <5>2, <6>1
        <5> QED BY <5>1, <5>2
      <4> QED BY <4>1
    <3>2. g = [i \in 1 .. n |-> IF i = 1 THEN ss[i] ELSE g[i-1] \o ss[i]]
      <4> HIDE DEF f
      <4> QED BY <3>1
    <3>3. FlattenSeq(ss) = g[n]
      BY <2>2 DEF FlattenSeq, n
    <3> HIDE DEF f, g
    <3> DEFINE P == {k \in Nat : k <= n => k = 0 \/ g[k] = p[k]}
    <3>4. 0 \in P
      OBVIOUS
    <3>5. ASSUME NEW k \in Nat, k \in P PROVE k + 1 \in P
      <4> SUFFICES ASSUME k + 1 <= n PROVE g[k + 1] = p[k + 1]
        OBVIOUS
      <4>1. k + 1 \in 1 .. n /\ (k + 1) - 1 = k
        BY <1>1
      <4>2. CASE k = 0
        <5>1. 1 \in 1 .. n
          BY <1>1, <4>1, <4>2
        <5>2. p[1] = p[1-1] \o ss[1] /\ ss[1] \in Seq(B)
          BY <1>1, <1>4, <5>1
        <5>3. <<>> \o ss[1] = ss[1] /\ 1 - 1 = 0
          BY <5>2
        <5>4. g[1] = ss[1]
          BY <3>2, <5>1
        <5>5. p[1] = ss[1]
          BY <1>3, <5>2, <5>3
        <5>6. k + 1 = 1
          BY <4>2
        <5> QED BY <5>4, <5>5, <5>6
      <4>3. CASE k # 0
        <5>1. g[k] = p[k] /\ k + 1 # 1
          BY <1>1, <3>5, <4>1, <4>3
        <5>2. g[k + 1] = g[(k + 1) - 1] \o ss[k + 1]
          BY <3>2, <4>1, <5>1
        <5>3. p[k + 1] = p[(k + 1) - 1] \o ss[k + 1]
          BY <1>4, <4>1
        <5> QED BY <4>1, <5>1, <5>2, <5>3
      <4> QED BY <4>2, <4>3
    <3>6. n \in P
      <4> HIDE DEF P
      <4> QED BY <1>1, <3>4, <3>5, NatSetInduction
    <3> QED BY <2>2, <3>3, <3>6
  <2> QED BY <2>1, <2>2
<1> QED BY <1>3, <1>4, <1>5 DEF n

(* And whatever else makes the same of the prefixes gives the same.        *)
LEMMA FlattenIs ==
  ASSUME NEW B, NEW ss \in Seq(Seq(B)), NEW q, q[0] = <<>>,
         \A k \in 1 .. Len(ss) : q[k] = q[k-1] \o ss[k]
  PROVE  FlattenSeq(ss) = q[Len(ss)] /\ FlattenSeq(ss) \in Seq(B)
<1>1. PICK p \in [0 .. Len(ss) -> Seq(B)] :
        /\ p[0] = <<>> /\ \A k \in 1 .. Len(ss) : p[k] = p[k-1] \o ss[k]
        /\ FlattenSeq(ss) = p[Len(ss)]
  BY FlattenOfPrefixes
<1> DEFINE P == {k \in Nat : k <= Len(ss) => p[k] = q[k]}
<1>2. 0 \in P
  BY <1>1
<1>3. ASSUME NEW k \in Nat, k \in P PROVE k + 1 \in P
  <2> SUFFICES ASSUME k + 1 <= Len(ss) PROVE p[k + 1] = q[k + 1]
    OBVIOUS
  <2>1. k + 1 \in 1 .. Len(ss) /\ (k + 1) - 1 = k /\ p[k] = q[k]
    BY <1>3
  <2> QED BY <1>1, <2>1
<1>4. Len(ss) \in P
  <2>1. Len(ss) \in Nat
    OBVIOUS
  <2> HIDE DEF P
  <2> QED BY <1>2, <1>3, <2>1, NatSetInduction
<1> QED BY <1>1, <1>4

(* Of nothing, of two sequences of sequences, and of one sequence.         *)
LEMMA FlattenEmpty == FlattenSeq(<<>>) = <<>>
BY DEF FlattenSeq

LEMMA FlattenConcat ==
  ASSUME NEW B, NEW s \in Seq(Seq(B)), NEW t \in Seq(Seq(B))
  PROVE  /\ FlattenSeq(s \o t) = FlattenSeq(s) \o FlattenSeq(t)
         /\ FlattenSeq(s) \in Seq(B) /\ FlattenSeq(t) \in Seq(B)
<1>1. PICK p \in [0 .. Len(s) -> Seq(B)] :
        /\ p[0] = <<>> /\ \A k \in 1 .. Len(s) : p[k] = p[k-1] \o s[k]
        /\ FlattenSeq(s) = p[Len(s)]
  BY FlattenOfPrefixes
<1>2. PICK r \in [0 .. Len(t) -> Seq(B)] :
        /\ r[0] = <<>> /\ \A k \in 1 .. Len(t) : r[k] = r[k-1] \o t[k]
        /\ FlattenSeq(t) = r[Len(t)]
  BY FlattenOfPrefixes
<1>3. /\ s \o t \in Seq(Seq(B)) /\ Len(s \o t) = Len(s) + Len(t) /\ Len(s) \in Nat /\ Len(t) \in Nat
      /\ \A k \in 1 .. Len(s) : (s \o t)[k] = s[k]
      /\ \A k \in 1 .. Len(s) + Len(t) : k > Len(s) => (s \o t)[k] = t[k - Len(s)]
  OBVIOUS
<1> DEFINE q == [k \in 0 .. Len(s) + Len(t) |->
                   IF k <= Len(s) THEN p[k] ELSE p[Len(s)] \o r[k - Len(s)]]
<1>4. \A k \in 0 .. Len(s) + Len(t) :
        q[k] = IF k <= Len(s) THEN p[k] ELSE p[Len(s)] \o r[k - Len(s)]
  OBVIOUS
<1> HIDE DEF q
<1>5. q[0] = <<>>
  BY <1>1, <1>3, <1>4
<1>6. ASSUME NEW k \in 1 .. Len(s) + Len(t) PROVE q[k] = q[k-1] \o (s \o t)[k]
  <2>1. CASE k <= Len(s)
    <3>1. k \in 1 .. Len(s) /\ k \in 0 .. Len(s) + Len(t) /\ k - 1 \in 0 .. Len(s) + Len(t) /\ k - 1 <= Len(s)
      BY <1>3, <2>1
    <3>2. q[k] = p[k] /\ q[k-1] = p[k-1] /\ (s \o t)[k] = s[k]
      BY <1>3, <1>4, <2>1, <3>1
    <3> QED BY <1>1, <3>1, <3>2
  <2>2. CASE k = Len(s) + 1
    <3>1. /\ k \in 0 .. Len(s) + Len(t) /\ k - 1 \in 0 .. Len(s) + Len(t)
          /\ ~(k <= Len(s)) /\ k - 1 = Len(s) /\ k - Len(s) = 1 /\ 1 \in 1 .. Len(t)
      BY <1>3, <2>2
    <3>2. q[k] = p[Len(s)] \o r[1]
      BY <1>4, <3>1
    <3>3. q[k-1] = p[Len(s)]
      BY <1>3, <1>4, <3>1
    <3>4. (s \o t)[k] = t[1]
      BY <1>3, <3>1
    <3>5. t[1] \in Seq(B)
      BY <3>1
    <3>6. <<>> \o t[1] = t[1] /\ 1 - 1 = 0
      BY <3>5
    <3>7. r[1] = r[1-1] \o t[1]
      BY <1>2, <3>1
    <3>8. r[1] = t[1]
      BY <1>2, <3>6, <3>7
    <3> QED BY <3>2, <3>3, <3>4, <3>8
  <2>3. CASE k > Len(s) + 1
    <3> DEFINE j == k - Len(s)
    <3>1. j \in 1 .. Len(t) /\ j - 1 \in 0 .. Len(t)
      BY <1>3, <2>3
    <3>2. /\ q[k] = p[Len(s)] \o r[j] /\ q[k-1] = p[Len(s)] \o r[j-1]
          /\ (s \o t)[k] = t[j]
      <4>1. /\ k \in 0 .. Len(s) + Len(t) /\ k - 1 \in 0 .. Len(s) + Len(t)
            /\ ~(k <= Len(s)) /\ ~(k - 1 <= Len(s)) /\ (k - 1) - Len(s) = j - 1
        BY <1>3, <2>3
      <4>2. q[k] = p[Len(s)] \o r[k - Len(s)]
        BY <1>4, <4>1
      <4>3. q[k-1] = p[Len(s)] \o r[(k - 1) - Len(s)]
        BY <1>4, <4>1
      <4>4. (s \o t)[k] = t[k - Len(s)]
        BY <1>3, <4>1
      <4> QED BY <4>1, <4>2, <4>3, <4>4
    <3> HIDE DEF j
    <3>3. r[j] = r[j-1] \o t[j]
      BY <1>2, <3>1
    <3>7. r[j-1] \in Seq(B)
      BY <3>1
    <3>4. p[Len(s)] \in Seq(B)
      <4>1. Len(s) \in 0 .. Len(s)
        BY <1>3
      <4> QED BY <4>1
    <3>5. t[j] \in Seq(B)
      BY <3>1
    <3>6. p[Len(s)] \o (r[j-1] \o t[j]) = (p[Len(s)] \o r[j-1]) \o t[j]
      <4> DEFINE a == p[Len(s)]
                 b == r[j-1]
                 c == t[j]
      <4>1. a \in Seq(B) /\ b \in Seq(B) /\ c \in Seq(B)
        BY <3>4, <3>5, <3>7
      <4> HIDE DEF a, b, c
      <4>2. a \o (b \o c) = (a \o b) \o c
        BY <4>1, ConcatAssociative, SMTT(40)
      <4> QED BY <4>2 DEF a, b, c
    <3> QED BY <3>2, <3>3, <3>6
  <2>4. k <= Len(s) \/ k = Len(s) + 1 \/ k > Len(s) + 1
    BY <1>3
  <2> QED BY <2>1, <2>2, <2>3, <2>4, Zenon
<1>7. FlattenSeq(s \o t) = q[Len(s) + Len(t)]
  BY <1>3, <1>5, <1>6, FlattenIs
<1>8. q[Len(s) + Len(t)] = p[Len(s)] \o r[Len(t)]
  <2>1. Len(s) + Len(t) \in 0 .. Len(s) + Len(t)
    BY <1>3
  <2>2. CASE Len(t) = 0
    <3>1. q[Len(s) + Len(t)] = p[Len(s)] /\ r[Len(t)] = <<>> /\ p[Len(s)] \in Seq(B)
      BY <1>1, <1>2, <1>3, <1>4, <2>1, <2>2
    <3> QED BY <3>1
  <2>3. CASE Len(t) # 0
    <3>1. ~(Len(s) + Len(t) <= Len(s)) /\ (Len(s) + Len(t)) - Len(s) = Len(t)
      BY <1>3, <2>3
    <3> QED BY <1>4, <2>1, <3>1
  <2> QED BY <2>2, <2>3
<1>9. FlattenSeq(s) \in Seq(B) /\ FlattenSeq(t) \in Seq(B)
  <2>1. Len(s) \in 0 .. Len(s) /\ Len(t) \in 0 .. Len(t)
    BY <1>3
  <2> QED BY <1>1, <1>2, <2>1
<1> QED BY <1>1, <1>2, <1>7, <1>8, <1>9

LEMMA FlattenOne ==
  ASSUME NEW B, NEW x \in Seq(B)
  PROVE  FlattenSeq(<<x>>) = x
<1> DEFINE q == [k \in 0 .. 1 |-> IF k = 0 THEN <<>> ELSE x]
<1>1. q[0] = <<>> /\ q[1] = x /\ Len(<<x>>) = 1 /\ <<x>> \in Seq(Seq(B)) /\ <<x>>[1] = x /\ <<>> \o x = x
  OBVIOUS
<1>2. \A k \in 1 .. Len(<<x>>) : q[k] = q[k-1] \o <<x>>[k]
  BY <1>1
<1> HIDE DEF q
<1> QED BY <1>1, <1>2, FlattenIs

(* What is put together is as long as its parts.                           *)
LEMMA FlattenLength ==
  ASSUME NEW B, NEW ss \in Seq(Seq(B))
  PROVE  /\ Len(FlattenSeq(ss)) = Total([i \in DOMAIN ss |-> Len(ss[i])])
         /\ FlattenSeq(ss) \in Seq(B)
<1>1. PICK p \in [0 .. Len(ss) -> Seq(B)] :
        /\ p[0] = <<>> /\ \A k \in 1 .. Len(ss) : p[k] = p[k-1] \o ss[k]
        /\ FlattenSeq(ss) = p[Len(ss)]
  BY FlattenOfPrefixes
<1> DEFINE s == [i \in DOMAIN ss |-> Len(ss[i])]
           q == [k \in 0 .. Len(ss) |-> Len(p[k])]
<1>2. s \in Seq(Nat) /\ Len(s) = Len(ss) /\ Len(ss) \in Nat
  OBVIOUS
<1>3. q[0] = 0
  BY <1>1
<1>4. ASSUME NEW k \in 1 .. Len(ss) PROVE q[k] = q[k-1] + s[k]
  <2>0. k - 1 \in 0 .. Len(ss)
    BY <1>2
  <2>1. p[k] = p[k-1] \o ss[k]
    BY <1>1
  <2>4. p[k-1] \in Seq(B)
    BY <2>0
  <2>5. ss[k] \in Seq(B)
    OBVIOUS
  <2>2. Len(p[k]) = Len(p[k-1]) + Len(ss[k])
    BY <2>1, <2>4, <2>5
  <2>3. /\ k \in 0 .. Len(ss) /\ k - 1 \in 0 .. Len(ss) /\ k \in DOMAIN ss
    BY <1>2
  <2> QED BY <2>2, <2>3
<1>5. q[Len(ss)] = Len(FlattenSeq(ss)) /\ FlattenSeq(ss) \in Seq(B)
  BY <1>1
<1> HIDE DEF s, q
<1>6. Total(s) = q[Len(s)]
  BY <1>2, <1>3, <1>4, TotalIs
<1> QED BY <1>2, <1>5, <1>6 DEF s
-----------------------------------------------------------------------------
(* Bytes.  A reversal keeps the length and is undone by another one.        *)
LEMMA ReverseIs ==
  ASSUME NEW B, NEW s \in Seq(B)
  PROVE  /\ Reverse(s) \in Seq(B) /\ Len(Reverse(s)) = Len(s)
         /\ Reverse(Reverse(s)) = s
<1>1. Len(s) \in Nat /\ \A i \in 1 .. Len(s) : s[i] \in B
  OBVIOUS
<1>2. Reverse(s) = [i \in 1 .. Len(s) |-> s[(Len(s) - i) + 1]]
  BY DEF Reverse
<1>3. \A i \in 1 .. Len(s) : (Len(s) - i) + 1 \in 1 .. Len(s)
  BY <1>1
<1>4. Reverse(s) \in Seq(B) /\ Len(Reverse(s)) = Len(s)
  BY <1>1, <1>2, <1>3
<1> DEFINE r == Reverse(s)
<1>5. \A i \in 1 .. Len(s) : r[(Len(s) - i) + 1] = s[i]
  BY <1>1, <1>2, <1>3
<1>6. r \in Seq(B) /\ Len(r) = Len(s)
  BY <1>4
<1> HIDE DEF r
<1>7. Reverse(r) = [i \in 1 .. Len(s) |-> r[(Len(s) - i) + 1]]
  BY <1>6 DEF Reverse
<1>8. Reverse(r) = [i \in 1 .. Len(s) |-> s[i]]
  BY <1>5, <1>7
<1>9. s = [i \in 1 .. Len(s) |-> s[i]]
  OBVIOUS
<1> QED BY <1>4, <1>8, <1>9 DEF r

(* binarySerialize and binaryDeserialize keep the length, and undo each    *)
(* other on one host.                                                      *)
LEMMA SerializeIs ==
  ASSUME NEW B, NEW s \in Seq(B), NEW h
  PROVE  /\ BinarySerialize(h, s) \in Seq(B) /\ Len(BinarySerialize(h, s)) = Len(s)
         /\ BinaryDeserialize(h, s) \in Seq(B) /\ Len(BinaryDeserialize(h, s)) = Len(s)
         /\ BinaryDeserialize(h, BinarySerialize(h, s)) = s
BY ReverseIs DEF BinarySerialize, BinaryDeserialize

(* A number of two bytes, as written by any host: the higher one first.     *)
LEMMA FieldIs ==
  ASSUME NEW h, NEW n \in Nat
  PROVE  /\ BinarySerialize(h, InMemory(h, n, 2)) = <<(n \div 4) % 4, n % 4>>
         /\ BinarySerialize(h, InMemory(h, n, 2)) \in Seq(Byte)
         /\ Len(BinarySerialize(h, InMemory(h, n, 2))) = 2
<1> DEFINE a == (n \div 4) % 4
           c == n % 4
           bytes == [i \in 1 .. 2 |-> (n \div Base ^ (2 - i)) % Base]
<1>1. a \in Byte /\ c \in Byte
  BY DEF Byte, Base
<1>2. bytes = <<a, c>>
  <2>1. (n \div Base ^ (2 - 1)) % Base = a
    <3>1. 4 ^ 1 = 4 /\ 2 - 1 = 1
      OBVIOUS
    <3> QED BY <3>1 DEF Base
  <2>2. (n \div Base ^ (2 - 2)) % Base = c
    <3>1. 4 ^ 0 = 1 /\ 2 - 2 = 0 /\ n \div 1 = n
      OBVIOUS
    <3> QED BY <3>1 DEF Base
  <2>3. bytes[1] = a /\ bytes[2] = c
    BY <2>1, <2>2
  <2> HIDE DEF a, c
  <2>4. \A i \in 1 .. 2 : i = 1 \/ i = 2
    OBVIOUS
  <2>5. bytes = [i \in 1 .. 2 |-> bytes[i]]
    OBVIOUS
  <2> HIDE DEF bytes
  <2>6. \A i \in 1 .. 2 : bytes[i] = <<a, c>>[i]
    BY <2>3, <2>4
  <2>7. <<a, c>> = [i \in 1 .. 2 |-> <<a, c>>[i]]
    OBVIOUS
  <2> QED BY <2>5, <2>6, <2>7
<1> HIDE DEF a, c
<1>3. InMemory(h, n, 2) = IF h = "LT_ENDIAN" THEN Reverse(<<a, c>>) ELSE <<a, c>>
  BY <1>2 DEF InMemory
<1>4. <<a, c>> \in Seq(Byte) /\ Len(<<a, c>>) = 2
  BY <1>1
<1>5. Reverse(Reverse(<<a, c>>)) = <<a, c>>
  BY <1>4, ReverseIs
<1>6. BinarySerialize(h, InMemory(h, n, 2)) = <<a, c>>
  BY <1>3, <1>5 DEF BinarySerialize
<1> QED BY <1>4, <1>6 DEF a, c

(* What concatenation gives, in the forms the layouts need.                *)
LEMMA JoinLength ==
  ASSUME NEW B, NEW s \in Seq(B), NEW t \in Seq(B)
  PROVE  s \o t \in Seq(B) /\ Len(s \o t) = Len(s) + Len(t) /\ Len(s) \in Nat /\ Len(t) \in Nat
OBVIOUS

LEMMA JoinEmpty ==
  ASSUME NEW B, NEW s \in Seq(B)
  PROVE  <<>> \o s = s /\ s \o <<>> = s
OBVIOUS

LEMMA JoinOnes ==
  ASSUME NEW x, NEW y, NEW z
  PROVE  <<x>> \o <<y>> = <<x, y>> /\ (<<x>> \o <<y>>) \o <<z>> = <<x, y, z>>
<1> DEFINE u == <<x>> \o <<y>>
           v == <<x, y>> \o <<z>>
<1>1. u \in Seq({x, y}) /\ Len(u) = 2 /\ u[1] = x /\ u[2] = y
  OBVIOUS
<1>2. v \in Seq({x, y, z}) /\ Len(v) = 3 /\ v[1] = x /\ v[2] = y /\ v[3] = z
  OBVIOUS
<1> HIDE DEF u, v
<1>3. u = <<x, y>>
  BY <1>1
<1>4. v = <<x, y, z>>
  BY <1>2
<1> QED BY <1>3, <1>4 DEF u, v

LEMMA JoinIs ==
  ASSUME NEW B, NEW s \in Seq(B), NEW t \in Seq(B)
  PROVE  s \o t = [i \in 1 .. Len(s) + Len(t) |-> IF i <= Len(s) THEN s[i] ELSE t[i - Len(s)]]
<1> DEFINE u == s \o t
           v == [i \in 1 .. Len(s) + Len(t) |-> IF i <= Len(s) THEN s[i] ELSE t[i - Len(s)]]
<1>1. u \in Seq(B) /\ Len(u) = Len(s) + Len(t) /\ Len(s) \in Nat /\ Len(t) \in Nat
  OBVIOUS
<1>2. \A i \in 1 .. Len(s) + Len(t) : u[i] = v[i]
  OBVIOUS
<1>3. u = [i \in 1 .. Len(u) |-> u[i]]
  <2> HIDE DEF u
  <2> QED BY <1>1
<1>4. v = [i \in 1 .. Len(s) + Len(t) |-> v[i]]
  OBVIOUS
<1> HIDE DEF u, v
<1>5. u = v
  BY <1>1, <1>2, <1>3, <1>4
<1> QED BY <1>5 DEF u, v

LEMMA Join3Length ==
  ASSUME NEW B, NEW s \in Seq(B), NEW t \in Seq(B), NEW u \in Seq(B)
  PROVE  s \o t \o u \in Seq(B) /\ Len(s \o t \o u) = Len(s) + Len(t) + Len(u)
<1>1. s \o t \in Seq(B) /\ Len(s \o t) = Len(s) + Len(t)
  BY JoinLength
<1> DEFINE r == s \o t
<1> HIDE DEF r
<1>2. r \in Seq(B) /\ Len(r) = Len(s) + Len(t)
  BY <1>1 DEF r
<1>3. r \o u \in Seq(B) /\ Len(r \o u) = Len(r) + Len(u)
  BY <1>2, JoinLength
<1> QED BY <1>2, <1>3 DEF r

(* A size and a number take two bytes each, on any host.                   *)
LEMMA SizeFieldIs ==
  ASSUME NEW h, NEW n \in Nat
  PROVE  /\ SizeField(h, n) \in Seq(Byte) /\ Len(SizeField(h, n)) = 2
         /\ NumberField(h, n) \in Seq(Byte) /\ Len(NumberField(h, n)) = 2
BY FieldIs DEF SizeField, NumberField, SizeOfUnit, SizeOfNumber

(* The bytes of the numbers of a sequence, and of each type.               *)
LEMMA NumberFieldsLength ==
  ASSUME NEW h, NEW numbers \in Seq(Nat)
  PROVE  NumberFields(h, numbers) \in Seq(Byte) /\ Len(NumberFields(h, numbers)) = 2 * Len(numbers)
<1> DEFINE ss == [i \in DOMAIN numbers |-> NumberField(h, numbers[i])]
<1>1. Len(numbers) \in Nat /\ DOMAIN numbers = 1 .. Len(numbers) /\ \A i \in DOMAIN numbers : numbers[i] \in Nat
  OBVIOUS
<1>2. \A i \in DOMAIN numbers : NumberField(h, numbers[i]) \in Seq(Byte) /\ Len(NumberField(h, numbers[i])) = 2
  BY <1>1, SizeFieldIs
<1>3. ss \in Seq(Seq(Byte)) /\ DOMAIN ss = 1 .. Len(numbers) /\ \A i \in DOMAIN ss : Len(ss[i]) = 2
  BY <1>1, <1>2
<1>4. NumberFields(h, numbers) = FlattenSeq(ss)
  BY DEF NumberFields
<1> HIDE DEF ss
<1>5. [i \in DOMAIN ss |-> Len(ss[i])] = [i \in 1 .. Len(numbers) |-> 2]
  BY <1>3
<1>6. Total([i \in DOMAIN ss |-> Len(ss[i])]) = 2 * Len(numbers)
  BY <1>1, <1>5, TotalOfEqual
<1> QED BY <1>3, <1>4, <1>6, FlattenLength

LEMMA ScalarLength ==
  ASSUME NEW h, NEW n \in Nat
  PROVE  ScalarLayout(h, n) \in Seq(Byte) /\ Len(ScalarLayout(h, n)) = 4
<1>1. /\ SizeField(h, SizeOfNumber) \in Seq(Byte) /\ Len(SizeField(h, SizeOfNumber)) = 2
      /\ NumberField(h, n) \in Seq(Byte) /\ Len(NumberField(h, n)) = 2
  BY SizeFieldIs DEF SizeOfNumber
<1> DEFINE a == SizeField(h, SizeOfNumber)
           b == NumberField(h, n)
<1>2. ScalarLayout(h, n) = a \o b
  BY DEF ScalarLayout
<1> HIDE DEF a, b
<1>3. a \in Seq(Byte) /\ b \in Seq(Byte) /\ Len(a) = 2 /\ Len(b) = 2
  BY <1>1 DEF a, b
<1>4. a \o b \in Seq(Byte) /\ Len(a \o b) = Len(a) + Len(b)
  BY <1>3, JoinLength
<1> QED BY <1>2, <1>3, <1>4

LEMMA StringLength ==
  ASSUME NEW h, NEW text \in Text
  PROVE  StringLayout(h, text) \in Seq(Byte) /\ Len(StringLayout(h, text)) = 2 + Len(text)
<1>0. text \in Seq(Byte) /\ Len(text) \in Nat
  BY DEF Text
<1>1. SizeField(h, Len(text)) \in Seq(Byte) /\ Len(SizeField(h, Len(text))) = 2
  BY <1>0, SizeFieldIs
<1>2. BinarySerialize(h, text) \in Seq(Byte) /\ Len(BinarySerialize(h, text)) = Len(text)
  BY <1>0, SerializeIs
<1> DEFINE a == SizeField(h, Len(text))
           b == BinarySerialize(h, text)
<1>3. StringLayout(h, text) = a \o b
  BY DEF StringLayout
<1> HIDE DEF a, b
<1>4. a \in Seq(Byte) /\ b \in Seq(Byte) /\ Len(a) = 2 /\ Len(b) = Len(text)
  BY <1>1, <1>2 DEF a, b
<1>5. a \o b \in Seq(Byte) /\ Len(a \o b) = Len(a) + Len(b)
  BY <1>4, JoinLength
<1> QED BY <1>3, <1>4, <1>5

LEMMA VectorLength ==
  ASSUME NEW h, NEW numbers \in Seq(Nat)
  PROVE  VectorLayout(h, numbers) \in Seq(Byte) /\ Len(VectorLayout(h, numbers)) = 4 + 2 * Len(numbers)
<1> DEFINE a == SizeField(h, Len(numbers))
           b == SizeField(h, SizeOfNumber)
           c == NumberFields(h, numbers)
<1>1. a \in Seq(Byte) /\ Len(a) = 2
  BY SizeFieldIs
<1>2. b \in Seq(Byte) /\ Len(b) = 2
  BY SizeFieldIs DEF SizeOfNumber
<1>3. c \in Seq(Byte) /\ Len(c) = 2 * Len(numbers) /\ Len(numbers) \in Nat
  BY NumberFieldsLength
<1>4. VectorLayout(h, numbers) = a \o b \o c
  BY DEF VectorLayout
<1> HIDE DEF a, b, c
<1>5. a \o b \o c \in Seq(Byte) /\ Len(a \o b \o c) = Len(a) + Len(b) + Len(c)
  <2>1. a \in Seq(Byte) /\ b \in Seq(Byte) /\ c \in Seq(Byte)
    BY <1>1, <1>2, <1>3
  <2> QED BY <2>1, Join3Length
<1> QED BY <1>1, <1>2, <1>3, <1>4, <1>5

LEMMA VectorsLength ==
  ASSUME NEW h, NEW vectors \in Seq(Seq(Nat))
  PROVE  /\ VectorsLayout(h, vectors) \in Seq(Byte)
         /\ Len(VectorsLayout(h, vectors)) = 4 + Total([i \in DOMAIN vectors |-> InnerSize(vectors[i])])
<1> DEFINE Part(i) == SizeField(h, Len(vectors[i])) \o NumberFields(h, vectors[i])
           ss == [i \in DOMAIN vectors |-> Part(i)]
           a == SizeField(h, Len(vectors))
           b == SizeField(h, SizeOfNumber)
           c == FlattenSeq(ss)
<1>1. ASSUME NEW i \in DOMAIN vectors PROVE Part(i) \in Seq(Byte) /\ Len(Part(i)) = InnerSize(vectors[i])
  <2>1. vectors[i] \in Seq(Nat) /\ Len(vectors[i]) \in Nat
    OBVIOUS
  <2>2. SizeField(h, Len(vectors[i])) \in Seq(Byte) /\ Len(SizeField(h, Len(vectors[i]))) = 2
    BY <2>1, SizeFieldIs
  <2>3. NumberFields(h, vectors[i]) \in Seq(Byte) /\ Len(NumberFields(h, vectors[i])) = 2 * Len(vectors[i])
    BY <2>1, NumberFieldsLength
  <2> DEFINE f == SizeField(h, Len(vectors[i]))
             g == NumberFields(h, vectors[i])
  <2>4. f \o g \in Seq(Byte) /\ Len(f \o g) = Len(f) + Len(g)
    <3> HIDE DEF f, g
    <3>1. f \in Seq(Byte) /\ g \in Seq(Byte)
      BY <2>2, <2>3 DEF f, g
    <3> QED BY <3>1, JoinLength
  <2>5. InnerSize(vectors[i]) = 2 + 2 * Len(vectors[i])
    BY DEF InnerSize, SizeOfUnit, SizeOfNumber
  <2>6. Len(f \o g) = 2 + 2 * Len(vectors[i])
    BY <2>2, <2>3, <2>4
  <2> QED BY <2>4, <2>5, <2>6
<1>2. a \in Seq(Byte) /\ Len(a) = 2
  BY SizeFieldIs
<1>3. b \in Seq(Byte) /\ Len(b) = 2
  BY SizeFieldIs DEF SizeOfNumber
<1>4. VectorsLayout(h, vectors) = a \o b \o c
  BY DEF VectorsLayout
<1> HIDE DEF Part
<1>5. ss \in Seq(Seq(Byte)) /\ DOMAIN ss = DOMAIN vectors /\ \A i \in DOMAIN vectors : Len(ss[i]) = InnerSize(vectors[i])
  BY <1>1, SMTT(40)
<1> HIDE DEF ss, a, b
<1>6. [i \in DOMAIN ss |-> Len(ss[i])] = [i \in DOMAIN vectors |-> InnerSize(vectors[i])]
  BY <1>5
<1>7. c \in Seq(Byte) /\ Len(c) = Total([i \in DOMAIN vectors |-> InnerSize(vectors[i])])
  BY <1>5, <1>6, FlattenLength
<1> HIDE DEF c
<1>8. Len(a \o b \o c) = 4 + Len(c) /\ a \o b \o c \in Seq(Byte)
  <2>1. Len(a) = 2 /\ Len(b) = 2
    BY <1>2, <1>3 DEF a, b
  <2>2. Len(a \o b \o c) = Len(a) + Len(b) + Len(c) /\ a \o b \o c \in Seq(Byte)
    <3>1. a \in Seq(Byte) /\ b \in Seq(Byte) /\ c \in Seq(Byte)
      BY <1>2, <1>3, <1>7 DEF a, b
    <3> QED BY <3>1, Join3Length
  <2>3. Len(c) \in Nat
    BY <1>7
  <2> QED BY <2>1, <2>2, <2>3
<1> QED BY <1>4, <1>7, <1>8

LEMMA FileLength ==
  ASSUME NEW h, NEW file, file.name \in Text, file.content \in Text
  PROVE  /\ FileLayout(h, file) \in Seq(Byte)
         /\ Len(FileLayout(h, file)) = 4 + Len(file.name) + Len(file.content)
<1> DEFINE a == StringLayout(h, file.name)
           b == SizeField(h, Len(file.content))
           c == file.content
<1>1. a \in Seq(Byte) /\ Len(a) = 2 + Len(file.name) /\ Len(file.name) \in Nat
  BY StringLength DEF Text
<1>2. c \in Seq(Byte) /\ Len(c) \in Nat
  BY DEF Text
<1>3. b \in Seq(Byte) /\ Len(b) = 2
  BY <1>2, SizeFieldIs
<1>4. FileLayout(h, file) = a \o b \o c
  BY DEF FileLayout
<1> HIDE DEF a, b, c
<1>5. a \o b \o c \in Seq(Byte) /\ Len(a \o b \o c) = Len(a) + Len(b) + Len(c)
  <2>1. a \in Seq(Byte) /\ b \in Seq(Byte) /\ c \in Seq(Byte)
    BY <1>1, <1>2, <1>3
  <2> QED BY <2>1, Join3Length
<1>6. 2 + Len(file.name) + 2 + Len(c) = 4 + Len(file.name) + Len(c)
  BY <1>1, <1>2
<1> QED BY <1>1, <1>3, <1>4, <1>5, <1>6 DEF c
-----------------------------------------------------------------------------
(* What remains of a write: the bytes its sections append, and the values   *)
(* they complete.                                                           *)
Step ==
  [op : {"reserve", "grow"}, size : Nat]
    \cup [op : {"append"}, bytes : Seq(Byte), done : Seq(Value)]

BytesOf(s) == IF s.op = "append" THEN s.bytes ELSE <<>>
DoneOf(s) == IF s.op = "append" THEN s.done ELSE <<>>
Content(q) == FlattenSeq([i \in DOMAIN q |-> BytesOf(q[i])])
Completed(q) == FlattenSeq([i \in DOMAIN q |-> DoneOf(q[i])])

(* What a section appends and completes, whatever its operation.           *)
LEMMA StepIs ==
  ASSUME NEW s \in Step
  PROVE  BytesOf(s) \in Seq(Byte) /\ DoneOf(s) \in Seq(Value)
<1>1. <<>> \in Seq(Byte) /\ <<>> \in Seq(Value)
  OBVIOUS
<1> QED BY <1>1 DEF Step, BytesOf, DoneOf

LEMMA ContentParts ==
  ASSUME NEW q \in Seq(Step)
  PROVE  /\ [i \in DOMAIN q |-> BytesOf(q[i])] \in Seq(Seq(Byte))
         /\ [i \in DOMAIN q |-> DoneOf(q[i])] \in Seq(Seq(Value))
         /\ Content(q) \in Seq(Byte) /\ Completed(q) \in Seq(Value)
<1>1. Len(q) \in Nat /\ DOMAIN q = 1 .. Len(q) /\ \A i \in DOMAIN q : q[i] \in Step
  OBVIOUS
<1>2. \A i \in DOMAIN q : BytesOf(q[i]) \in Seq(Byte) /\ DoneOf(q[i]) \in Seq(Value)
  BY <1>1, StepIs
<1>3. /\ [i \in DOMAIN q |-> BytesOf(q[i])] \in Seq(Seq(Byte))
      /\ [i \in DOMAIN q |-> DoneOf(q[i])] \in Seq(Seq(Value))
  BY <1>1, <1>2
<1> QED BY <1>3, FlattenLength DEF Content, Completed

(* The same of two writes one after the other, of none, of one section,    *)
(* and of what follows the first section.                                  *)
LEMMA ContentConcat ==
  ASSUME NEW q \in Seq(Step), NEW r \in Seq(Step)
  PROVE  /\ Content(q \o r) = Content(q) \o Content(r)
         /\ Completed(q \o r) = Completed(q) \o Completed(r)
<1> DEFINE a == [i \in DOMAIN q |-> BytesOf(q[i])]
           b == [i \in DOMAIN r |-> BytesOf(r[i])]
           c == [i \in DOMAIN (q \o r) |-> BytesOf((q \o r)[i])]
           d == [i \in DOMAIN q |-> DoneOf(q[i])]
           e == [i \in DOMAIN r |-> DoneOf(r[i])]
           f == [i \in DOMAIN (q \o r) |-> DoneOf((q \o r)[i])]
<1>1. /\ Len(q) \in Nat /\ Len(r) \in Nat /\ DOMAIN (q \o r) = 1 .. Len(q) + Len(r)
      /\ \A i \in 1 .. Len(q) + Len(r) : (q \o r)[i] = IF i <= Len(q) THEN q[i] ELSE r[i - Len(q)]
      /\ DOMAIN q = 1 .. Len(q) /\ DOMAIN r = 1 .. Len(r)
  OBVIOUS
<1>2. a \in Seq(Seq(Byte)) /\ b \in Seq(Seq(Byte)) /\ d \in Seq(Seq(Value)) /\ e \in Seq(Seq(Value))
  BY ContentParts
<1>3. Len(a) = Len(q) /\ Len(b) = Len(r) /\ Len(d) = Len(q) /\ Len(e) = Len(r)
  BY <1>1
<1>4. /\ \A i \in 1 .. Len(q) : a[i] = BytesOf(q[i]) /\ d[i] = DoneOf(q[i])
      /\ \A i \in 1 .. Len(r) : b[i] = BytesOf(r[i]) /\ e[i] = DoneOf(r[i])
  BY <1>1
<1>5. /\ c = [i \in 1 .. Len(q) + Len(r) |-> BytesOf((q \o r)[i])]
      /\ f = [i \in 1 .. Len(q) + Len(r) |-> DoneOf((q \o r)[i])]
  BY <1>1
<1>6. /\ Content(q \o r) = FlattenSeq(c) /\ Content(q) = FlattenSeq(a) /\ Content(r) = FlattenSeq(b)
      /\ Completed(q \o r) = FlattenSeq(f) /\ Completed(q) = FlattenSeq(d) /\ Completed(r) = FlattenSeq(e)
  BY DEF Content, Completed
<1> HIDE DEF a, b, c, d, e, f
<1>7. c = a \o b
  <2>1. a \o b = [i \in 1 .. Len(q) + Len(r) |-> IF i <= Len(q) THEN a[i] ELSE b[i - Len(q)]]
    <3>1. a \o b = [i \in 1 .. Len(a) + Len(b) |-> IF i <= Len(a) THEN a[i] ELSE b[i - Len(a)]]
      BY <1>2, JoinIs
    <3> QED BY <1>3, <3>1
  <2>2. ASSUME NEW i \in 1 .. Len(q) + Len(r)
        PROVE  BytesOf((q \o r)[i]) = IF i <= Len(q) THEN a[i] ELSE b[i - Len(q)]
    <3>1. CASE i <= Len(q)
      <4>1. (q \o r)[i] = q[i] /\ i \in 1 .. Len(q)
        BY <1>1, <3>1
      <4> QED BY <1>4, <3>1, <4>1
    <3>2. CASE ~(i <= Len(q))
      <4>1. (q \o r)[i] = r[i - Len(q)] /\ i - Len(q) \in 1 .. Len(r)
        BY <1>1, <3>2
      <4> QED BY <1>4, <3>2, <4>1
    <3> QED BY <3>1, <3>2
  <2> QED BY <1>5, <2>1, <2>2
<1>8. f = d \o e
  <2>1. d \o e = [i \in 1 .. Len(q) + Len(r) |-> IF i <= Len(q) THEN d[i] ELSE e[i - Len(q)]]
    <3>1. d \o e = [i \in 1 .. Len(d) + Len(e) |-> IF i <= Len(d) THEN d[i] ELSE e[i - Len(d)]]
      BY <1>2, JoinIs
    <3> QED BY <1>3, <3>1
  <2>2. ASSUME NEW i \in 1 .. Len(q) + Len(r)
        PROVE  DoneOf((q \o r)[i]) = IF i <= Len(q) THEN d[i] ELSE e[i - Len(q)]
    <3>1. CASE i <= Len(q)
      <4>1. (q \o r)[i] = q[i] /\ i \in 1 .. Len(q)
        BY <1>1, <3>1
      <4> QED BY <1>4, <3>1, <4>1
    <3>2. CASE ~(i <= Len(q))
      <4>1. (q \o r)[i] = r[i - Len(q)] /\ i - Len(q) \in 1 .. Len(r)
        BY <1>1, <3>2
      <4> QED BY <1>4, <3>2, <4>1
    <3> QED BY <3>1, <3>2
  <2> QED BY <1>5, <2>1, <2>2
<1>9. FlattenSeq(a \o b) = FlattenSeq(a) \o FlattenSeq(b)
  BY <1>2, FlattenConcat
<1>10. FlattenSeq(d \o e) = FlattenSeq(d) \o FlattenSeq(e)
  BY <1>2, FlattenConcat
<1> QED BY <1>6, <1>7, <1>8, <1>9, <1>10

LEMMA ContentEmpty == Content(<<>>) = <<>> /\ Completed(<<>>) = <<>>
<1>1. /\ [i \in DOMAIN <<>> |-> BytesOf(<<>>[i])] = <<>>
      /\ [i \in DOMAIN <<>> |-> DoneOf(<<>>[i])] = <<>>
  OBVIOUS
<1> QED BY <1>1, FlattenEmpty DEF Content, Completed

LEMMA ContentOne ==
  ASSUME NEW s \in Step
  PROVE  Content(<<s>>) = BytesOf(s) /\ Completed(<<s>>) = DoneOf(s)
<1>1. /\ [i \in DOMAIN <<s>> |-> BytesOf(<<s>>[i])] = <<BytesOf(s)>>
      /\ [i \in DOMAIN <<s>> |-> DoneOf(<<s>>[i])] = <<DoneOf(s)>>
  OBVIOUS
<1>2. FlattenSeq(<<BytesOf(s)>>) = BytesOf(s)
  BY StepIs, FlattenOne
<1>3. FlattenSeq(<<DoneOf(s)>>) = DoneOf(s)
  BY StepIs, FlattenOne
<1> QED BY <1>1, <1>2, <1>3 DEF Content, Completed

LEMMA ContentHead ==
  ASSUME NEW q \in Seq(Step), q # <<>>
  PROVE  /\ Head(q) \in Step /\ Tail(q) \in Seq(Step)
         /\ Content(q) = BytesOf(Head(q)) \o Content(Tail(q))
         /\ Completed(q) = DoneOf(Head(q)) \o Completed(Tail(q))
<1>1. Head(q) \in Step /\ Tail(q) \in Seq(Step) /\ <<Head(q)>> \in Seq(Step)
  OBVIOUS
<1>2. q = <<Head(q)>> \o Tail(q)
  OBVIOUS
<1>3. /\ Content(<<Head(q)>> \o Tail(q)) = Content(<<Head(q)>>) \o Content(Tail(q))
      /\ Completed(<<Head(q)>> \o Tail(q)) = Completed(<<Head(q)>>) \o Completed(Tail(q))
  BY <1>1, ContentConcat
<1>4. Content(<<Head(q)>>) = BytesOf(Head(q)) /\ Completed(<<Head(q)>>) = DoneOf(Head(q))
  BY <1>1, ContentOne
<1> QED BY <1>1, <1>2, <1>3, <1>4, Zenon
-----------------------------------------------------------------------------
(* The values there are.                                                    *)
LEMMA NumberIs == Number = 0 .. 15 /\ Number \subseteq Nat
<1>1. 4 ^ 2 - 1 = 15
  OBVIOUS
<1> QED BY <1>1 DEF Number, Base, SizeOfNumber

(* Sequences of numbers of the type are sequences of naturals.             *)
LEMMA NumbersAreNat ==
  /\ \A s \in Seq(Number) : s \in Seq(Nat)
  /\ \A s \in Seq(Seq(Number)) : s \in Seq(Seq(Nat))
<1>1. ASSUME NEW s \in Seq(Number) PROVE s \in Seq(Nat)
  <2>1. s = [i \in 1 .. Len(s) |-> s[i]] /\ Len(s) \in Nat /\ \A i \in 1 .. Len(s) : s[i] \in Number
    OBVIOUS
  <2>2. \A i \in 1 .. Len(s) : s[i] \in Nat
    BY <2>1, NumberIs
  <2> QED BY <2>1, <2>2
<1>2. ASSUME NEW s \in Seq(Seq(Number)) PROVE s \in Seq(Seq(Nat))
  <2>1. s = [i \in 1 .. Len(s) |-> s[i]] /\ Len(s) \in Nat /\ \A i \in 1 .. Len(s) : s[i] \in Seq(Number)
    OBVIOUS
  <2>2. \A i \in 1 .. Len(s) : s[i] \in Seq(Nat)
    BY <1>1, <2>1
  <2> QED BY <2>1, <2>2
<1> QED BY <1>1, <1>2

(* What val is for each type: ValueAssumption spelt out.                   *)
LEMMA ValueIs ==
  ASSUME NEW v \in Value
  PROVE  /\ v.type \in Type
         /\ v.type = "scalar" => v.val \in Number
         /\ v.type = "string" => v.val \in Text
         /\ v.type = "array" => v.val \in Seq(Number) /\ Len(v.val) = ArrayLength
         /\ v.type = "vector" => v.val \in Seq(Number)
         /\ v.type = "vectors" => v.val \in Seq(Seq(Number))
         /\ v.type = "strings" => v.val \in Seq(Text)
         /\ v.type = "object" => v.val.number \in Number /\ v.val.text \in Text
         /\ v.type = "file" => v.val.name \in Text /\ v.val.name # <<>> /\ v.val.content \in Text
<1>1. v.type \in Type /\ v.val \in Val(v.type) /\ (v.type = "file" => v.val.name # <<>>)
  BY ValueAssumption
<1>2. ASSUME v.type = "array" PROVE v.val \in Seq(Number) /\ Len(v.val) = ArrayLength
  <2>1. v.val \in [1 .. ArrayLength -> Number] /\ ArrayLength \in Nat
    BY <1>1, <1>2, SizeAssumption DEF Val
  <2> QED BY <2>1
<1>3. /\ v.type = "scalar" => v.val \in Number
      /\ v.type = "string" => v.val \in Text
      /\ v.type = "vector" => v.val \in Seq(Number)
      /\ v.type = "vectors" => v.val \in Seq(Seq(Number))
      /\ v.type = "strings" => v.val \in Seq(Text)
  BY <1>1 DEF Val
<1>4. v.type = "object" => v.val.number \in Number /\ v.val.text \in Text
  BY <1>1 DEF Val
<1>5. v.type = "file" => v.val.name \in Text /\ v.val.name # <<>> /\ v.val.content \in Text
  BY <1>1 DEF Val
<1> QED BY <1>1, <1>2, <1>3, <1>4, <1>5

(* The bytes of a value.                                                    *)
TextFields(h, texts) == FlattenSeq([i \in DOMAIN texts |-> StringLayout(h, texts[i])])
Image(h, v) ==
  CASE v.type = "scalar"  -> ScalarLayout(h, v.val)
    [] v.type = "string"  -> StringLayout(h, v.val)
    [] v.type \in {"array", "vector"} -> VectorLayout(h, v.val)
    [] v.type = "vectors" -> VectorsLayout(h, v.val)
    [] v.type = "strings" -> SizeField(h, Len(v.val)) \o TextFields(h, v.val)
    [] v.type = "object"  -> ScalarLayout(h, v.val.number) \o StringLayout(h, v.val.text)
    [] v.type = "file"    -> FileLayout(h, v.val)

(* The strings of a vector<string>, one after the other.                   *)
LEMMA TextFieldsLength ==
  ASSUME NEW h, NEW texts \in Seq(Text)
  PROVE  /\ [i \in DOMAIN texts |-> StringLayout(h, texts[i])] \in Seq(Seq(Byte))
         /\ TextFields(h, texts) \in Seq(Byte)
         /\ Len(TextFields(h, texts)) = Total([i \in DOMAIN texts |-> SizeOfUnit + Len(texts[i])])
<1> DEFINE ss == [i \in DOMAIN texts |-> StringLayout(h, texts[i])]
<1>1. \A i \in DOMAIN texts : StringLayout(h, texts[i]) \in Seq(Byte) /\ Len(StringLayout(h, texts[i])) = 2 + Len(texts[i])
  <2>1. \A i \in DOMAIN texts : texts[i] \in Text
    OBVIOUS
  <2> QED BY <2>1, StringLength
<1>2. Len(texts) \in Nat /\ DOMAIN texts = 1 .. Len(texts)
  OBVIOUS
<1>3. ss \in Seq(Seq(Byte)) /\ DOMAIN ss = DOMAIN texts /\ \A i \in DOMAIN texts : Len(ss[i]) = SizeOfUnit + Len(texts[i])
  BY <1>1, <1>2 DEF SizeOfUnit
<1>4. TextFields(h, texts) = FlattenSeq(ss)
  BY DEF TextFields
<1> HIDE DEF ss
<1>5. [i \in DOMAIN ss |-> Len(ss[i])] = [i \in DOMAIN texts |-> SizeOfUnit + Len(texts[i])]
  BY <1>3
<1>6. FlattenSeq(ss) \in Seq(Byte) /\ Len(FlattenSeq(ss)) = Total([i \in DOMAIN texts |-> SizeOfUnit + Len(texts[i])])
  BY <1>3, <1>5, FlattenLength
<1> QED BY <1>3, <1>4, <1>6 DEF ss

(***************************************************************************)
(* The size that is announced for a value is that of its bytes, whatever   *)
(* its type and however long it is.                                        *)
(***************************************************************************)
THEOREM SizeIsExact ==
  ASSUME NEW h, NEW v \in Value
  PROVE  Image(h, v) \in Seq(Byte) /\ Len(Image(h, v)) = SerializedSize(v)
<1> USE ValueIs
<1>0. SizeOfUnit = 2 /\ SizeOfNumber = 2
  BY DEF SizeOfUnit, SizeOfNumber
<1>1. CASE v.type = "scalar"
  <2>1. Image(h, v) = ScalarLayout(h, v.val) /\ SerializedSize(v) = 4 /\ v.val \in Nat
    BY <1>0, <1>1, NumberIs DEF Image, SerializedSize
  <2> QED BY <2>1, ScalarLength
<1>2. CASE v.type = "string"
  <2>1. Image(h, v) = StringLayout(h, v.val) /\ SerializedSize(v) = 2 + Len(v.val) /\ v.val \in Text
    BY <1>0, <1>2 DEF Image, SerializedSize
  <2> QED BY <2>1, StringLength
<1>3. CASE v.type \in {"array", "vector"}
  <2>1. v.val \in Seq(Nat) /\ (v.type = "array" => Len(v.val) = ArrayLength)
    BY <1>3, NumbersAreNat
  <2>2. Image(h, v) = VectorLayout(h, v.val) /\ SerializedSize(v) = 4 + 2 * Len(v.val)
    <3>1. CASE v.type = "array"
      <4>1. Image(h, v) = VectorLayout(h, v.val)
        BY <3>1 DEF Image
      <4>2. SerializedSize(v) = 2 * 2 + 2 * ArrayLength
        BY <1>0, <3>1 DEF SerializedSize
      <4> QED BY <2>1, <3>1, <4>1, <4>2
    <3>2. CASE v.type = "vector"
      <4>1. Image(h, v) = VectorLayout(h, v.val)
        BY <3>2 DEF Image
      <4>2. SerializedSize(v) = 2 * 2 + 2 * Len(v.val)
        BY <1>0, <3>2 DEF SerializedSize
      <4> QED BY <4>1, <4>2
    <3> QED BY <1>3, <3>1, <3>2
  <2> QED BY <2>1, <2>2, VectorLength
<1>4. CASE v.type = "vectors"
  <2>1. v.val \in Seq(Seq(Nat))
    BY <1>4, NumbersAreNat
  <2>2. /\ Image(h, v) = VectorsLayout(h, v.val)
        /\ SerializedSize(v) = 4 + Total([i \in DOMAIN v.val |-> InnerSize(v.val[i])])
    BY <1>0, <1>4 DEF Image, SerializedSize
  <2> QED BY <2>1, <2>2, VectorsLength
<1>5. CASE v.type = "strings"
  <2> DEFINE a == SizeField(h, Len(v.val))
             b == TextFields(h, v.val)
             n == Total([i \in DOMAIN v.val |-> SizeOfUnit + Len(v.val[i])])
  <2>1. v.val \in Seq(Text) /\ Len(v.val) \in Nat
    BY <1>5
  <2>2. Image(h, v) = a \o b /\ SerializedSize(v) = 2 + n
    BY <1>0, <1>5 DEF Image, SerializedSize
  <2>3. a \in Seq(Byte) /\ Len(a) = 2
    BY <2>1, SizeFieldIs
  <2>4. b \in Seq(Byte) /\ Len(b) = n
    BY <2>1, TextFieldsLength
  <2> HIDE DEF a, b, n
  <2>5. a \o b \in Seq(Byte) /\ Len(a \o b) = Len(a) + Len(b)
    BY <2>3, <2>4, JoinLength
  <2> QED BY <2>2, <2>3, <2>4, <2>5
<1>6. CASE v.type = "object"
  <2> DEFINE a == ScalarLayout(h, v.val.number)
             b == StringLayout(h, v.val.text)
  <2>1. v.val.number \in Nat /\ v.val.text \in Text /\ Len(v.val.text) \in Nat
    BY <1>6, NumberIs, SMTT(40) DEF Text
  <2>2. Image(h, v) = a \o b /\ SerializedSize(v) = 2 + 2 + 2 + Len(v.val.text)
    BY <1>0, <1>6 DEF Image, SerializedSize
  <2>3. a \in Seq(Byte) /\ Len(a) = 4
    BY <2>1, ScalarLength
  <2>4. b \in Seq(Byte) /\ Len(b) = 2 + Len(v.val.text)
    BY <2>1, StringLength
  <2> HIDE DEF a, b
  <2>5. a \o b \in Seq(Byte) /\ Len(a \o b) = Len(a) + Len(b)
    BY <2>3, <2>4, JoinLength
  <2> QED BY <2>1, <2>2, <2>3, <2>4, <2>5
<1>7. CASE v.type = "file"
  <2>1. v.val.name \in Text /\ v.val.content \in Text
    BY <1>7
  <2>2. Image(h, v) = FileLayout(h, v.val) /\ SerializedSize(v) = 4 + Len(v.val.name) + Len(v.val.content)
    BY <1>0, <1>7 DEF Image, SerializedSize
  <2> QED BY <2>1, <2>2, FileLength
<1> QED BY <1>1, <1>2, <1>3, <1>4, <1>5, <1>6, <1>7 DEF Type

(* The two kinds of section that a write is made of, and a write of one.   *)
LEMMA AppendIs ==
  ASSUME NEW bytes \in Seq(Byte), NEW done \in Seq(Value)
  PROVE  /\ AppendStep(bytes, done) \in Step /\ AppendStep(bytes, done).op # "grow"
         /\ BytesOf(AppendStep(bytes, done)) = bytes /\ DoneOf(AppendStep(bytes, done)) = done
BY DEF AppendStep, Step, BytesOf, DoneOf

LEMMA ReserveIs ==
  ASSUME NEW n \in Nat
  PROVE  /\ ReserveStep(n) \in Step /\ ReserveStep(n).op # "grow"
         /\ BytesOf(ReserveStep(n)) = <<>> /\ DoneOf(ReserveStep(n)) = <<>>
BY DEF ReserveStep, Step, BytesOf, DoneOf

LEMMA OneSection ==
  ASSUME NEW v \in Value, NEW bytes \in Seq(Byte)
  PROVE  LET q == <<AppendStep(bytes, <<v>>)>>
         IN q \in Seq(Step) /\ Content(q) = bytes /\ Completed(q) = <<v>> /\ \A i \in DOMAIN q : q[i].op # "grow"
<1> DEFINE s == AppendStep(bytes, <<v>>)
<1>1. s \in Step /\ s.op # "grow" /\ BytesOf(s) = bytes /\ DoneOf(s) = <<v>>
  <2>1. <<v>> \in Seq(Value)
    OBVIOUS
  <2> QED BY <2>1, AppendIs
<1> HIDE DEF s
<1>2. Content(<<s>>) = bytes /\ Completed(<<s>>) = <<v>>
  BY <1>1, ContentOne
<1>3. <<s>> \in Seq(Step) /\ \A i \in DOMAIN <<s>> : <<s>>[i].op # "grow"
  BY <1>1
<1> QED BY <1>2, <1>3 DEF s

(* The sections of the strings of a vector<string> complete it with the    *)
(* last.                                                                   *)
LEMMA TextSections ==
  ASSUME NEW h, NEW v \in Value, v.type = "strings"
  PROVE  LET Done(i) == IF i = Len(v.val) THEN <<v>> ELSE <<>>
             q == [i \in DOMAIN v.val |-> AppendStep(StringLayout(h, v.val[i]), Done(i))]
         IN /\ q \in Seq(Step) /\ Content(q) = TextFields(h, v.val)
            /\ Completed(q) = IF Len(v.val) = 0 THEN <<>> ELSE <<v>>
            /\ \A i \in DOMAIN q : q[i].op # "grow"
<1> DEFINE n == Len(v.val)
           Done(i) == IF i = n THEN <<v>> ELSE <<>>
           q == [i \in DOMAIN v.val |-> AppendStep(StringLayout(h, v.val[i]), Done(i))]
<1>1. v.val \in Seq(Text) /\ n \in Nat /\ DOMAIN v.val = 1 .. n
  BY ValueIs
<1>2. \A i \in 1 .. n : StringLayout(h, v.val[i]) \in Seq(Byte) /\ Done(i) \in Seq(Value)
  <2>1. \A i \in 1 .. n : v.val[i] \in Text
    BY <1>1
  <2>2. \A i \in 1 .. n : StringLayout(h, v.val[i]) \in Seq(Byte)
    BY <2>1, StringLength
  <2>3. <<v>> \in Seq(Value) /\ <<>> \in Seq(Value)
    OBVIOUS
  <2> QED BY <2>2, <2>3
<1> HIDE DEF n, Done
<1>3. \A i \in 1 .. n :
        LET s == AppendStep(StringLayout(h, v.val[i]), Done(i))
        IN s \in Step /\ s.op # "grow" /\ BytesOf(s) = StringLayout(h, v.val[i]) /\ DoneOf(s) = Done(i)
  BY <1>2, AppendIs
<1>4. q = [i \in 1 .. n |-> AppendStep(StringLayout(h, v.val[i]), Done(i))]
  BY <1>1
<1>5. /\ q \in Seq(Step) /\ DOMAIN q = 1 .. n
      /\ \A i \in 1 .. n : q[i].op # "grow" /\ BytesOf(q[i]) = StringLayout(h, v.val[i]) /\ DoneOf(q[i]) = Done(i)
  <2> HIDE DEF q
  <2>1. \A i \in 1 .. n : q[i] = AppendStep(StringLayout(h, v.val[i]), Done(i))
    BY <1>4
  <2>2. q \in Seq(Step)
    BY <1>1, <1>3, <1>4
  <2> QED BY <1>3, <1>4, <2>1, <2>2
<1> HIDE DEF q
<1>6. Content(q) = TextFields(h, v.val)
  <2>1. [i \in DOMAIN q |-> BytesOf(q[i])] = [i \in DOMAIN v.val |-> StringLayout(h, v.val[i])]
    BY <1>1, <1>5
  <2> QED BY <2>1 DEF Content, TextFields
<1>7. Completed(q) = IF n = 0 THEN <<>> ELSE <<v>>
  <2> DEFINE ss == [i \in 1 .. n |-> Done(i)]
             p == [k \in 0 .. n |-> IF k = n /\ k # 0 THEN <<v>> ELSE <<>>]
  <2>1. [i \in DOMAIN q |-> DoneOf(q[i])] = ss
    BY <1>5
  <2>2. ss \in Seq(Seq(Value)) /\ Len(ss) = n
    BY <1>1, <1>2
  <2>3. p[0] = <<>> /\ p[n] = IF n = 0 THEN <<>> ELSE <<v>>
    BY <1>1
  <2>4. ASSUME NEW k \in 1 .. Len(ss) PROVE p[k] = p[k-1] \o ss[k]
    <3>1. k \in 1 .. n /\ ss[k] = Done(k) /\ p[k-1] = <<>>
      BY <1>1, <2>2
    <3>2. p[k] = Done(k)
      BY <1>1, <3>1 DEF Done
    <3>3. <<>> \o Done(k) = Done(k)
      BY <1>2, <3>1
    <3> HIDE DEF p, ss
    <3> QED BY <3>1, <3>2, <3>3
  <2> HIDE DEF p, ss
  <2>5. FlattenSeq(ss) = p[Len(ss)]
    BY <2>2, <2>3, <2>4, FlattenIs
  <2> QED BY <2>1, <2>2, <2>3, <2>5 DEF Completed
<1> QED BY <1>5, <1>6, <1>7 DEF q, n, Done

(* The sections of a value write its bytes and complete it.                 *)
LEMMA SectionsAre ==
  ASSUME NEW h, NEW v \in Value
  PROVE  /\ Sections(h, v) \in Seq(Step)
         /\ Content(Sections(h, v)) = Image(h, v) /\ Completed(Sections(h, v)) = <<v>>
         /\ \A i \in DOMAIN Sections(h, v) : Sections(h, v)[i].op # "grow"
<1>1. CASE v.type \notin {"strings", "object"}
  <2>1. Sections(h, v) = <<AppendStep(Image(h, v), <<v>>)>>
    BY <1>1, ValueIs DEF Sections, Image, Type
  <2>2. Image(h, v) \in Seq(Byte)
    BY SizeIsExact
  <2> DEFINE i == Image(h, v)
  <2> HIDE DEF i
  <2> QED BY <2>1, <2>2, OneSection
<1>2. CASE v.type = "strings"
  <2> DEFINE Done(i) == IF i = Len(v.val) THEN <<v>> ELSE <<>>
             s == AppendStep(SizeField(h, Len(v.val)), Done(0))
             q == [i \in DOMAIN v.val |-> AppendStep(StringLayout(h, v.val[i]), Done(i))]
  <2>1. Sections(h, v) = <<s>> \o q /\ Image(h, v) = SizeField(h, Len(v.val)) \o TextFields(h, v.val)
    BY <1>2 DEF Sections, Image
  <2>2. /\ q \in Seq(Step) /\ Content(q) = TextFields(h, v.val)
        /\ Completed(q) = IF Len(v.val) = 0 THEN <<>> ELSE <<v>>
        /\ \A i \in DOMAIN q : q[i].op # "grow"
    BY <1>2, TextSections
  <2>3. Len(v.val) \in Nat /\ SizeField(h, Len(v.val)) \in Seq(Byte)
    BY <1>2, ValueIs, SizeFieldIs
  <2>4. Done(0) = IF Len(v.val) = 0 THEN <<v>> ELSE <<>>
    BY <2>3
  <2>5. Done(0) \in Seq(Value)
    OBVIOUS
  <2> HIDE DEF Done
  <2>6. s \in Step /\ s.op # "grow" /\ BytesOf(s) = SizeField(h, Len(v.val)) /\ DoneOf(s) = Done(0)
    BY <2>3, <2>5, AppendIs
  <2> HIDE DEF s, q
  <2>7. /\ Content(<<s>>) = SizeField(h, Len(v.val)) /\ Completed(<<s>>) = Done(0)
        /\ <<s>> \in Seq(Step)
    BY <2>6, ContentOne
  <2>8. /\ Content(<<s>> \o q) = SizeField(h, Len(v.val)) \o TextFields(h, v.val)
        /\ Completed(<<s>> \o q) = Completed(<<s>>) \o Completed(q)
    BY <2>2, <2>7, ContentConcat
  <2>9. Completed(<<s>>) \o Completed(q) = <<v>>
    <3>1. <<v>> \in Seq(Value) /\ <<v>> \o <<>> = <<v>> /\ <<>> \o <<v>> = <<v>>
      BY JoinEmpty
    <3>2. CASE Len(v.val) = 0
      BY <2>2, <2>4, <2>7, <3>1, <3>2, Zenon
    <3>3. CASE Len(v.val) # 0
      BY <2>2, <2>4, <2>7, <3>1, <3>3, Zenon
    <3> QED BY <3>2, <3>3
  <2>10. <<s>> \o q \in Seq(Step) /\ \A i \in DOMAIN (<<s>> \o q) : (<<s>> \o q)[i].op # "grow"
    BY <2>2, <2>6
  <2> QED BY <2>1, <2>8, <2>9, <2>10
<1>3. CASE v.type = "object"
  <2> DEFINE r == ReserveStep(SerializedSize(v))
             a == AppendStep(ScalarLayout(h, v.val.number), <<>>)
             b == AppendStep(StringLayout(h, v.val.text), <<v>>)
  <2>1. Sections(h, v) = <<r, a, b>> /\ Image(h, v) = ScalarLayout(h, v.val.number) \o StringLayout(h, v.val.text)
    BY <1>3 DEF Sections, Image
  <2>2. SerializedSize(v) \in Nat
    BY SizeIsExact
  <2>3. r \in Step /\ r.op # "grow" /\ BytesOf(r) = <<>> /\ DoneOf(r) = <<>>
    BY <2>2, ReserveIs
  <2>4. ScalarLayout(h, v.val.number) \in Seq(Byte) /\ StringLayout(h, v.val.text) \in Seq(Byte)
    BY <1>3, ValueIs, NumberIs, ScalarLength, StringLength
  <2>5. <<>> \in Seq(Value) /\ <<v>> \in Seq(Value)
    OBVIOUS
  <2>6. a \in Step /\ a.op # "grow" /\ BytesOf(a) = ScalarLayout(h, v.val.number) /\ DoneOf(a) = <<>>
    BY <2>4, <2>5, AppendIs
  <2>7. b \in Step /\ b.op # "grow" /\ BytesOf(b) = StringLayout(h, v.val.text) /\ DoneOf(b) = <<v>>
    BY <2>4, <2>5, AppendIs
  <2> HIDE DEF r, a, b
  <2>8. /\ <<r, a, b>> = (<<r>> \o <<a>>) \o <<b>>
        /\ <<r>> \in Seq(Step) /\ <<a>> \in Seq(Step) /\ <<b>> \in Seq(Step) /\ <<r>> \o <<a>> \in Seq(Step)
    <3>1. <<r, a, b>> = (<<r>> \o <<a>>) \o <<b>>
      BY JoinOnes
    <3>2. <<r>> \in Seq(Step) /\ <<a>> \in Seq(Step) /\ <<b>> \in Seq(Step)
      BY <2>3, <2>6, <2>7
    <3>3. <<r>> \o <<a>> \in Seq(Step)
      BY <3>2, JoinLength
    <3> QED BY <3>1, <3>2, <3>3
  <2>9. Content(<<r>>) = <<>> /\ Content(<<a>>) = ScalarLayout(h, v.val.number) /\ Content(<<b>>) = StringLayout(h, v.val.text)
    BY <2>3, <2>6, <2>7, ContentOne
  <2>10. Completed(<<r>>) = <<>> /\ Completed(<<a>>) = <<>> /\ Completed(<<b>>) = <<v>>
    BY <2>3, <2>6, <2>7, ContentOne
  <2>11. /\ Content(<<r, a, b>>) = (Content(<<r>>) \o Content(<<a>>)) \o Content(<<b>>)
         /\ Completed(<<r, a, b>>) = (Completed(<<r>>) \o Completed(<<a>>)) \o Completed(<<b>>)
    BY <2>8, ContentConcat
  <2>12. Content(<<r>>) \o Content(<<a>>) = ScalarLayout(h, v.val.number)
    BY <2>4, <2>9, JoinEmpty
  <2>13. (Completed(<<r>>) \o Completed(<<a>>)) \o Completed(<<b>>) = <<v>>
    <3>1. <<>> \in Seq(Value) /\ <<v>> \in Seq(Value)
      OBVIOUS
    <3>2. <<>> \o <<>> = <<>> /\ <<>> \o <<v>> = <<v>>
      BY <3>1, JoinEmpty
    <3> QED BY <2>10, <3>2
  <2>14. <<r, a, b>> \in Seq(Step) /\ \A i \in DOMAIN <<r, a, b>> : <<r, a, b>>[i].op # "grow"
    BY <2>3, <2>6, <2>7
  <2> QED BY <2>1, <2>9, <2>11, <2>12, <2>13, <2>14
<1> QED BY <1>1, <1>2, <1>3
-----------------------------------------------------------------------------
(* The bytes of what is in the buffer, or will be.                          *)
Entry == [value : Value, host : Host]
EntriesOf(h, vs) == [i \in DOMAIN vs |-> [value |-> vs[i], host |-> h]]
Images(w) == FlattenSeq([i \in DOMAIN w |-> Image(w[i].host, w[i].value)])

(* What is in the buffer after a write.                                    *)
LEMMA EntriesAre ==
  ASSUME NEW h \in Host, NEW vs \in Seq(Value)
  PROVE  EntriesOf(h, vs) \in Seq(Entry) /\ ValuesOf(EntriesOf(h, vs)) = vs
<1>1. Len(vs) \in Nat /\ DOMAIN vs = 1 .. Len(vs) /\ \A i \in DOMAIN vs : vs[i] \in Value
  OBVIOUS
<1>2. \A i \in DOMAIN vs : [value |-> vs[i], host |-> h] \in Entry
  BY <1>1 DEF Entry
<1>3. EntriesOf(h, vs) \in Seq(Entry)
  BY <1>1, <1>2 DEF EntriesOf
<1>4. ValuesOf(EntriesOf(h, vs)) = [i \in DOMAIN vs |-> vs[i]]
  BY DEF EntriesOf, ValuesOf
<1>5. vs = [i \in DOMAIN vs |-> vs[i]]
  OBVIOUS
<1> QED BY <1>3, <1>4, <1>5

LEMMA EntriesConcat ==
  ASSUME NEW h \in Host, NEW vs \in Seq(Value), NEW ws \in Seq(Value)
  PROVE  EntriesOf(h, vs \o ws) = EntriesOf(h, vs) \o EntriesOf(h, ws)
<1> DEFINE a == EntriesOf(h, vs)
           b == EntriesOf(h, ws)
           E(x) == [value |-> x, host |-> h]
<1>1. Len(vs) \in Nat /\ Len(ws) \in Nat /\ DOMAIN vs = 1 .. Len(vs) /\ DOMAIN ws = 1 .. Len(ws)
  OBVIOUS
<1>2. vs \o ws = [i \in 1 .. Len(vs) + Len(ws) |-> IF i <= Len(vs) THEN vs[i] ELSE ws[i - Len(vs)]]
  BY JoinIs
<1>3. a = [i \in 1 .. Len(vs) |-> E(vs[i])] /\ b = [i \in 1 .. Len(ws) |-> E(ws[i])]
  BY <1>1 DEF EntriesOf
<1>4. a \in Seq(Entry) /\ b \in Seq(Entry) /\ Len(a) = Len(vs) /\ Len(b) = Len(ws)
  BY <1>1, <1>3, EntriesAre
<1>5. EntriesOf(h, vs \o ws) = [i \in 1 .. Len(vs) + Len(ws) |-> E((vs \o ws)[i])]
  BY <1>1, <1>2 DEF EntriesOf
<1> HIDE DEF E, a, b
<1>6. a \o b = [i \in 1 .. Len(vs) + Len(ws) |-> IF i <= Len(vs) THEN a[i] ELSE b[i - Len(vs)]]
  <2>1. a \o b = [i \in 1 .. Len(a) + Len(b) |-> IF i <= Len(a) THEN a[i] ELSE b[i - Len(a)]]
    BY <1>4, JoinIs
  <2> QED BY <1>4, <2>1
<1>7. ASSUME NEW i \in 1 .. Len(vs) + Len(ws)
      PROVE  E((vs \o ws)[i]) = IF i <= Len(vs) THEN a[i] ELSE b[i - Len(vs)]
  <2>1. CASE i <= Len(vs)
    <3>1. (vs \o ws)[i] = vs[i] /\ i \in 1 .. Len(vs)
      BY <1>1, <1>2, <2>1
    <3> QED BY <1>3, <2>1, <3>1
  <2>2. CASE ~(i <= Len(vs))
    <3>1. (vs \o ws)[i] = ws[i - Len(vs)] /\ i - Len(vs) \in 1 .. Len(ws)
      BY <1>1, <1>2, <2>2
    <3> QED BY <1>3, <2>2, <3>1
  <2> QED BY <2>1, <2>2
<1>8. a \o b = EntriesOf(h, vs \o ws)
  BY <1>5, <1>6, <1>7
<1> QED BY <1>8 DEF a, b

(* The bytes in the buffer are as many as the sizes announced.             *)
LEMMA ImagesParts ==
  ASSUME NEW w \in Seq(Entry)
  PROVE  /\ [i \in DOMAIN w |-> Image(w[i].host, w[i].value)] \in Seq(Seq(Byte))
         /\ Images(w) \in Seq(Byte)
         /\ Len(Images(w)) = SerializedSizes(ValuesOf(w))
         /\ ValuesOf(w) \in Seq(Value)
<1> DEFINE ss == [i \in DOMAIN w |-> Image(w[i].host, w[i].value)]
<1>1. Len(w) \in Nat /\ DOMAIN w = 1 .. Len(w) /\ \A i \in DOMAIN w : w[i] \in Entry
  OBVIOUS
<1>2. \A i \in DOMAIN w : w[i].value \in Value
  BY <1>1 DEF Entry
<1>3. \A i \in DOMAIN w : /\ Image(w[i].host, w[i].value) \in Seq(Byte)
                          /\ Len(Image(w[i].host, w[i].value)) = SerializedSize(w[i].value)
  BY <1>2, SizeIsExact
<1>4. ss \in Seq(Seq(Byte)) /\ DOMAIN ss = DOMAIN w /\ \A i \in DOMAIN w : Len(ss[i]) = SerializedSize(w[i].value)
  BY <1>1, <1>3
<1>5. Images(w) = FlattenSeq(ss)
  BY DEF Images
<1> HIDE DEF ss
<1>6. [i \in DOMAIN ss |-> Len(ss[i])] = [i \in DOMAIN w |-> SerializedSize(w[i].value)]
  BY <1>4
<1>7. SerializedSizes(ValuesOf(w)) = Total([i \in DOMAIN w |-> SerializedSize(w[i].value)])
  <2>1. [i \in DOMAIN ValuesOf(w) |-> SerializedSize(ValuesOf(w)[i])] = [i \in DOMAIN w |-> SerializedSize(w[i].value)]
    BY DEF ValuesOf
  <2> QED BY <2>1 DEF SerializedSizes
<1>8. FlattenSeq(ss) \in Seq(Byte) /\ Len(FlattenSeq(ss)) = Total([i \in DOMAIN ss |-> Len(ss[i])])
  BY <1>4, FlattenLength
<1>9. ValuesOf(w) \in Seq(Value)
  BY <1>1, <1>2 DEF ValuesOf
<1> QED BY <1>4, <1>5, <1>6, <1>7, <1>8, <1>9 DEF ss

(* The bytes of what is written after something else come after its        *)
(* bytes.                                                                  *)
LEMMA ImagesConcat ==
  ASSUME NEW w \in Seq(Entry), NEW x \in Seq(Entry)
  PROVE  Images(w \o x) = Images(w) \o Images(x)
<1> DEFINE I(e) == Image(e.host, e.value)
           a == [i \in DOMAIN w |-> I(w[i])]
           b == [i \in DOMAIN x |-> I(x[i])]
           c == [i \in DOMAIN (w \o x) |-> I((w \o x)[i])]
<1>1. Len(w) \in Nat /\ Len(x) \in Nat /\ DOMAIN w = 1 .. Len(w) /\ DOMAIN x = 1 .. Len(x)
  OBVIOUS
<1>2. w \o x = [i \in 1 .. Len(w) + Len(x) |-> IF i <= Len(w) THEN w[i] ELSE x[i - Len(w)]]
  BY JoinIs
<1>3. a \in Seq(Seq(Byte)) /\ b \in Seq(Seq(Byte))
  BY ImagesParts
<1>4. Images(w) = FlattenSeq(a) /\ Images(x) = FlattenSeq(b) /\ Images(w \o x) = FlattenSeq(c)
  BY DEF Images
<1> HIDE DEF I
<1>5. /\ Len(a) = Len(w) /\ Len(b) = Len(x)
      /\ \A i \in 1 .. Len(w) : a[i] = I(w[i])
      /\ \A i \in 1 .. Len(x) : b[i] = I(x[i])
  BY <1>1
<1>6. c = [i \in 1 .. Len(w) + Len(x) |-> I((w \o x)[i])]
  BY <1>1, <1>2
<1> HIDE DEF a, b, c
<1>7. a \o b = [i \in 1 .. Len(w) + Len(x) |-> IF i <= Len(w) THEN a[i] ELSE b[i - Len(w)]]
  <2>1. a \o b = [i \in 1 .. Len(a) + Len(b) |-> IF i <= Len(a) THEN a[i] ELSE b[i - Len(a)]]
    BY <1>3, JoinIs
  <2> QED BY <1>5, <2>1
<1>8. ASSUME NEW i \in 1 .. Len(w) + Len(x)
      PROVE  I((w \o x)[i]) = IF i <= Len(w) THEN a[i] ELSE b[i - Len(w)]
  <2>1. CASE i <= Len(w)
    <3>1. (w \o x)[i] = w[i] /\ i \in 1 .. Len(w)
      BY <1>1, <1>2, <2>1
    <3> QED BY <1>5, <2>1, <3>1
  <2>2. CASE ~(i <= Len(w))
    <3>1. (w \o x)[i] = x[i - Len(w)] /\ i - Len(w) \in 1 .. Len(x)
      BY <1>1, <1>2, <2>2
    <3> QED BY <1>5, <2>2, <3>1
  <2> QED BY <2>1, <2>2
<1>9. c = a \o b
  BY <1>6, <1>7, <1>8
<1>10. FlattenSeq(a \o b) = FlattenSeq(a) \o FlattenSeq(b)
  BY <1>3, FlattenConcat
<1> QED BY <1>4, <1>9, <1>10

LEMMA ImagesOne ==
  ASSUME NEW h \in Host, NEW v \in Value
  PROVE  Images(EntriesOf(h, <<v>>)) = Image(h, v)
<1>1. EntriesOf(h, <<v>>) = <<[value |-> v, host |-> h]>>
  BY DEF EntriesOf
<1> DEFINE e == [value |-> v, host |-> h]
<1>2. [i \in DOMAIN <<e>> |-> Image(<<e>>[i].host, <<e>>[i].value)] = <<Image(h, v)>>
  OBVIOUS
<1>3. FlattenSeq(<<Image(h, v)>>) = Image(h, v)
  BY SizeIsExact, FlattenOne
<1> QED BY <1>1, <1>2, <1>3 DEF Images

(* What a write is about to do, of one value or of two.                     *)
LEMMA CallSections ==
  ASSUME NEW h \in Host, NEW vs \in Calls
  PROVE  LET q == FlattenSeq([i \in DOMAIN vs |-> Sections(h, vs[i])])
         IN /\ vs \in Seq(Value)
            /\ q \in Seq(Step) /\ \A i \in DOMAIN q : q[i].op # "grow"
            /\ Content(q) = Images(EntriesOf(h, vs)) /\ Completed(q) = vs
<1>1. CASE \E v \in Value : vs = <<v>>
  <2>1. PICK v \in Value : vs = <<v>>
    BY <1>1
  <2>2. [i \in DOMAIN vs |-> Sections(h, vs[i])] = <<Sections(h, v)>>
    BY <2>1
  <2>3. FlattenSeq(<<Sections(h, v)>>) = Sections(h, v)
    BY SectionsAre, FlattenOne
  <2>4. vs \in Seq(Value)
    BY <2>1
  <2> QED BY <2>1, <2>2, <2>3, <2>4, SectionsAre, ImagesOne
<1>2. CASE \E v, w \in Value : vs = <<v, w>>
  <2>1. PICK v \in Value, w \in Value : vs = <<v, w>>
    BY <1>2
  <2> DEFINE a == Sections(h, v)
             b == Sections(h, w)
  <2>2. [i \in DOMAIN vs |-> Sections(h, vs[i])] = <<a, b>>
    BY <2>1
  <2>3. /\ a \in Seq(Step) /\ Content(a) = Image(h, v) /\ Completed(a) = <<v>> /\ \A i \in DOMAIN a : a[i].op # "grow"
        /\ b \in Seq(Step) /\ Content(b) = Image(h, w) /\ Completed(b) = <<w>> /\ \A i \in DOMAIN b : b[i].op # "grow"
    BY SectionsAre
  <2> HIDE DEF a, b
  <2>4. <<a>> \o <<b>> = <<a, b>> /\ <<v>> \o <<w>> = vs
    BY <2>1, JoinOnes
  <2>5. FlattenSeq(<<a>>) = a /\ FlattenSeq(<<b>>) = b
    BY <2>3, FlattenOne
  <2>6. FlattenSeq(<<a>> \o <<b>>) = FlattenSeq(<<a>>) \o FlattenSeq(<<b>>)
    <3>1. <<a>> \in Seq(Seq(Step)) /\ <<b>> \in Seq(Seq(Step))
      BY <2>3
    <3> QED BY <3>1, FlattenConcat
  <2>7. FlattenSeq(<<a, b>>) = a \o b
    BY <2>4, <2>5, <2>6
  <2>8. Content(a \o b) = Image(h, v) \o Image(h, w) /\ Completed(a \o b) = <<v>> \o <<w>>
    BY <2>3, ContentConcat
  <2>9. a \o b \in Seq(Step) /\ \A i \in DOMAIN (a \o b) : (a \o b)[i].op # "grow"
    <3>1. a \o b \in Seq(Step)
      BY <2>3, JoinLength
    <3>2. a \o b = [i \in 1 .. Len(a) + Len(b) |-> IF i <= Len(a) THEN a[i] ELSE b[i - Len(a)]]
      BY <2>3, JoinIs
    <3>3. ASSUME NEW i \in 1 .. Len(a) + Len(b)
          PROVE  (IF i <= Len(a) THEN a[i] ELSE b[i - Len(a)]).op # "grow"
      <4>1. Len(a) \in Nat /\ Len(b) \in Nat /\ DOMAIN a = 1 .. Len(a) /\ DOMAIN b = 1 .. Len(b)
        BY <2>3
      <4>2. i <= Len(a) => i \in DOMAIN a
        BY <4>1
      <4>3. ~(i <= Len(a)) => i - Len(a) \in DOMAIN b
        BY <4>1
      <4> QED BY <2>3, <4>2, <4>3
    <3> QED BY <3>1, <3>2, <3>3
  <2>10. <<v>> \in Seq(Value) /\ <<w>> \in Seq(Value) /\ vs \in Seq(Value)
    BY <2>1
  <2>11. EntriesOf(h, <<v>> \o <<w>>) = EntriesOf(h, <<v>>) \o EntriesOf(h, <<w>>)
    BY <2>10, EntriesConcat
  <2>12. EntriesOf(h, <<v>>) \in Seq(Entry) /\ EntriesOf(h, <<w>>) \in Seq(Entry)
    BY <2>10, EntriesAre
  <2>13. Images(EntriesOf(h, <<v>>) \o EntriesOf(h, <<w>>)) = Image(h, v) \o Image(h, w)
    BY <2>12, ImagesConcat, ImagesOne
  <2>14. Images(EntriesOf(h, vs)) = Image(h, v) \o Image(h, w)
    BY <2>4, <2>11, <2>13
  <2> QED BY <2>2, <2>4, <2>7, <2>8, <2>9, <2>10, <2>14
<1>3. vs \in {<<v>> : v \in Value} \/ vs \in {<<v, w>> : v, w \in {u \in Value : u.type # "file"}}
  BY DEF Calls
<1> QED BY <1>1, <1>2, <1>3

(* What a thread has before it when it calls write: a reserve of the       *)
(* exact size, and the bytes of all values.                                *)
LEMMA WriteIs ==
  ASSUME NEW h \in Host, NEW vs \in Calls
  PROVE  LET size == SerializedSizes(vs)
             q == <<ReserveStep(size)>> \o FlattenSeq([i \in DOMAIN vs |-> Sections(h, vs[i])])
         IN /\ vs \in Seq(Value) /\ size \in Nat
            /\ q \in Seq(Step) /\ q # <<>> /\ Head(q) = ReserveStep(size)
            /\ \A i \in DOMAIN q : q[i].op # "grow"
            /\ Content(q) = Images(EntriesOf(h, vs)) /\ Completed(q) = vs
            /\ Len(Content(q)) = size
<1> DEFINE size == SerializedSizes(vs)
           s == ReserveStep(size)
           r == FlattenSeq([i \in DOMAIN vs |-> Sections(h, vs[i])])
<1>1. /\ vs \in Seq(Value) /\ r \in Seq(Step) /\ \A i \in DOMAIN r : r[i].op # "grow"
      /\ Content(r) = Images(EntriesOf(h, vs)) /\ Completed(r) = vs
  BY CallSections
<1>2. EntriesOf(h, vs) \in Seq(Entry) /\ ValuesOf(EntriesOf(h, vs)) = vs
  BY <1>1, EntriesAre
<1>3. Len(Images(EntriesOf(h, vs))) = size /\ Images(EntriesOf(h, vs)) \in Seq(Byte)
  BY <1>2, ImagesParts
<1>4. size \in Nat
  BY <1>3
<1>5. s \in Step /\ s.op # "grow" /\ BytesOf(s) = <<>> /\ DoneOf(s) = <<>>
  BY <1>4, ReserveIs
<1> HIDE DEF size, s, r
<1>6. Content(<<s>>) = <<>> /\ Completed(<<s>>) = <<>> /\ <<s>> \in Seq(Step)
  BY <1>5, ContentOne
<1>7. Content(<<s>> \o r) = <<>> \o Content(r) /\ Completed(<<s>> \o r) = <<>> \o Completed(r)
  BY <1>1, <1>6, ContentConcat
<1>8. <<>> \o Content(r) = Content(r) /\ <<>> \o Completed(r) = Completed(r)
  BY <1>1, <1>3, JoinEmpty
<1>9. /\ <<s>> \o r \in Seq(Step) /\ <<s>> \o r # <<>> /\ Head(<<s>> \o r) = s
      /\ \A i \in DOMAIN (<<s>> \o r) : (<<s>> \o r)[i].op # "grow"
  BY <1>1, <1>5
<1> QED BY <1>1, <1>3, <1>4, <1>7, <1>8, <1>9 DEF size, s, r
-----------------------------------------------------------------------------
(* Reads.  The number that two bytes make for any host that reads them.     *)
LEMMA NumberInTwo ==
  ASSUME NEW a \in Nat, NEW c \in Nat
  PROVE  FoldLeft(LAMBDA n, byte : n * Base + byte, 0, <<a, c>>) = a * 4 + c
<1> DEFINE s == <<a, c>>
           g == [S \in SUBSET (1 .. 2) |->
                   IF 1 \in S THEN IF 2 \in S THEN a * 4 + c ELSE a
                   ELSE IF 2 \in S THEN c ELSE 0]
           it == CHOOSE f : f = [S \in SUBSET (1 .. 2) |->
                   IF S = {} THEN 0 ELSE f[S \ {Max(S)}] * 4 + s[Max(S)]]
<1>1. g = [S \in SUBSET (1 .. 2) |-> IF S = {} THEN 0 ELSE g[S \ {Max(S)}] * 4 + s[Max(S)]]
  <2>1. ASSUME NEW S \in SUBSET (1 .. 2)
        PROVE  g[S] = IF S = {} THEN 0 ELSE g[S \ {Max(S)}] * 4 + s[Max(S)]
    <3>1. CASE S = {}
      BY <3>1
    <3>2. CASE S # {} /\ 2 \in S
      <4>1. Max(S) \in S /\ Max(S) >= 2
        BY <3>2, MaxOfIndices
      <4>2. Max(S) = 2
        <5>1. Max(S) \in 1 .. 2
          BY <4>1
        <5> QED BY <4>1, <5>1
      <4>3. S \ {2} \in SUBSET (1 .. 2) /\ 2 \notin S \ {2} /\ (1 \in S \ {2} <=> 1 \in S)
        OBVIOUS
      <4>4. g[S \ {2}] = IF 1 \in S THEN a ELSE 0
        BY <4>3
      <4>5. s[2] = c
        OBVIOUS
      <4> QED BY <3>2, <4>2, <4>4, <4>5
    <3>3. CASE S # {} /\ 2 \notin S
      <4>1. S = {1}
        <5>1. \A x \in S : x = 1
          <6>1. \A x \in S : x \in 1 .. 2 /\ x # 2
            BY <3>3
          <6> QED BY <6>1
        <5> QED BY <3>3, <5>1
      <4>2. Max(S) \in S
        BY <3>3, MaxOfIndices
      <4>3. Max(S) = 1 /\ S \ {1} = {}
        BY <4>1, <4>2
      <4>4. g[{}] = 0 /\ s[1] = a
        OBVIOUS
      <4> QED BY <3>3, <4>1, <4>3, <4>4
    <3> QED BY <3>1, <3>2, <3>3
  <2> HIDE DEF s
  <2>2. g = [S \in SUBSET (1 .. 2) |-> g[S]]
    OBVIOUS
  <2> HIDE DEF g
  <2> QED BY <2>1, <2>2
<1>2. it = [S \in SUBSET (1 .. 2) |-> IF S = {} THEN 0 ELSE it[S \ {Max(S)}] * 4 + s[Max(S)]]
  <2> HIDE DEF g, s
  <2> QED BY <1>1
<1>3. FoldLeft(LAMBDA n, byte : n * Base + byte, 0, s) = it[1 .. 2]
  <2>1. DOMAIN s = 1 .. 2
    OBVIOUS
  <2> HIDE DEF s
  <2> QED BY <2>1 DEF FoldLeft, MapThenFoldSet, Base
<1> HIDE DEF it
<1>4. s[1] = a /\ s[2] = c
  OBVIOUS
<1> HIDE DEF s
<1>5. Max({1}) = 1 /\ Max({1, 2}) = 2
  <2>1. {1} \in SUBSET (1 .. 2) /\ {1, 2} \in SUBSET (1 .. 2) /\ {1} # {} /\ {1, 2} # {}
    OBVIOUS
  <2>2. Max({1}) \in {1}
    BY <2>1, MaxOfIndices
  <2>3. Max({1, 2}) \in {1, 2} /\ Max({1, 2}) >= 2
    BY <2>1, MaxOfIndices
  <2> QED BY <2>2, <2>3
<1>6. it[{}] = 0
  BY <1>2
<1>7. it[{1}] = a
  <2>1. {1} \in SUBSET (1 .. 2) /\ {1} # {} /\ {1} \ {1} = {}
    OBVIOUS
  <2>2. it[{1}] = it[{1} \ {Max({1})}] * 4 + s[Max({1})]
    BY <1>2, <2>1
  <2> QED BY <1>4, <1>5, <1>6, <2>1, <2>2
<1>8. it[{1, 2}] = a * 4 + c
  <2>1. {1, 2} \in SUBSET (1 .. 2) /\ {1, 2} # {} /\ {1, 2} \ {2} = {1} /\ {1, 2} = 1 .. 2
    OBVIOUS
  <2>2. it[{1, 2}] = it[{1, 2} \ {Max({1, 2})}] * 4 + s[Max({1, 2})]
    BY <1>2, <2>1
  <2> QED BY <1>4, <1>5, <1>7, <2>1, <2>2
<1>9. 1 .. 2 = {1, 2}
  OBVIOUS
<1> QED BY <1>3, <1>8, <1>9 DEF s

(* A part of the bytes, and the number in two of them.                      *)
LEMMA BytesAre ==
  ASSUME NEW b, b.data \in Seq(Byte), NEW off \in Nat, NEW n \in Nat, off + n <= Len(b.data)
  PROVE  /\ SubSeq(b.data, off + 1, off + n) \in Seq(Byte)
         /\ Len(SubSeq(b.data, off + 1, off + n)) = n
         /\ \A i \in 1 .. n : SubSeq(b.data, off + 1, off + n)[i] = b.data[off + i]
         /\ Bytes(b, off, n) \in Seq(Byte) /\ Len(Bytes(b, off, n)) = n
<1> DEFINE d == b.data
<1>1. d \in Seq(Byte) /\ Len(d) \in Nat /\ off + n <= Len(d)
  OBVIOUS
<1> HIDE DEF d
<1> DEFINE s == SubSeq(d, off + 1, off + n)
<1>2. s = [i \in 1 .. n |-> d[off + i]]
  BY <1>1
<1>3. \A i \in 1 .. n : d[off + i] \in Byte
  BY <1>1
<1>4. s \in Seq(Byte) /\ Len(s) = n /\ \A i \in 1 .. n : s[i] = d[off + i]
  BY <1>2, <1>3, SMTT(40)
<1> HIDE DEF s
<1>5. BinaryDeserialize(b.host, s) \in Seq(Byte) /\ Len(BinaryDeserialize(b.host, s)) = n
  BY <1>4, SerializeIs
<1> QED BY <1>4, <1>5 DEF s, d, Bytes

NumberAt(b, off) == b.data[off + 1] * 4 + b.data[off + 2]

(* Two bytes of a buffer, read as a number.                                *)
LEMMA NumberIsRead ==
  ASSUME NEW b, b.data \in Seq(Byte), NEW off \in Nat, off + 2 <= Len(b.data)
  PROVE  NumberIn(b.host, Bytes(b, off, 2)) = NumberAt(b, off) /\ NumberAt(b, off) \in 0 .. 15
<1> DEFINE s == SubSeq(b.data, off + 1, off + 2)
           x == b.data[off + 1]
           y == b.data[off + 2]
<1>1. s \in Seq(Byte) /\ Len(s) = 2 /\ \A i \in 1 .. 2 : s[i] = b.data[off + i]
  <2>1. 2 \in Nat
    OBVIOUS
  <2> HIDE DEF s
  <2> QED BY <2>1, BytesAre DEF s
<1>2. x \in Byte /\ y \in Byte
  <2>1. Len(b.data) \in Nat
    OBVIOUS
  <2> QED BY <2>1
<1>3. s = <<x, y>>
  <2>1. s[1] = x /\ s[2] = y
    BY <1>1
  <2> HIDE DEF s, x, y
  <2> QED BY <1>1, <2>1
<1>4. x \in 0 .. 3 /\ y \in 0 .. 3
  BY <1>2 DEF Byte, Base
<1> HIDE DEF s, x, y
<1>5. Reverse(Reverse(s)) = s
  BY <1>1, ReverseIs
<1>6. (IF b.host = "LT_ENDIAN" THEN Reverse(BinaryDeserialize(b.host, s)) ELSE BinaryDeserialize(b.host, s)) = s
  BY <1>5 DEF BinaryDeserialize
<1>7. Bytes(b, off, 2) = BinaryDeserialize(b.host, s)
  BY DEF Bytes, s
<1>8. NumberIn(b.host, Bytes(b, off, 2)) = FoldLeft(LAMBDA n, byte : n * Base + byte, 0, s)
  BY <1>6, <1>7 DEF NumberIn
<1>9. FoldLeft(LAMBDA n, byte : n * Base + byte, 0, <<x, y>>) = x * 4 + y
  <2>1. x \in Nat /\ y \in Nat
    BY <1>4
  <2> QED BY <2>1, NumberInTwo
<1>10. x * 4 + y \in 0 .. 15
  BY <1>4
<1> QED BY <1>3, <1>8, <1>9, <1>10 DEF NumberAt, x, y

(***************************************************************************)
(* Where a read of any bytes, into any variable, leaves the offset: where   *)
(* it was or further on, and never beyond the bytes.                       *)
(***************************************************************************)
Stays(b, off, r) == r.off \in off .. Len(b.data)
Readable(b, off) == b.data \in Seq(Byte) /\ off \in 0 .. Len(b.data)

(* Two bytes are left, or not.                                             *)
LEMMA ReadableIs ==
  ASSUME NEW b, NEW off, Readable(b, off)
  PROVE  /\ off \in Nat /\ Len(b.data) \in Nat /\ off <= Len(b.data)
         /\ off + 2 <= Len(b.data) =>
              /\ NumberIn(b.host, Bytes(b, off, 2)) = NumberAt(b, off)
              /\ NumberAt(b, off) \in Nat /\ NumberAt(b, off) \in 0 .. 15
              /\ Readable(b, off + 2)
<1>1. b.data \in Seq(Byte) /\ off \in Nat /\ off <= Len(b.data) /\ Len(b.data) \in Nat
  BY DEF Readable
<1>2. ASSUME off + 2 <= Len(b.data)
      PROVE  /\ NumberIn(b.host, Bytes(b, off, 2)) = NumberAt(b, off)
             /\ NumberAt(b, off) \in 0 .. 15
  BY <1>1, <1>2, NumberIsRead
<1>3. ASSUME off + 2 <= Len(b.data) PROVE Readable(b, off + 2)
  BY <1>1, <1>3 DEF Readable
<1>4. 0 .. 15 \subseteq Nat
  OBVIOUS
<1> QED BY <1>1, <1>2, <1>3, <1>4

(* Each read in turn.                                                      *)
LEMMA ScalarStays ==
  ASSUME NEW b, NEW off, Readable(b, off), NEW old
  PROVE  Stays(b, off, ReadScalar(b, off, old))
<1> USE ReadableIs
<1>1. CASE off + 2 <= Len(b.data)
  BY <1>1 DEF ReadScalar, Sized, There, SizeOfUnit, SizeOfNumber, Gives, Throws, Stays
<1>2. CASE ~(off + 2 <= Len(b.data))
  BY <1>2 DEF ReadScalar, Sized, There, SizeOfUnit, Throws, Stays
<1> QED BY <1>1, <1>2

LEMMA StringStays ==
  ASSUME NEW b, NEW off, Readable(b, off), NEW old
  PROVE  Stays(b, off, ReadString(b, off, old))
<1> USE ReadableIs
<1>1. CASE off + 2 <= Len(b.data)
  BY <1>1 DEF ReadString, Sized, There, SizeOfUnit, Gives, Throws, Stays
<1>2. CASE ~(off + 2 <= Len(b.data))
  BY <1>2 DEF ReadString, Sized, There, SizeOfUnit, Throws, Stays
<1> QED BY <1>1, <1>2

LEMMA FileStays ==
  ASSUME NEW b, NEW off, Readable(b, off), NEW opens
  PROVE  Stays(b, off, ReadFile(b, off, opens))
<1>0. off \in Nat /\ Len(b.data) \in Nat /\ off <= Len(b.data)
  BY ReadableIs
<1>1. CASE off + 2 <= Len(b.data)
  <2> DEFINE size == NumberAt(b, off)
             p == off + 2 + size
             name == Bytes(b, off + 2, size)
             refused == size = 0 \/ ~Left(b, off + 2, size) \/ ~(p <= Len(b.data))
  <2>0. NumberIn(b.host, Bytes(b, off, 2)) = size /\ size \in Nat
    BY <1>1, ReadableIs
  <2>3. ReadFile(b, off, opens) = IF refused THEN Throws(off + 2) ELSE FileRest(b, p, name, opens)
    BY <1>1, <2>0 DEF ReadFile, Sized, There, SizeOfUnit
  <2>1. CASE refused
    <3> HIDE DEF refused
    <3> QED BY <1>0, <1>1, <2>1, <2>3 DEF Throws, Stays
  <2>2. CASE ~refused
    <3>1. Readable(b, p) /\ p \in Nat /\ p >= off
      BY <1>0, <2>0, <2>2, ReadableIs DEF Readable
    <3> HIDE DEF p, size, name
    <3>2. ReadFile(b, off, opens) = FileRest(b, p, name, opens)
      BY <2>2, <2>3
    <3>4. CASE p + 2 <= Len(b.data)
      <4> DEFINE length == NumberAt(b, p)
                 q == p + 2
      <4>1. NumberIn(b.host, Bytes(b, p, 2)) = length /\ length \in Nat
        BY <3>1, <3>4, ReadableIs
      <4>2. \/ FileRest(b, p, name, opens).off = q
            \/ FileRest(b, p, name, opens).off = q + length /\ q + length <= Len(b.data)
        BY <3>4, <4>1 DEF FileRest, Sized, There, SizeOfUnit, Gives, Throws, Undefined
      <4>3. q \in Nat /\ q >= off /\ q <= Len(b.data)
        BY <1>0, <3>1, <3>4
      <4> HIDE DEF length, q
      <4> QED BY <1>0, <3>2, <4>1, <4>2, <4>3 DEF Stays
    <3>5. CASE ~(p + 2 <= Len(b.data))
      <4>1. FileRest(b, p, name, opens) = Throws(p)
        BY <3>5 DEF FileRest, Sized, There, SizeOfUnit
      <4> QED BY <3>1, <3>2, <4>1 DEF Throws, Stays, Readable
    <3> QED BY <3>4, <3>5
  <2> QED BY <2>1, <2>2
<1>2. CASE ~(off + 2 <= Len(b.data))
  <2>1. ReadFile(b, off, opens) = Throws(off)
    BY <1>2 DEF ReadFile, Sized, There, SizeOfUnit
  <2> QED BY <1>0, <2>1 DEF Throws, Stays
<1> QED BY <1>1, <1>2

LEMMA NumbersStay ==
  ASSUME NEW b, NEW off, Readable(b, off), NEW old, NEW room
  PROVE  Stays(b, off, ReadNumbers(b, off, old, room))
<1>0. off \in Nat /\ Len(b.data) \in Nat /\ off <= Len(b.data)
  BY ReadableIs
<1>1. CASE off + 2 <= Len(b.data)
  <2> DEFINE o == off + 2
             count == NumberAt(b, off)
  <2>0. /\ NumberIn(b.host, Bytes(b, off, 2)) = count /\ count \in Nat
        /\ Readable(b, o) /\ o \in Nat /\ o >= off /\ o <= Len(b.data)
    BY <1>0, <1>1, ReadableIs
  <2>3. ReadNumbers(b, off, old, room) = IF count = 0 THEN Gives(o, old) ELSE NumbersRest(b, o, count, old, room)
    BY <1>1, <2>0 DEF ReadNumbers, Sized, There, SizeOfUnit
  <2> HIDE DEF o, count
  <2>1. CASE count = 0
    BY <2>0, <2>1, <2>3 DEF Gives, Stays
  <2>2. CASE count # 0
    <3>1. ReadNumbers(b, off, old, room) = NumbersRest(b, o, count, old, room)
      BY <2>2, <2>3
    <3>2. CASE o + 2 <= Len(b.data)
      <4> DEFINE p == o + 2
                 elem == NumberAt(b, o)
                 all == elem * count
      <4>1. NumberIn(b.host, Bytes(b, o, 2)) = elem /\ elem \in Nat
        BY <2>0, <3>2, ReadableIs
      <4>2. \/ NumbersRest(b, o, count, old, room).off = p
            \/ NumbersRest(b, o, count, old, room).off = p + all /\ p + all <= Len(b.data)
        BY <3>2, <4>1 DEF NumbersRest, Sized, There, SizeOfUnit, Gives, Throws, Undefined
      <4>3. p \in Nat /\ p >= off /\ p <= Len(b.data)
        BY <1>0, <2>0, <3>2
      <4>4. all \in Nat
        <5> HIDE DEF elem
        <5> QED BY <2>0, <4>1
      <4> HIDE DEF p, elem, all
      <4> QED BY <1>0, <3>1, <4>2, <4>3, <4>4 DEF Stays
    <3>3. CASE ~(o + 2 <= Len(b.data))
      <4>1. NumbersRest(b, o, count, old, room) = Throws(o)
        BY <3>3 DEF NumbersRest, Sized, There, SizeOfUnit
      <4> QED BY <2>0, <3>1, <4>1 DEF Throws, Stays
    <3> QED BY <3>2, <3>3
  <2> QED BY <2>1, <2>2
<1>2. CASE ~(off + 2 <= Len(b.data))
  <2>1. ReadNumbers(b, off, old, room) = Throws(off)
    BY <1>2 DEF ReadNumbers, Sized, There, SizeOfUnit
  <2> QED BY <1>0, <2>1 DEF Throws, Stays
<1> QED BY <1>1, <1>2

LEMMA SubvectorStays ==
  ASSUME NEW b, NEW r, Readable(b, r.off), NEW elem \in Nat
  PROVE  Stays(b, r.off, Subvector(b, r, elem))
<1> DEFINE off == r.off
<1>0. off \in Nat /\ Len(b.data) \in Nat /\ off <= Len(b.data) /\ Readable(b, off)
  BY ReadableIs
<1> HIDE DEF off
<1>1. CASE r.res # "value"
  BY <1>0, <1>1 DEF Subvector, Stays, off
<1>2. CASE r.res = "value" /\ ~(off + 2 <= Len(b.data))
  <2>1. Subvector(b, r, elem) = Throws(off)
    BY <1>2 DEF Subvector, Sized, There, SizeOfUnit, off
  <2> QED BY <1>0, <2>1 DEF Throws, Stays, off
<1>3. CASE r.res = "value" /\ off + 2 <= Len(b.data)
  <2> DEFINE o == off + 2
             count == NumberAt(b, off)
             all == elem * count
  <2>1. NumberIn(b.host, Bytes(b, off, 2)) = count /\ count \in Nat
    BY <1>0, <1>3, ReadableIs
  <2>2. \/ Subvector(b, r, elem).off = o
        \/ Subvector(b, r, elem).off = o + all /\ o + all <= Len(b.data)
    BY <1>3, <2>1 DEF Subvector, Sized, There, SizeOfUnit, Gives, Throws, Undefined, off
  <2>3. o \in Nat /\ o >= off /\ o <= Len(b.data)
    BY <1>0, <1>3
  <2>4. all \in Nat
    <3> HIDE DEF count
    <3> QED BY <2>1
  <2> HIDE DEF o, count, all
  <2> QED BY <1>0, <2>2, <2>3, <2>4 DEF Stays, off
<1> QED BY <1>1, <1>2, <1>3

(* The recursive function of Subvectors, unfolded.                         *)
LEMMA SubvectorsAre ==
  ASSUME NEW b, NEW count \in Nat, NEW elem, NEW off
  PROVE  \E f : /\ f[0] = Gives(off, <<>>)
                /\ \A i \in 1 .. count : f[i] = Subvector(b, f[i-1], elem)
                /\ Subvectors(b, count, elem, off) = f[count]
<1> DEFINE Is(f, m) == f = [i \in 0 .. m |-> IF i = 0 THEN Gives(off, <<>>) ELSE Subvector(b, f[i-1], elem)]
           P == {m \in Nat : \E f : Is(f, m)}
<1> HIDE DEF Is
<1>1. 0 \in P
  <2> DEFINE g == [i \in 0 .. 0 |-> Gives(off, <<>>)]
  <2>1. Is(g, 0)
    BY DEF Is
  <2> HIDE DEF g
  <2> QED BY <2>1
<1>2. ASSUME NEW m \in Nat, m \in P PROVE m + 1 \in P
  <2>1. PICK f : Is(f, m)
    BY <1>2
  <2> DEFINE g == [i \in 0 .. m + 1 |-> IF i <= m THEN f[i] ELSE Subvector(b, f[m], elem)]
  <2>2. ASSUME NEW i \in 0 .. m + 1
        PROVE  g[i] = IF i = 0 THEN Gives(off, <<>>) ELSE Subvector(b, g[i-1], elem)
    <3>1. CASE i <= m
      <4>1. g[i] = f[i] /\ (i # 0 => g[i-1] = f[i-1]) /\ i \in 0 .. m
        BY <3>1
      <4>2. f[i] = IF i = 0 THEN Gives(off, <<>>) ELSE Subvector(b, f[i-1], elem)
        BY <2>1, <4>1 DEF Is
      <4> HIDE DEF g
      <4> QED BY <4>1, <4>2
    <3>2. CASE i = m + 1
      <4>1. g[i] = Subvector(b, f[m], elem) /\ g[i-1] = f[m] /\ i # 0
        BY <3>2
      <4> HIDE DEF g
      <4> QED BY <4>1
    <3> QED BY <3>1, <3>2
  <2>3. g = [i \in 0 .. m + 1 |-> g[i]]
    OBVIOUS
  <2> HIDE DEF g
  <2>4. Is(g, m + 1)
    BY <2>2, <2>3 DEF Is
  <2> QED BY <2>4
<1>3. count \in P
  <2> HIDE DEF P
  <2> QED BY <1>1, <1>2, NatSetInduction
<1> DEFINE it == CHOOSE f : Is(f, count)
<1>4. Is(it, count)
  BY <1>3
<1>5. Subvectors(b, count, elem, off) = it[count]
  BY DEF Subvectors, Is
<1> HIDE DEF it
<1>6. it[0] = Gives(off, <<>>) /\ \A i \in 1 .. count : it[i] = Subvector(b, it[i-1], elem)
  BY <1>4 DEF Is
<1> QED BY <1>5, <1>6

LEMMA VectorsStay ==
  ASSUME NEW b, NEW off, Readable(b, off), NEW old
  PROVE  Stays(b, off, ReadVectors(b, off, old))
<1>0. off \in Nat /\ Len(b.data) \in Nat /\ off <= Len(b.data) /\ b.data \in Seq(Byte)
  BY ReadableIs DEF Readable
<1>1. ASSUME NEW count \in Nat, NEW elem \in Nat, NEW p \in off .. Len(b.data)
      PROVE  Stays(b, off, Subvectors(b, count, elem, p))
  <2>1. PICK f : /\ f[0] = Gives(p, <<>>)
                 /\ \A i \in 1 .. count : f[i] = Subvector(b, f[i-1], elem)
                 /\ Subvectors(b, count, elem, p) = f[count]
    BY SubvectorsAre
  <2> DEFINE P == {i \in Nat : i <= count => f[i].off \in off .. Len(b.data)}
  <2>2. 0 \in P
    BY <2>1 DEF Gives
  <2>3. ASSUME NEW i \in Nat, i \in P PROVE i + 1 \in P
    <3> SUFFICES ASSUME i + 1 <= count PROVE f[i + 1].off \in off .. Len(b.data)
      OBVIOUS
    <3>1. f[i].off \in off .. Len(b.data) /\ i + 1 \in 1 .. count /\ (i + 1) - 1 = i
      BY <2>3
    <3>2. f[i + 1] = Subvector(b, f[i], elem)
      BY <2>1, <3>1
    <3>3. Readable(b, f[i].off)
      BY <1>0, <3>1 DEF Readable
    <3>4. Subvector(b, f[i], elem).off \in f[i].off .. Len(b.data)
      BY <3>3, SubvectorStays DEF Stays
    <3> QED BY <1>0, <3>1, <3>2, <3>4
  <2>4. count \in P
    <3> HIDE DEF P
    <3> QED BY <2>2, <2>3, NatSetInduction
  <2> QED BY <2>1, <2>4 DEF Stays
<1>2. CASE off + 2 <= Len(b.data)
  <2> DEFINE o == off + 2
             count == NumberAt(b, off)
  <2>0. /\ NumberIn(b.host, Bytes(b, off, 2)) = count /\ count \in Nat
        /\ Readable(b, o) /\ o \in Nat /\ o >= off /\ o <= Len(b.data)
    BY <1>0, <1>2, ReadableIs
  <2>1. ReadVectors(b, off, old) = IF count = 0 THEN Gives(o, old) ELSE VectorsRest(b, o, count)
    BY <1>2, <2>0 DEF ReadVectors, Sized, There, SizeOfUnit
  <2> HIDE DEF o, count
  <2>2. CASE count = 0
    BY <2>0, <2>1, <2>2 DEF Gives, Stays
  <2>3. CASE count # 0 /\ ~(o + 2 <= Len(b.data))
    <3>1. ReadVectors(b, off, old) = Throws(o)
      BY <2>1, <2>3 DEF VectorsRest, Sized, There, SizeOfUnit
    <3> QED BY <2>0, <3>1 DEF Throws, Stays
  <2>4. CASE count # 0 /\ o + 2 <= Len(b.data)
    <3> DEFINE p == o + 2
               elem == NumberAt(b, o)
    <3>1. NumberIn(b.host, Bytes(b, o, 2)) = elem /\ elem \in Nat
      BY <2>0, <2>4, ReadableIs
    <3>2. ReadVectors(b, off, old) = IF elem = 0 THEN Throws(p) ELSE Subvectors(b, count, elem, p)
      BY <2>1, <2>4, <3>1 DEF VectorsRest, Sized, There, SizeOfUnit
    <3>3. p \in off .. Len(b.data)
      BY <1>0, <2>0, <2>4
    <3> HIDE DEF p, elem
    <3>4. CASE elem = 0
      BY <1>0, <3>2, <3>3, <3>4 DEF Throws, Stays
    <3>5. CASE elem # 0
      BY <1>1, <2>0, <3>1, <3>2, <3>3, <3>5
    <3> QED BY <3>4, <3>5
  <2> QED BY <2>2, <2>3, <2>4
<1>3. CASE ~(off + 2 <= Len(b.data))
  <2>1. ReadVectors(b, off, old) = Throws(off)
    BY <1>3 DEF ReadVectors, Sized, There, SizeOfUnit
  <2> QED BY <1>0, <2>1 DEF Throws, Stays
<1> QED BY <1>2, <1>3

(* What a read returns is a record of these three.                          *)
Result(r) == r = [res |-> r.res, off |-> r.off, val |-> r.val]

LEMMA ReturnsAre ==
  ASSUME NEW off, NEW val
  PROVE  Result(Gives(off, val)) /\ Result(Throws(off)) /\ Result(Undefined(off))
BY DEF Result, Gives, Throws, Undefined

(* And so does each read that another one completes.                       *)
LEMMA StringReturns ==
  ASSUME NEW b, NEW off, NEW old
  PROVE  Result(ReadString(b, off, old))
<1> DEFINE size == NumberIn(b.host, Bytes(b, off, SizeOfUnit))
           o == off + SizeOfUnit
<1>1. \/ ReadString(b, off, old) = Throws(off)
      \/ ReadString(b, off, old) = Throws(o)
      \/ ReadString(b, off, old) = Gives(o, old)
      \/ ReadString(b, off, old) = Gives(o + size, Bytes(b, o, size))
  BY DEF ReadString, Sized
<1> HIDE DEF size, o
<1> QED BY <1>1, ReturnsAre

LEMMA NumbersReturn ==
  ASSUME NEW b, NEW off, NEW old, NEW room
  PROVE  Result(ReadNumbers(b, off, old, room))
<1>1. ASSUME NEW o, NEW count PROVE Result(NumbersRest(b, o, count, old, room))
  <2> DEFINE elem == NumberIn(b.host, Bytes(b, o, SizeOfUnit))
             p == o + SizeOfUnit
             val == NumbersOver(b, p, elem, count, old)
             q == p + elem * count
  <2>1. \/ NumbersRest(b, o, count, old, room) = Throws(o)
        \/ NumbersRest(b, o, count, old, room) = Throws(p)
        \/ NumbersRest(b, o, count, old, room) = Undefined(p)
        \/ NumbersRest(b, o, count, old, room) = Gives(q, val)
    BY DEF NumbersRest, Sized
  <2> HIDE DEF p, q, val
  <2> QED BY <2>1, ReturnsAre
<1> DEFINE count == NumberIn(b.host, Bytes(b, off, SizeOfUnit))
           o == off + SizeOfUnit
<1>2. \/ ReadNumbers(b, off, old, room) = Throws(off)
      \/ ReadNumbers(b, off, old, room) = Gives(o, old)
      \/ ReadNumbers(b, off, old, room) = NumbersRest(b, o, count, old, room)
  BY DEF ReadNumbers, Sized
<1> HIDE DEF count, o
<1> QED BY <1>1, <1>2, ReturnsAre

(* One more string, and an array, as records.                              *)
LEMMA ElementIs ==
  ASSUME NEW b, NEW r, NEW text
  PROVE  Element(b, r, text) = IF r.res # "value" THEN r
                               ELSE [res |-> ReadString(b, r.off, text).res,
                                     off |-> ReadString(b, r.off, text).off,
                                     val |-> Append(r.val, ReadString(b, r.off, text).val)]
<1> DEFINE s == ReadString(b, r.off, text)
<1>1. s = [res |-> s.res, off |-> s.off, val |-> s.val]
  BY StringReturns DEF Result
<1>2. Element(b, r, text) = IF r.res # "value" THEN r ELSE [s EXCEPT !.val = Append(r.val, s.val)]
  BY DEF Element
<1> HIDE DEF s
<1>3. [s EXCEPT !.val = Append(r.val, s.val)] = [res |-> s.res, off |-> s.off, val |-> Append(r.val, s.val)]
  BY <1>1
<1> QED BY <1>2, <1>3 DEF s

LEMMA ArrayIs ==
  ASSUME NEW b, NEW off, NEW old
  PROVE  LET r == ReadNumbers(b, off, old, ArrayLength)
         IN ReadArray(b, off, old) =
              [res |-> r.res, off |-> r.off,
               val |-> IF r.res = "value" THEN r.val \o SubSeq(old, Len(r.val) + 1, Len(old)) ELSE r.val]
<1> DEFINE r == ReadNumbers(b, off, old, ArrayLength)
<1>1. r = [res |-> r.res, off |-> r.off, val |-> r.val]
  BY NumbersReturn DEF Result
<1>2. ReadArray(b, off, old) =
        IF r.res = "value" THEN [r EXCEPT !.val = r.val \o SubSeq(old, Len(r.val) + 1, Len(old))] ELSE r
  BY DEF ReadArray
<1> HIDE DEF r
<1> DEFINE x == r.val \o SubSeq(old, Len(r.val) + 1, Len(old))
<1> HIDE DEF x
<1>3. [r EXCEPT !.val = x] = [res |-> r.res, off |-> r.off, val |-> x]
  BY <1>1
<1> QED BY <1>1, <1>2, <1>3 DEF r, x

LEMMA ElementStays ==
  ASSUME NEW b, NEW r, Readable(b, r.off), NEW text
  PROVE  Stays(b, r.off, Element(b, r, text))
<1>1. Stays(b, r.off, ReadString(b, r.off, text))
  BY StringStays
<1>2. r.off \in Nat /\ Len(b.data) \in Nat /\ r.off <= Len(b.data)
  BY ReadableIs
<1>3. Element(b, r, text).off = r.off \/ Element(b, r, text).off = ReadString(b, r.off, text).off
  BY ElementIs
<1> QED BY <1>1, <1>2, <1>3 DEF Stays

OldText(old, i) == IF i <= Len(old) THEN old[i] ELSE <<>>

(* The results of reading count strings from off on, one after another.    *)
ReadInTurn(f, b, count, old, off) ==
  /\ f[0] = Gives(off, <<>>)
  /\ \A i \in 1 .. count : f[i] = Element(b, f[i-1], OldText(old, i))

(* The recursive function of Elements, unfolded.                           *)
LEMMA ElementsAre ==
  ASSUME NEW b, NEW count \in Nat, NEW old, NEW off
  PROVE  \E f : ReadInTurn(f, b, count, old, off) /\ Elements(b, count, off, old) = f[count]
<1> DEFINE Next1(i, r) == Element(b, r, OldText(old, i))
           Is(f, m) == f = [i \in 0 .. m |-> IF i = 0 THEN Gives(off, <<>>) ELSE Next1(i, f[i-1])]
           P == {m \in Nat : \E f : Is(f, m)}
<1> HIDE DEF Is, Next1
<1>1. 0 \in P
  <2> DEFINE g == [i \in 0 .. 0 |-> Gives(off, <<>>)]
  <2>1. Is(g, 0)
    BY DEF Is
  <2> HIDE DEF g
  <2> QED BY <2>1
<1>2. ASSUME NEW m \in Nat, m \in P PROVE m + 1 \in P
  <2>1. PICK f : Is(f, m)
    BY <1>2
  <2> DEFINE g == [i \in 0 .. m + 1 |-> IF i <= m THEN f[i] ELSE Next1(m + 1, f[m])]
  <2>2. ASSUME NEW i \in 0 .. m + 1
        PROVE  g[i] = IF i = 0 THEN Gives(off, <<>>) ELSE Next1(i, g[i-1])
    <3>1. CASE i <= m
      <4>1. g[i] = f[i] /\ (i # 0 => g[i-1] = f[i-1]) /\ i \in 0 .. m
        BY <3>1
      <4>2. f[i] = IF i = 0 THEN Gives(off, <<>>) ELSE Next1(i, f[i-1])
        BY <2>1, <4>1 DEF Is
      <4> HIDE DEF g
      <4> QED BY <4>1, <4>2
    <3>2. CASE i = m + 1
      <4>1. g[i] = Next1(m + 1, f[m]) /\ g[i-1] = f[m] /\ i # 0
        BY <3>2
      <4> HIDE DEF g
      <4> QED BY <3>2, <4>1
    <3> QED BY <3>1, <3>2
  <2>3. g = [i \in 0 .. m + 1 |-> g[i]]
    OBVIOUS
  <2> HIDE DEF g
  <2>4. Is(g, m + 1)
    BY <2>2, <2>3 DEF Is
  <2> QED BY <2>4
<1>3. count \in P
  <2> HIDE DEF P
  <2> QED BY <1>1, <1>2, NatSetInduction
<1> DEFINE it == CHOOSE f : Is(f, count)
<1>4. Is(it, count)
  BY <1>3
<1>5. Elements(b, count, off, old) = it[count]
  BY DEF Elements, Is, Next1, OldText
<1> HIDE DEF it
<1>6. it[0] = Gives(off, <<>>) /\ \A i \in 1 .. count : it[i] = Next1(i, it[i-1])
  BY <1>4 DEF Is
<1>7. ReadInTurn(it, b, count, old, off)
  BY <1>6 DEF Next1, ReadInTurn
<1> QED BY <1>5, <1>7

LEMMA StringsStay ==
  ASSUME NEW b, NEW off, Readable(b, off), NEW old
  PROVE  Stays(b, off, ReadStrings(b, off, old))
<1>0. off \in Nat /\ Len(b.data) \in Nat /\ off <= Len(b.data) /\ b.data \in Seq(Byte)
  BY ReadableIs DEF Readable
<1>1. ASSUME NEW count \in Nat, NEW p \in off .. Len(b.data)
      PROVE  Stays(b, off, Elements(b, count, p, old))
  <2>0. PICK f : ReadInTurn(f, b, count, old, p) /\ Elements(b, count, p, old) = f[count]
    BY ElementsAre
  <2>1. /\ f[0] = Gives(p, <<>>)
        /\ \A i \in 1 .. count : f[i] = Element(b, f[i-1], OldText(old, i))
        /\ Elements(b, count, p, old) = f[count]
    BY <2>0 DEF ReadInTurn
  <2> DEFINE P == {i \in Nat : i <= count => f[i].off \in off .. Len(b.data)}
  <2>2. 0 \in P
    BY <2>1 DEF Gives
  <2>3. ASSUME NEW i \in Nat, i \in P PROVE i + 1 \in P
    <3> SUFFICES ASSUME i + 1 <= count PROVE f[i + 1].off \in off .. Len(b.data)
      OBVIOUS
    <3>1. f[i].off \in off .. Len(b.data) /\ i + 1 \in 1 .. count /\ (i + 1) - 1 = i
      BY <2>3
    <3>2. PICK text : f[i + 1] = Element(b, f[i], text)
      BY <2>1, <3>1
    <3>3. Readable(b, f[i].off)
      BY <1>0, <3>1 DEF Readable
    <3>4. Element(b, f[i], text).off \in f[i].off .. Len(b.data)
      BY <3>3, ElementStays DEF Stays
    <3> QED BY <1>0, <3>1, <3>2, <3>4
  <2>4. count \in P
    <3> HIDE DEF P
    <3> QED BY <2>2, <2>3, NatSetInduction
  <2> QED BY <2>1, <2>4 DEF Stays
<1>2. CASE off + 2 <= Len(b.data)
  <2> DEFINE o == off + 2
             count == NumberAt(b, off)
  <2>0. /\ NumberIn(b.host, Bytes(b, off, 2)) = count /\ count \in Nat
        /\ o \in off .. Len(b.data)
    BY <1>0, <1>2, ReadableIs
  <2>1. ReadStrings(b, off, old) = IF count = 0 THEN Gives(o, old) ELSE Elements(b, count, o, old)
    BY <1>2, <2>0 DEF ReadStrings, Sized, There, SizeOfUnit
  <2> HIDE DEF o, count
  <2>2. CASE count = 0
    BY <2>0, <2>1, <2>2 DEF Gives, Stays
  <2>3. CASE count # 0
    BY <1>1, <2>0, <2>1, <2>3
  <2> QED BY <2>2, <2>3
<1>3. CASE ~(off + 2 <= Len(b.data))
  <2>1. ReadStrings(b, off, old) = Throws(off)
    BY <1>3 DEF ReadStrings, Sized, There, SizeOfUnit
  <2> QED BY <1>0, <2>1 DEF Throws, Stays
<1> QED BY <1>2, <1>3

(* A Serializable: its number, and then its text.                          *)
LEMMA ObjectStays ==
  ASSUME NEW b, NEW off, Readable(b, off), NEW old
  PROVE  Stays(b, off, ReadObject(b, off, old))
<1> DEFINE number == ReadScalar(b, off, old.number)
           text == ReadString(b, number.off, old.text)
           val == [number |-> number.val, text |-> text.val]
<1>0. off \in Nat /\ Len(b.data) \in Nat /\ off <= Len(b.data) /\ b.data \in Seq(Byte)
  BY ReadableIs DEF Readable
<1>1. number.off \in off .. Len(b.data)
  BY ScalarStays DEF Stays
<1>2. text.off \in number.off .. Len(b.data)
  <2>1. Readable(b, number.off)
    BY <1>0, <1>1 DEF Readable
  <2> HIDE DEF number
  <2> QED BY <2>1, StringStays DEF Stays
<1>3. \/ ReadObject(b, off, old) = Throws(off)
      \/ ReadObject(b, off, old) = number
      \/ ReadObject(b, off, old) = text
      \/ ReadObject(b, off, old) = Gives(text.off, val)
  BY DEF ReadObject
<1> HIDE DEF number, text, val
<1> QED BY <1>0, <1>1, <1>2, <1>3 DEF Stays, Gives, Throws

(* Whatever the bytes are, of whatever type the read and into whatever      *)
(* variable, the offset of the model is within them.                       *)
LEMMA OffsetStays ==
  ASSUME NEW b, NEW off, Readable(b, off), NEW type \in Type, NEW old, NEW opens
  PROVE  Stays(b, off, ReadSingle(b, off, type, old, opens))
<1>1. Stays(b, off, ReadArray(b, off, old))
  <2>1. Stays(b, off, ReadNumbers(b, off, old, ArrayLength))
    BY NumbersStay
  <2> QED BY <2>1, ArrayIs DEF Stays
<1>2. Stays(b, off, ReadVector(b, off, old))
  BY NumbersStay DEF ReadVector
<1> QED BY <1>1, <1>2, ScalarStays, StringStays, VectorsStay, StringsStay, ObjectStays, FileStays DEF ReadSingle, Type

(* A read ends with a value or an exception, or is undefined, and that only *)
(* under a condition.                                                      *)
Ends(r, condition) == r.res \in {"value", "throws"} \/ (r.res = "undefined" /\ condition)

LEMMA EndsAre ==
  ASSUME NEW off, NEW val, NEW condition
  PROVE  /\ Ends(Gives(off, val), condition) /\ Ends(Throws(off), condition)
         /\ condition => Ends(Undefined(off), condition)
BY DEF Ends, Gives, Throws, Undefined

(* The two sizes of a sequence are there and one of them is too large: that *)
(* of an element for a number, or the count for the variable.              *)
TooLarge(b, off, room) ==
  /\ off + 2 * SizeOfUnit <= Len(b.data)
  /\ NumberAt(b, off) # 0
  /\ NumberAt(b, off + SizeOfUnit) > SizeOfNumber \/ NumberAt(b, off) > room

(* The length of the content of a file leads beyond the bytes: it was not   *)
(* refused because its sum with the offset wraps.                          *)
LengthWraps(b, off) ==
  LET p == off + SizeOfUnit + NumberAt(b, off)
      length == NumberAt(b, p)
  IN /\ p + SizeOfUnit <= Len(b.data)
     /\ Left(b, p + SizeOfUnit, length) /\ ~There(b, p + SizeOfUnit, length)

LEMMA ScalarEnds ==
  ASSUME NEW b, NEW off, NEW old
  PROVE  Ends(ReadScalar(b, off, old), FALSE)
<1> DEFINE size == NumberIn(b.host, Bytes(b, off, SizeOfUnit))
           o == off + SizeOfUnit
           n == NumberOver(b, o, size, old)
           q == o + size
<1>1. \/ ReadScalar(b, off, old) = Throws(off)
      \/ ReadScalar(b, off, old) = Throws(o)
      \/ ReadScalar(b, off, old) = Gives(q, n)
  BY DEF ReadScalar, Sized
<1> HIDE DEF size, o, n, q
<1> QED BY <1>1, EndsAre

LEMMA StringEnds ==
  ASSUME NEW b, NEW off, NEW old
  PROVE  Ends(ReadString(b, off, old), FALSE)
<1> DEFINE size == NumberIn(b.host, Bytes(b, off, SizeOfUnit))
           o == off + SizeOfUnit
           q == o + size
           text == Bytes(b, o, size)
<1>1. \/ ReadString(b, off, old) = Throws(off)
      \/ ReadString(b, off, old) = Throws(o)
      \/ ReadString(b, off, old) = Gives(o, old)
      \/ ReadString(b, off, old) = Gives(q, text)
  BY DEF ReadString, Sized
<1> HIDE DEF size, o, q, text
<1> QED BY <1>1, EndsAre

LEMMA NumbersEnd ==
  ASSUME NEW b, NEW off, Readable(b, off), NEW old, NEW room
  PROVE  Ends(ReadNumbers(b, off, old, room), TooLarge(b, off, room))
<1>0. off \in Nat /\ Len(b.data) \in Nat /\ off <= Len(b.data)
  BY ReadableIs
<1>u. SizeOfUnit = 2 /\ SizeOfNumber = 2
  BY DEF SizeOfUnit, SizeOfNumber
<1>1. CASE off + 2 <= Len(b.data)
  <2> DEFINE o == off + 2
             count == NumberAt(b, off)
  <2>0. /\ NumberIn(b.host, Bytes(b, off, 2)) = count
        /\ Readable(b, o) /\ o \in Nat
    BY <1>0, <1>1, ReadableIs
  <2>1. \/ ReadNumbers(b, off, old, room) = Gives(o, old)
        \/ count # 0 /\ ReadNumbers(b, off, old, room) = NumbersRest(b, o, count, old, room)
    BY <1>1, <1>u, <2>0 DEF ReadNumbers, Sized, There
  <2> HIDE DEF o, count
  <2>2. ASSUME count # 0 PROVE Ends(NumbersRest(b, o, count, old, room), TooLarge(b, off, room))
    <3>1. CASE o + 2 <= Len(b.data)
      <4> DEFINE p == o + 2
                 elem == NumberAt(b, o)
                 q == p + elem * count
                 val == NumbersOver(b, p, elem, count, old)
      <4>1. NumberIn(b.host, Bytes(b, o, 2)) = elem
        BY <2>0, <3>1, ReadableIs
      <4>2. \/ NumbersRest(b, o, count, old, room) = Throws(p)
            \/ NumbersRest(b, o, count, old, room) = Undefined(p) /\ (elem > 2 \/ count > room)
            \/ NumbersRest(b, o, count, old, room) = Gives(q, val)
        BY <1>u, <3>1, <4>1 DEF NumbersRest, Sized, There
      <4>3. ASSUME elem > 2 \/ count > room PROVE TooLarge(b, off, room)
        <5>1. off + 2 * 2 <= Len(b.data) /\ o = off + 2
          BY <1>0, <3>1 DEF o
        <5> QED BY <1>u, <2>2, <4>3, <5>1 DEF TooLarge, count
      <4> HIDE DEF p, elem, q, val
      <4> QED BY <4>2, <4>3, EndsAre
    <3>2. CASE ~(o + 2 <= Len(b.data))
      <4>1. NumbersRest(b, o, count, old, room) = Throws(o)
        BY <1>u, <3>2 DEF NumbersRest, Sized, There
      <4> QED BY <4>1, EndsAre
    <3> QED BY <3>1, <3>2
  <2> QED BY <2>1, <2>2, EndsAre
<1>2. CASE ~(off + 2 <= Len(b.data))
  <2>1. ReadNumbers(b, off, old, room) = Throws(off)
    BY <1>2, <1>u DEF ReadNumbers, Sized, There
  <2> QED BY <2>1, EndsAre
<1> QED BY <1>1, <1>2

(* An inner vector: the size of its elements was read before.               *)
LEMMA SubvectorEnds ==
  ASSUME NEW b, NEW r, NEW elem, Ends(r, elem > SizeOfNumber)
  PROVE  Ends(Subvector(b, r, elem), elem > SizeOfNumber)
<1> DEFINE off == r.off
           o == off + SizeOfUnit
           count == NumberIn(b.host, Bytes(b, off, SizeOfUnit))
           q == o + elem * count
           val == Append(r.val, NumbersOver(b, o, elem, count, <<>>))
<1>1. \/ Subvector(b, r, elem) = r
      \/ Subvector(b, r, elem) = Throws(off)
      \/ Subvector(b, r, elem) = Throws(o)
      \/ Subvector(b, r, elem) = Undefined(o) /\ elem > SizeOfNumber
      \/ Subvector(b, r, elem) = Gives(q, val)
  BY DEF Subvector, Sized
<1> HIDE DEF off, o, count, q, val
<1> QED BY <1>1, EndsAre

LEMMA VectorsEnd ==
  ASSUME NEW b, NEW off, Readable(b, off), NEW old
  PROVE  Ends(ReadVectors(b, off, old), TooLarge(b, off, Word))
<1>0. off \in Nat /\ Len(b.data) \in Nat /\ off <= Len(b.data)
  BY ReadableIs
<1>u. SizeOfUnit = 2 /\ SizeOfNumber = 2
  BY DEF SizeOfUnit, SizeOfNumber
<1>1. ASSUME NEW count \in Nat, NEW elem, NEW p
      PROVE  Ends(Subvectors(b, count, elem, p), elem > SizeOfNumber)
  <2>1. PICK f : /\ f[0] = Gives(p, <<>>)
                 /\ \A i \in 1 .. count : f[i] = Subvector(b, f[i-1], elem)
                 /\ Subvectors(b, count, elem, p) = f[count]
    BY SubvectorsAre
  <2> DEFINE P == {i \in Nat : i <= count => Ends(f[i], elem > SizeOfNumber)}
  <2>2. 0 \in P
    BY <2>1, EndsAre
  <2>3. ASSUME NEW i \in Nat, i \in P PROVE i + 1 \in P
    <3> SUFFICES ASSUME i + 1 <= count PROVE Ends(f[i + 1], elem > SizeOfNumber)
      OBVIOUS
    <3>1. Ends(f[i], elem > SizeOfNumber) /\ i + 1 \in 1 .. count /\ (i + 1) - 1 = i
      BY <2>3
    <3>2. f[i + 1] = Subvector(b, f[i], elem)
      BY <2>1, <3>1
    <3> QED BY <3>1, <3>2, SubvectorEnds
  <2>4. count \in P
    <3> HIDE DEF P
    <3> QED BY <2>2, <2>3, NatSetInduction
  <2> QED BY <2>1, <2>4
<1>2. CASE off + 2 <= Len(b.data)
  <2> DEFINE o == off + 2
             count == NumberAt(b, off)
  <2>0. /\ NumberIn(b.host, Bytes(b, off, 2)) = count /\ count \in Nat
        /\ Readable(b, o) /\ o \in Nat
    BY <1>0, <1>2, ReadableIs
  <2>1. \/ ReadVectors(b, off, old) = Gives(o, old)
        \/ count # 0 /\ ReadVectors(b, off, old) = VectorsRest(b, o, count)
    BY <1>2, <1>u, <2>0 DEF ReadVectors, Sized, There
  <2> HIDE DEF o, count
  <2>2. ASSUME count # 0 PROVE Ends(VectorsRest(b, o, count), TooLarge(b, off, Word))
    <3>1. CASE o + 2 <= Len(b.data)
      <4> DEFINE p == o + 2
                 elem == NumberAt(b, o)
      <4>1. NumberIn(b.host, Bytes(b, o, 2)) = elem
        BY <2>0, <3>1, ReadableIs
      <4>2. \/ VectorsRest(b, o, count) = Throws(p)
            \/ VectorsRest(b, o, count) = Subvectors(b, count, elem, p)
        BY <1>u, <3>1, <4>1 DEF VectorsRest, Sized, There
      <4>3. ASSUME elem > 2 PROVE TooLarge(b, off, Word)
        <5>1. off + 2 * 2 <= Len(b.data) /\ o = off + 2
          BY <1>0, <3>1 DEF o
        <5> QED BY <1>u, <2>2, <4>3, <5>1 DEF TooLarge, count
      <4> HIDE DEF p, elem
      <4>4. Ends(Subvectors(b, count, elem, p), elem > 2)
        BY <1>1, <1>u, <2>0
      <4>5. Ends(Subvectors(b, count, elem, p), TooLarge(b, off, Word))
        BY <4>3, <4>4 DEF Ends
      <4> QED BY <4>2, <4>5, EndsAre
    <3>2. CASE ~(o + 2 <= Len(b.data))
      <4>1. VectorsRest(b, o, count) = Throws(o)
        BY <1>u, <3>2 DEF VectorsRest, Sized, There
      <4> QED BY <4>1, EndsAre
    <3> QED BY <3>1, <3>2
  <2> QED BY <2>1, <2>2, EndsAre
<1>3. CASE ~(off + 2 <= Len(b.data))
  <2>1. ReadVectors(b, off, old) = Throws(off)
    BY <1>3, <1>u DEF ReadVectors, Sized, There
  <2> QED BY <2>1, EndsAre
<1> QED BY <1>2, <1>3

LEMMA StringsEnd ==
  ASSUME NEW b, NEW off, Readable(b, off), NEW old
  PROVE  Ends(ReadStrings(b, off, old), FALSE)
<1>0. SizeOfUnit = 2
  BY DEF SizeOfUnit
<1>1. ASSUME NEW count \in Nat, NEW p
      PROVE  Ends(Elements(b, count, p, old), FALSE)
  <2>0. PICK f : ReadInTurn(f, b, count, old, p) /\ Elements(b, count, p, old) = f[count]
    BY ElementsAre
  <2> DEFINE P == {i \in Nat : i <= count => f[i].res \in {"value", "throws"}}
  <2>2. 0 \in P
    <3>1. f[0] = Gives(p, <<>>)
      BY <2>0 DEF ReadInTurn
    <3> QED BY <3>1 DEF Gives
  <2>3. ASSUME NEW i \in Nat, i \in P PROVE i + 1 \in P
    <3> SUFFICES ASSUME i + 1 <= count PROVE f[i + 1].res \in {"value", "throws"}
      OBVIOUS
    <3>1. f[i].res \in {"value", "throws"} /\ i + 1 \in 1 .. count /\ (i + 1) - 1 = i
      BY <2>3
    <3>2. PICK text : f[i + 1] = Element(b, f[i], text)
      BY <2>0, <3>1 DEF ReadInTurn
    <3>3. f[i + 1] = f[i] \/ f[i + 1].res = ReadString(b, f[i].off, text).res
      BY <3>2, ElementIs
    <3> QED BY <3>1, <3>3, StringEnds DEF Ends
  <2>4. count \in P
    <3> HIDE DEF P
    <3> QED BY <2>2, <2>3, NatSetInduction
  <2> QED BY <2>0, <2>4 DEF Ends
<1>2. CASE off + 2 <= Len(b.data)
  <2> DEFINE o == off + 2
             count == NumberAt(b, off)
  <2>0. NumberIn(b.host, Bytes(b, off, 2)) = count /\ count \in Nat
    BY <1>2, ReadableIs
  <2>1. \/ ReadStrings(b, off, old) = Gives(o, old)
        \/ ReadStrings(b, off, old) = Elements(b, count, o, old)
    BY <1>0, <1>2, <2>0 DEF ReadStrings, Sized, There
  <2> HIDE DEF o, count
  <2> QED BY <1>1, <2>0, <2>1, EndsAre
<1>3. CASE ~(off + 2 <= Len(b.data))
  <2>1. ReadStrings(b, off, old) = Throws(off)
    BY <1>0, <1>3 DEF ReadStrings, Sized, There
  <2> QED BY <2>1, EndsAre
<1> QED BY <1>2, <1>3

LEMMA ObjectEnds ==
  ASSUME NEW b, NEW off, NEW old
  PROVE  Ends(ReadObject(b, off, old), FALSE)
<1> DEFINE number == ReadScalar(b, off, old.number)
           text == ReadString(b, number.off, old.text)
           val == [number |-> number.val, text |-> text.val]
<1>1. Ends(number, FALSE) /\ Ends(text, FALSE)
  BY ScalarEnds, StringEnds
<1>2. \/ ReadObject(b, off, old) = Throws(off)
      \/ ReadObject(b, off, old) = number
      \/ ReadObject(b, off, old) = text
      \/ ReadObject(b, off, old) = Gives(text.off, val)
  BY DEF ReadObject
<1> HIDE DEF number, text, val
<1> QED BY <1>1, <1>2, EndsAre

LEMMA FileEnds ==
  ASSUME NEW b, NEW off, Readable(b, off), NEW opens
  PROVE  Ends(ReadFile(b, off, opens), LengthWraps(b, off))
<1>0. off \in Nat /\ Len(b.data) \in Nat /\ off <= Len(b.data)
  BY ReadableIs
<1>u. SizeOfUnit = 2
  BY DEF SizeOfUnit
<1>1. CASE off + 2 <= Len(b.data)
  <2> DEFINE size == NumberAt(b, off)
             o == off + 2
             p == o + size
             name == Bytes(b, o, size)
  <2>0. NumberIn(b.host, Bytes(b, off, 2)) = size /\ size \in Nat
    BY <1>1, ReadableIs
  <2>1. \/ ReadFile(b, off, opens) = Throws(o)
        \/ p <= Len(b.data) /\ ReadFile(b, off, opens) = FileRest(b, p, name, opens)
    BY <1>1, <1>u, <2>0 DEF ReadFile, Sized, There
  <2>2. ASSUME p <= Len(b.data) PROVE Ends(FileRest(b, p, name, opens), LengthWraps(b, off))
    <3>1. Readable(b, p) /\ p \in Nat /\ p = off + 2 + size
      BY <1>0, <2>0, <2>2, ReadableIs DEF Readable
    <3> HIDE DEF p, name
    <3>2. CASE p + 2 <= Len(b.data)
      <4> DEFINE length == NumberAt(b, p)
                 q == p + 2
                 file == [name |-> name, content |-> SubSeq(b.data, q + 1, q + length)]
      <4>1. NumberIn(b.host, Bytes(b, p, 2)) = length
        BY <3>1, <3>2, ReadableIs
      <4>2. \/ FileRest(b, p, name, opens) = Gives(q, NoFile)
            \/ FileRest(b, p, name, opens) = Throws(q)
            \/ FileRest(b, p, name, opens) = Undefined(q) /\ Left(b, q, length) /\ ~There(b, q, length)
            \/ FileRest(b, p, name, opens) = Gives(q + length, file)
        <5>1. There(b, p, 2)
          BY <3>2 DEF There
        <5> HIDE DEF length
        <5> QED BY <1>u, <4>1, <5>1 DEF FileRest, Sized
      <4>3. ASSUME Left(b, q, length), ~There(b, q, length) PROVE LengthWraps(b, off)
        BY <1>u, <3>1, <3>2, <4>3 DEF LengthWraps
      <4> HIDE DEF length, q, file
      <4> QED BY <4>2, <4>3, EndsAre
    <3>3. CASE ~(p + 2 <= Len(b.data))
      <4>1. FileRest(b, p, name, opens) = Throws(p)
        BY <1>u, <3>3 DEF FileRest, Sized, There
      <4> QED BY <4>1, EndsAre
    <3> QED BY <3>2, <3>3
  <2> HIDE DEF p, name, o, size
  <2> QED BY <2>1, <2>2, EndsAre
<1>2. CASE ~(off + 2 <= Len(b.data))
  <2>1. ReadFile(b, off, opens) = Throws(off)
    BY <1>2, <1>u DEF ReadFile, Sized, There
  <2> QED BY <2>1, EndsAre
<1> QED BY <1>1, <1>2

(* What the bytes must be for a read to be undefined: for an array or a     *)
(* vector, a size that is too large for what it is copied to; for a file, a *)
(* length that wraps.  No bytes make the other reads undefined.            *)
MisSized(b, off, type) ==
  \/ type = "array" /\ TooLarge(b, off, ArrayLength)
  \/ type \in {"vector", "vectors"} /\ TooLarge(b, off, Word)
  \/ type = "file" /\ LengthWraps(b, off)

(***************************************************************************)
(* Whatever the bytes are, of whatever type the read and into whatever      *)
(* variable, sums and products of sizes that wrap included: a read gives a  *)
(* value or throws, with the offset where it was or further on and never    *)
(* beyond the bytes; or it is undefined, and then the bytes are MisSized.   *)
(***************************************************************************)
THEOREM ReadStays ==
  ASSUME NEW b, NEW off, Readable(b, off), NEW type \in Type, NEW old, NEW opens,
         NEW r, r = ReadSingle(b, off, type, old, opens)
  PROVE  \/ r.res \in {"value", "throws"} /\ r.off \in off .. Len(b.data)
         \/ r.res = "undefined" /\ MisSized(b, off, type)
<1>1. r.off \in off .. Len(b.data)
  BY OffsetStays DEF Stays
<1>2. Ends(r, MisSized(b, off, type))
  <2>1. CASE type = "array"
    <3>1. Ends(ReadNumbers(b, off, old, ArrayLength), TooLarge(b, off, ArrayLength))
      BY NumbersEnd
    <3>2. ReadArray(b, off, old).res = ReadNumbers(b, off, old, ArrayLength).res
      BY ArrayIs
    <3>3. r = ReadArray(b, off, old)
      BY <2>1 DEF ReadSingle
    <3> QED BY <2>1, <3>1, <3>2, <3>3 DEF Ends, MisSized
  <2>2. CASE type = "vector"
    <3>1. Ends(ReadNumbers(b, off, old, Word), TooLarge(b, off, Word))
      BY NumbersEnd
    <3>2. r = ReadNumbers(b, off, old, Word)
      BY <2>2 DEF ReadSingle, ReadVector
    <3> QED BY <2>2, <3>1, <3>2 DEF Ends, MisSized
  <2>3. CASE type = "vectors"
    <3>1. Ends(ReadVectors(b, off, old), TooLarge(b, off, Word))
      BY VectorsEnd
    <3>2. r = ReadVectors(b, off, old)
      BY <2>3 DEF ReadSingle
    <3> QED BY <2>3, <3>1, <3>2 DEF Ends, MisSized
  <2>4. CASE type = "file"
    <3>1. Ends(ReadFile(b, off, opens), LengthWraps(b, off))
      BY FileEnds
    <3>2. r = ReadFile(b, off, opens)
      BY <2>4 DEF ReadSingle
    <3> QED BY <2>4, <3>1, <3>2 DEF Ends, MisSized
  <2>5. CASE type \in {"scalar", "string", "strings", "object"}
    <3>1. Ends(r, FALSE)
      BY <2>5, ScalarEnds, StringEnds, StringsEnd, ObjectEnds DEF ReadSingle
    <3> QED BY <3>1 DEF Ends
  <2> QED BY <2>1, <2>2, <2>3, <2>4, <2>5 DEF Type
<1> QED BY <1>1, <1>2 DEF Ends
-----------------------------------------------------------------------------
(* Types, with what remains of each write.  This is inductive for any       *)
(* threads.                                                                 *)
Typed ==
  /\ host \in Host
  /\ data \in Seq(Byte)
  /\ capacity \in Nat
  /\ offset \in 0 .. Len(data)
  /\ todo \in [Thread -> Seq(Step)]
  /\ written \in Seq(Entry)
  /\ next \in 1 .. Len(written) + 1
  /\ lost \in BOOLEAN

(* What a step of a write does.                                             *)
LEMMA StepOfWrite ==
  ASSUME Typed, NEW t \in Thread, todo[t] # <<>>
  PROVE  /\ Head(todo[t]) \in Step /\ Tail(todo[t]) \in Seq(Step) /\ todo[t] \in Seq(Step)
         /\ Head(todo[t]).op \in {"reserve", "grow"} => Head(todo[t]).size \in Nat
         /\ Head(todo[t]).op = "append" => /\ Head(todo[t]).bytes \in Seq(Byte)
                                           /\ Head(todo[t]).done \in Seq(Value)
<1>1. todo[t] \in Seq(Step)
  BY DEF Typed
<1>2. Head(todo[t]) \in Step /\ Tail(todo[t]) \in Seq(Step)
  BY <1>1
<1> DEFINE s == Head(todo[t])
<1> HIDE DEF s
<1>3. s \in Step
  BY <1>2 DEF s
<1>4. /\ s.op \in {"reserve", "grow"} => s.size \in Nat
      /\ s.op = "append" => s.bytes \in Seq(Byte) /\ s.done \in Seq(Value)
  BY <1>3 DEF Step
<1> QED BY <1>1, <1>2, <1>4 DEF s

(* The program starts with the types.                                      *)
LEMMA TypedInit == Init => Typed
<1> SUFFICES ASSUME Init PROVE Typed
  OBVIOUS
<1>1. data \in Seq(Byte) /\ Len(data) = 0 /\ written \in Seq(Entry) /\ Len(written) = 0
  BY DEF Init
<1>2. capacity \in Nat
  BY SizeAssumption DEF Init
<1>3. todo \in [Thread -> Seq(Step)]
  BY DEF Init
<1>4. host \in Host /\ offset = 0 /\ next = 1 /\ lost = FALSE
  BY DEF Init
<1>5. offset \in 0 .. Len(data) /\ next \in 1 .. Len(written) + 1
  BY <1>1, <1>4
<1>6. lost \in BOOLEAN
  BY <1>4
<1> QED BY <1>1, <1>2, <1>3, <1>4, <1>5, <1>6 DEF Typed

(* And keeps them, a read by OffsetStays.                                  *)
LEMMA TypedNext == Typed /\ [Next]_vars => Typed'
<1> SUFFICES ASSUME Typed, [Next]_vars PROVE Typed'
  OBVIOUS
<1>0. /\ host \in Host /\ data \in Seq(Byte) /\ capacity \in Nat /\ offset \in 0 .. Len(data)
      /\ todo \in [Thread -> Seq(Step)] /\ written \in Seq(Entry) /\ next \in 1 .. Len(written) + 1
      /\ lost \in BOOLEAN /\ Len(data) \in Nat /\ Len(written) \in Nat
  BY DEF Typed
<1>1. ASSUME NEW t \in Thread, NEW vs \in Calls, Write(t, vs) PROVE Typed'
  <2> DEFINE q == <<ReserveStep(SerializedSizes(vs))>> \o FlattenSeq([i \in DOMAIN vs |-> Sections(host, vs[i])])
  <2>1. q \in Seq(Step)
    BY <1>0, WriteIs
  <2>2. todo' = [todo EXCEPT ![t] = q] /\ UNCHANGED <<host, data, capacity, offset, written, next, lost>>
    BY <1>1 DEF Write
  <2> HIDE DEF q
  <2>3. todo' \in [Thread -> Seq(Step)]
    BY <1>0, <2>1, <2>2
  <2> QED BY <1>0, <2>2, <2>3 DEF Typed
<1>2. ASSUME NEW t \in Thread, Reserve(t) PROVE Typed'
  <2> DEFINE needed == Len(data) + Head(todo[t]).size
             grow == [op |-> "grow", size |-> needed]
             q == (IF needed > capacity THEN <<grow>> ELSE <<>>) \o Tail(todo[t])
  <2>1. todo[t] # <<>> /\ Head(todo[t]).op = "reserve" /\ todo' = [todo EXCEPT ![t] = q]
    BY <1>2 DEF Reserve
  <2>2. UNCHANGED <<host, data, capacity, offset, written, next, lost>>
    BY <1>2 DEF Reserve
  <2>3. Head(todo[t]).size \in Nat /\ Tail(todo[t]) \in Seq(Step)
    BY <2>1, StepOfWrite
  <2>4. grow \in Step
    BY <1>0, <2>3 DEF Step
  <2> HIDE DEF grow
  <2>5. q \in Seq(Step)
    <3>1. <<grow>> \in Seq(Step) /\ <<>> \in Seq(Step)
      BY <2>4
    <3> QED BY <2>3, <3>1, JoinLength
  <2> HIDE DEF q
  <2>6. todo' \in [Thread -> Seq(Step)]
    BY <1>0, <2>1, <2>5
  <2> QED BY <1>0, <2>2, <2>6 DEF Typed
<1>3. ASSUME NEW t \in Thread, Grow(t) PROVE Typed'
  <2>1. todo[t] # <<>> /\ Head(todo[t]).op = "grow" /\ capacity' = Head(todo[t]).size
    BY <1>3 DEF Grow
  <2>2. todo' = [todo EXCEPT ![t] = Tail(todo[t])] /\ UNCHANGED <<host, data, offset, written, next, lost>>
    BY <1>3 DEF Grow
  <2>3. Head(todo[t]).size \in Nat /\ Tail(todo[t]) \in Seq(Step)
    BY <2>1, StepOfWrite
  <2>4. todo' \in [Thread -> Seq(Step)]
    BY <1>0, <2>2, <2>3
  <2> QED BY <1>0, <2>1, <2>2, <2>3, <2>4 DEF Typed
<1>4. ASSUME NEW t \in Thread, AppendBytes(t) PROVE Typed'
  <2> DEFINE s == Head(todo[t])
             done == EntriesOf(host, s.done)
  <2>1. todo[t] # <<>> /\ s.op = "append" /\ data' = data \o s.bytes /\ written' = written \o done
    BY <1>4 DEF AppendBytes, EntriesOf
  <2>2. todo' = [todo EXCEPT ![t] = Tail(todo[t])] /\ UNCHANGED <<host, capacity, offset, next, lost>>
    BY <1>4 DEF AppendBytes
  <2>3. s.bytes \in Seq(Byte) /\ s.done \in Seq(Value) /\ Tail(todo[t]) \in Seq(Step)
    BY <2>1, StepOfWrite
  <2>4. done \in Seq(Entry)
    BY <1>0, <2>3, EntriesAre
  <2>5. todo' \in [Thread -> Seq(Step)]
    BY <1>0, <2>2, <2>3
  <2> HIDE DEF done, s
  <2>6. data' \in Seq(Byte) /\ Len(data') = Len(data) + Len(s.bytes) /\ Len(s.bytes) \in Nat
    BY <1>0, <2>1, <2>3, JoinLength
  <2>7. written' \in Seq(Entry) /\ Len(written') = Len(written) + Len(done) /\ Len(done) \in Nat
    BY <1>0, <2>1, <2>4, JoinLength
  <2>8. offset' \in 0 .. Len(data')
    BY <1>0, <2>2, <2>6
  <2>9. next' \in 1 .. Len(written') + 1
    BY <1>0, <2>2, <2>7
  <2> QED BY <1>0, <2>2, <2>5, <2>6, <2>7, <2>8, <2>9 DEF Typed
<1>5. ASSUME NEW type \in Type, NEW opens \in BOOLEAN, NEW old \in Targets(type), Read(type, old, opens)
      PROVE  Typed'
  <2> DEFINE r == ReadSingle(Buffer, offset, type, old, opens)
  <2>1. /\ offset' = r.off
        /\ next' = IF r.res = "value" /\ next <= Len(written) THEN next + 1 ELSE next
        /\ lost' = (r.res = "undefined" \/ (r.res = "throws" /\ r.off # offset))
        /\ UNCHANGED <<host, data, capacity, todo, written>>
    BY <1>5 DEF Read
  <2>2. Buffer.data = data
    BY DEF Buffer
  <2>3. Readable(Buffer, offset)
    BY <1>0, <2>2 DEF Readable
  <2>4. r.off \in offset .. Len(data)
    BY <2>2, <2>3, OffsetStays DEF Stays
  <2> HIDE DEF r
  <2>5. offset' \in 0 .. Len(data')
    BY <1>0, <2>1, <2>4
  <2>6. next' \in 1 .. Len(written') + 1
    BY <1>0, <2>1
  <2>7. lost' \in BOOLEAN
    BY <2>1
  <2> QED BY <1>0, <2>1, <2>5, <2>6, <2>7 DEF Typed
<1>6. CASE ResetReading
  <2>1. /\ offset' = 0 /\ next' = 1 /\ lost' = FALSE
        /\ UNCHANGED <<host, data, capacity, todo, written>>
    BY <1>6 DEF ResetReading
  <2>2. offset' \in 0 .. Len(data') /\ next' \in 1 .. Len(written') + 1
    BY <1>0, <2>1
  <2>3. lost' \in BOOLEAN
    BY <2>1
  <2> QED BY <1>0, <2>1, <2>2, <2>3 DEF Typed
<1>7. ASSUME NEW h \in Host, Send(h) PROVE Typed'
  <2>1. /\ host' = h /\ capacity' = Len(data) /\ offset' = 0 /\ next' = 1 /\ lost' = FALSE
        /\ UNCHANGED <<data, todo, written>>
    BY <1>7 DEF Send
  <2>2. offset' \in 0 .. Len(data') /\ next' \in 1 .. Len(written') + 1
    BY <1>0, <2>1
  <2>3. lost' \in BOOLEAN
    BY <2>1
  <2> QED BY <1>0, <2>1, <2>2, <2>3 DEF Typed
<1>8. CASE ClearData
  <2>1. /\ data' = <<>> /\ capacity' = 0 /\ offset' = 0 /\ written' = <<>> /\ next' = 1 /\ lost' = FALSE
        /\ UNCHANGED <<host, todo>>
    BY <1>8 DEF ClearData
  <2>2. data' \in Seq(Byte) /\ written' \in Seq(Entry) /\ Len(data') = 0 /\ Len(written') = 0
    BY <2>1
  <2>3. offset' \in 0 .. Len(data') /\ next' \in 1 .. Len(written') + 1
    BY <2>1, <2>2
  <2>4. lost' \in BOOLEAN
    BY <2>1
  <2> QED BY <1>0, <2>1, <2>2, <2>3, <2>4 DEF Typed
<1>9. CASE UNCHANGED vars
  BY <1>0, <1>9 DEF vars, Typed
<1> QED BY <1>1, <1>2, <1>3, <1>4, <1>5, <1>6, <1>7, <1>8, <1>9 DEF Next

(***************************************************************************)
(* Whatever is written, read, cleared, moved and copied, by any threads,   *)
(* the read offset stays within the bytes there are, the history of reads  *)
(* within that of writes, and each variable keeps its type.                *)
(***************************************************************************)
THEOREM TypeCorrect == Spec => []TypeOK
<1>1. Typed => TypeOK
  <2> SUFFICES ASSUME Typed PROVE TypeOK
    OBVIOUS
  <2>1. ASSUME NEW t \in Thread, NEW i \in DOMAIN todo[t] PROVE todo[t][i].op \in {"reserve", "grow", "append"}
    <3>1. todo[t] \in Seq(Step)
      BY DEF Typed
    <3>2. todo[t][i] \in Step
      BY <2>1, <3>1
    <3> QED BY <3>2 DEF Step
  <2>2. ASSUME NEW i \in DOMAIN written PROVE written[i].value \in Value /\ written[i].host \in Host
    <3>1. written[i] \in Entry
      BY <2>2 DEF Typed
    <3> QED BY <3>1 DEF Entry
  <2> QED BY <2>1, <2>2 DEF Typed, TypeOK
<1> QED BY <1>1, TypedInit, TypedNext, PTL DEF Spec
-----------------------------------------------------------------------------
(***************************************************************************)
(* One thread that writes.  There is room for what its write still appends, *)
(* or there will be once it has reserved; what is in the buffer and what   *)
(* is still to come are the bytes of the values written and to be written. *)
(***************************************************************************)
OneWriter == \E t : Thread = {t}

HasRoom(size, c, q) ==
  /\ \A i \in 2 .. Len(q) : q[i].op # "grow"
  /\ q # <<>> /\ Head(q).op = "grow" =>
       c < Head(q).size /\ size + Len(Content(Tail(q))) <= Head(q).size
  /\ q # <<>> /\ Head(q).op = "reserve" =>
       Len(Content(q)) <= Head(q).size \/ size + Len(Content(q)) <= c
  /\ q # <<>> /\ Head(q).op = "append" => size + Len(Content(q)) <= c

Room == \A t \in Thread : HasRoom(Len(data), capacity, todo[t])
Layout == \A t \in Thread :
  data \o Content(todo[t]) = Images(written \o EntriesOf(host, Completed(todo[t])))
Bounded == \A t \in Thread : Len(data) + Len(Content(todo[t])) <= MaxSize

(* Nothing needs to be reserved where everything fits.                     *)
LEMMA RoomIfItFits ==
  ASSUME NEW q \in Seq(Step), NEW size \in Nat, NEW c \in Nat,
         \A i \in DOMAIN q : q[i].op # "grow", size + Len(Content(q)) <= c
  PROVE  HasRoom(size, c, q)
<1>1. \A i \in 2 .. Len(q) : i \in DOMAIN q
  OBVIOUS
<1>2. q # <<>> => Head(q) = q[1] /\ 1 \in DOMAIN q
  OBVIOUS
<1>3. q # <<>> => Head(q).op # "grow"
  BY <1>2
<1> QED BY <1>1, <1>3 DEF HasRoom

(* What remains after a section grows nothing.                             *)
LEMMA RoomForRest ==
  ASSUME NEW q \in Seq(Step), q # <<>>, \A i \in 2 .. Len(q) : q[i].op # "grow"
  PROVE  Tail(q) \in Seq(Step) /\ \A i \in DOMAIN Tail(q) : Tail(q)[i].op # "grow"
<1>1. Tail(q) \in Seq(Step) /\ Len(q) \in Nat /\ Len(q) >= 1 /\ DOMAIN Tail(q) = 1 .. Len(q) - 1
  OBVIOUS
<1>2. \A i \in 1 .. Len(q) - 1 : Tail(q)[i] = q[i + 1] /\ i + 1 \in 2 .. Len(q)
  OBVIOUS
<1> QED BY <1>1, <1>2

(* What remains, and its length.                                            *)
LEMMA RestIs ==
  ASSUME Typed, NEW t \in Thread, todo[t] # <<>>
  PROVE  /\ Head(todo[t]).op # "append" =>
              /\ Content(todo[t]) = Content(Tail(todo[t])) /\ Completed(todo[t]) = Completed(Tail(todo[t]))
         /\ Head(todo[t]).op = "append" =>
              /\ Content(todo[t]) = Head(todo[t]).bytes \o Content(Tail(todo[t]))
              /\ Completed(todo[t]) = Head(todo[t]).done \o Completed(Tail(todo[t]))
         /\ Content(todo[t]) \in Seq(Byte) /\ Completed(todo[t]) \in Seq(Value)
         /\ Content(Tail(todo[t])) \in Seq(Byte) /\ Completed(Tail(todo[t])) \in Seq(Value)
<1>1. todo[t] \in Seq(Step) /\ Tail(todo[t]) \in Seq(Step)
  BY StepOfWrite
<1> DEFINE q == todo[t]
<1>2. q \in Seq(Step) /\ q # <<>> /\ Tail(q) \in Seq(Step)
  BY <1>1
<1> HIDE DEF q
<1>3. Content(q) = BytesOf(Head(q)) \o Content(Tail(q)) /\ Completed(q) = DoneOf(Head(q)) \o Completed(Tail(q))
  BY <1>2, ContentHead
<1>4. /\ Content(q) \in Seq(Byte) /\ Completed(q) \in Seq(Value)
      /\ Content(Tail(q)) \in Seq(Byte) /\ Completed(Tail(q)) \in Seq(Value)
  BY <1>2, ContentParts
<1>5. CASE Head(q).op # "append"
  <2>1. BytesOf(Head(q)) = <<>> /\ DoneOf(Head(q)) = <<>>
    BY <1>5 DEF BytesOf, DoneOf
  <2>2. <<>> \o Content(Tail(q)) = Content(Tail(q)) /\ <<>> \o Completed(Tail(q)) = Completed(Tail(q))
    BY <1>4, JoinEmpty
  <2> QED BY <1>3, <1>4, <1>5, <2>1, <2>2 DEF q
<1>6. CASE Head(q).op = "append"
  <2>1. BytesOf(Head(q)) = Head(q).bytes /\ DoneOf(Head(q)) = Head(q).done
    BY <1>6 DEF BytesOf, DoneOf
  <2> QED BY <1>3, <1>4, <1>6, <2>1 DEF q
<1> QED BY <1>5, <1>6

WriterInv == Typed /\ DataFits /\ Room /\ Layout /\ Bounded

(* Between two writes.                                                      *)
LEMMA NothingPending ==
  ASSUME NEW h
  PROVE  /\ EntriesOf(h, <<>>) = <<>> /\ Images(<<>>) = <<>>
         /\ Content(<<>>) = <<>> /\ Completed(<<>>) = <<>> /\ \A n, c : HasRoom(n, c, <<>>)
<1>1. EntriesOf(h, <<>>) = <<>>
  BY DEF EntriesOf
<1>2. [i \in DOMAIN <<>> |-> Image(<<>>[i].host, <<>>[i].value)] = <<>>
  OBVIOUS
<1>3. Images(<<>>) = <<>>
  BY <1>2, FlattenEmpty DEF Images
<1>4. \A n, c : HasRoom(n, c, <<>>)
  BY DEF HasRoom
<1> QED BY <1>1, <1>3, <1>4, ContentEmpty

(* When nothing remains, the buffer has the bytes of what was written.     *)
LEMMA LayoutWhenIdle ==
  ASSUME Typed, NEW t \in Thread, todo[t] = <<>>,
         data \o Content(todo[t]) = Images(written \o EntriesOf(host, Completed(todo[t])))
  PROVE  data = Images(written)
<1>1. data \in Seq(Byte) /\ written \in Seq(Entry)
  BY DEF Typed
<1>2. data \o <<>> = Images(written \o <<>>)
  BY NothingPending
<1>3. data \o <<>> = data /\ written \o <<>> = written
  BY <1>1, JoinEmpty
<1> QED BY <1>2, <1>3

(* The program starts so, with nothing written.                            *)
LEMMA WriterInit == Init => WriterInv
<1> SUFFICES ASSUME Init PROVE WriterInv
  OBVIOUS
<1>1. Typed
  BY TypedInit
<1>2. data = <<>> /\ written = <<>> /\ \A t \in Thread : todo[t] = <<>>
  BY DEF Init
<1>3. Len(data) = 0 /\ capacity \in Nat
  BY <1>1, <1>2 DEF Typed
<1>4. DataFits
  BY <1>3 DEF DataFits
<1>5. Room
  BY <1>2, NothingPending DEF Room
<1>6. Layout
  <2>1. <<>> \o <<>> = <<>>
    OBVIOUS
  <2> QED BY <1>2, <2>1, NothingPending DEF Layout
<1>7. Bounded
  <2>1. MaxSize \in Nat
    <3>1. 4 ^ 2 - 1 = 15
      OBVIOUS
    <3> QED BY <3>1, SizeAssumption DEF Base, SizeOfUnit
  <2>2. Len(<<>>) = 0
    OBVIOUS
  <2> QED BY <1>2, <1>3, <2>1, <2>2, NothingPending DEF Bounded
<1> QED BY <1>1, <1>4, <1>5, <1>6, <1>7 DEF WriterInv

(* A write begins: what it will reserve is what it will append.            *)
LEMMA WriterWrite ==
  ASSUME WriterInv, NEW t \in Thread, Thread = {t}, NEW vs \in Calls, Write(t, vs), Typed'
  PROVE  WriterInv'
<1> DEFINE size == SerializedSizes(vs)
           q == <<ReserveStep(size)>> \o FlattenSeq([i \in DOMAIN vs |-> Sections(host, vs[i])])
           new == EntriesOf(host, vs)
<1>1. todo[t] = <<>> /\ Len(data) + size <= MaxSize /\ todo' = [todo EXCEPT ![t] = q]
  BY DEF Write
<1>2. UNCHANGED <<host, data, capacity, written>>
  BY DEF Write
<1>3. host \in Host /\ todo \in [Thread -> Seq(Step)] /\ written \in Seq(Entry)
  BY DEF WriterInv, Typed
<1>4. /\ vs \in Seq(Value) /\ size \in Nat
      /\ q \in Seq(Step) /\ q # <<>> /\ Head(q) = ReserveStep(size)
      /\ \A i \in DOMAIN q : q[i].op # "grow"
      /\ Content(q) = Images(new) /\ Completed(q) = vs /\ Len(Content(q)) = size
  BY <1>3, WriteIs
<1> HIDE DEF q, size
<1>5. todo'[t] = q
  BY <1>1, <1>3
<1>6. HasRoom(Len(data), capacity, q)
  <2>1. \A i \in 2 .. Len(q) : i \in DOMAIN q
    BY <1>4
  <2>2. Head(q).op = "reserve" /\ Head(q).size = size
    BY <1>4 DEF ReserveStep
  <2>3. Len(Content(q)) <= size
    BY <1>4
  <2> QED BY <1>4, <2>1, <2>2, <2>3 DEF HasRoom
<1>7. Room'
  BY <1>2, <1>5, <1>6 DEF Room
<1>8. Layout'
  <2>1. data = Images(written)
    BY <1>1, LayoutWhenIdle DEF WriterInv, Layout
  <2>2. new \in Seq(Entry)
    BY <1>3, <1>4, EntriesAre
  <2> HIDE DEF new
  <2>3. Images(written \o new) = data \o Content(q)
    BY <1>3, <1>4, <2>1, <2>2, ImagesConcat
  <2>4. data' \o Content(todo'[t]) = Images(written' \o EntriesOf(host', Completed(todo'[t])))
    BY <1>2, <1>4, <1>5, <2>3 DEF new
  <2> QED BY <2>4 DEF Layout
<1>9. Bounded'
  BY <1>1, <1>2, <1>4, <1>5 DEF Bounded
<1>10. DataFits'
  BY <1>2 DEF WriterInv, DataFits
<1> QED BY <1>7, <1>8, <1>9, <1>10 DEF WriterInv

(* reserve: there is room already, or a growth is next.                    *)
LEMMA WriterReserve ==
  ASSUME WriterInv, NEW t \in Thread, Thread = {t}, Reserve(t), Typed'
  PROVE  WriterInv'
<1> DEFINE q == todo[t]
           rest == Tail(q)
           s == Head(q)
           needed == Len(data) + s.size
           grow == [op |-> "grow", size |-> needed]
           r == (IF needed > capacity THEN <<grow>> ELSE <<>>) \o rest
<1>1. q # <<>> /\ s.op = "reserve" /\ todo' = [todo EXCEPT ![t] = r]
  BY DEF Reserve
<1>2. UNCHANGED <<host, data, capacity, written>>
  BY DEF Reserve
<1>3. /\ Len(data) \in Nat /\ capacity \in Nat /\ Len(data) <= capacity
      /\ todo \in [Thread -> Seq(Step)] /\ q \in Seq(Step)
  BY DEF WriterInv, Typed, DataFits
<1>4. s.size \in Nat /\ rest \in Seq(Step)
  BY <1>1, StepOfWrite DEF WriterInv
<1>5. /\ Content(q) = Content(rest) /\ Completed(q) = Completed(rest)
      /\ Content(rest) \in Seq(Byte) /\ Completed(rest) \in Seq(Value)
  BY <1>1, RestIs DEF WriterInv
<1>6. HasRoom(Len(data), capacity, q)
  BY DEF WriterInv, Room
<1>7. \A i \in DOMAIN rest : rest[i].op # "grow"
  <2>1. \A i \in 2 .. Len(q) : q[i].op # "grow"
    BY <1>6 DEF HasRoom
  <2> QED BY <1>1, <1>3, <2>1, RoomForRest
<1>8. Len(Content(rest)) <= s.size \/ Len(data) + Len(Content(rest)) <= capacity
  BY <1>1, <1>5, <1>6 DEF HasRoom
<1>9. Len(Content(rest)) \in Nat
  BY <1>5
<1>10. todo'[t] = r
  BY <1>1, <1>3
<1> HIDE DEF q, rest, s, r, grow
<1>11. HasRoom(Len(data), capacity, r) /\ Content(r) = Content(rest) /\ Completed(r) = Completed(rest)
  <2>1. CASE needed > capacity
    <3>1. r = <<grow>> \o rest
      BY <2>1 DEF r
    <3>2. grow \in Step /\ grow.op = "grow" /\ grow.size = needed
      BY <1>3, <1>4 DEF grow, Step
    <3>3. BytesOf(grow) = <<>> /\ DoneOf(grow) = <<>>
      BY <3>2 DEF BytesOf, DoneOf
    <3>4. Content(<<grow>>) = <<>> /\ Completed(<<grow>>) = <<>> /\ <<grow>> \in Seq(Step)
      BY <3>2, <3>3, ContentOne
    <3>5. Content(r) = <<>> \o Content(rest) /\ Completed(r) = <<>> \o Completed(rest)
      BY <1>4, <3>1, <3>4, ContentConcat
    <3>6. Content(r) = Content(rest) /\ Completed(r) = Completed(rest)
      BY <1>5, <3>5, JoinEmpty
    <3>7. /\ Head(r) = grow /\ Tail(r) = rest /\ r # <<>> /\ Len(r) = Len(rest) + 1 /\ Len(rest) \in Nat
          /\ \A i \in 2 .. Len(rest) + 1 : r[i] = rest[i - 1] /\ i - 1 \in DOMAIN rest
      BY <1>4, <3>1, <3>4
    <3>8. \A i \in 2 .. Len(r) : r[i].op # "grow"
      BY <1>7, <3>7
    <3>9. Len(data) + Len(Content(rest)) <= needed
      BY <1>3, <1>4, <1>8, <1>9, <2>1
    <3> QED BY <2>1, <3>2, <3>6, <3>7, <3>8, <3>9 DEF HasRoom
  <2>2. CASE ~(needed > capacity)
    <3>1. r = rest
      <4>1. r = <<>> \o rest
        BY <2>2 DEF r
      <4> QED BY <1>4, <4>1, JoinEmpty
    <3>2. Len(data) + Len(Content(rest)) <= capacity
      BY <1>3, <1>4, <1>8, <1>9, <2>2
    <3>3. HasRoom(Len(data), capacity, rest)
      BY <1>3, <1>4, <1>7, <3>2, RoomIfItFits
    <3> QED BY <3>1, <3>3
  <2> QED BY <2>1, <2>2
<1>12. Room'
  BY <1>2, <1>10, <1>11 DEF Room
<1>13. Layout'
  <2>1. data \o Content(q) = Images(written \o EntriesOf(host, Completed(q)))
    BY DEF WriterInv, Layout, q
  <2>2. data' \o Content(todo'[t]) = Images(written' \o EntriesOf(host', Completed(todo'[t])))
    BY <1>2, <1>5, <1>10, <1>11, <2>1
  <2> QED BY <2>2 DEF Layout
<1>14. Bounded'
  <2>1. Len(data) + Len(Content(q)) <= MaxSize
    BY DEF WriterInv, Bounded, q
  <2>2. Len(data') + Len(Content(todo'[t])) <= MaxSize
    BY <1>2, <1>5, <1>10, <1>11, <2>1
  <2> QED BY <2>2 DEF Bounded
<1>15. DataFits'
  BY <1>2 DEF WriterInv, DataFits
<1> QED BY <1>12, <1>13, <1>14, <1>15 DEF WriterInv

(* The growth makes room for all that remains.                             *)
LEMMA WriterGrow ==
  ASSUME WriterInv, NEW t \in Thread, Thread = {t}, Grow(t), Typed'
  PROVE  WriterInv'
<1> DEFINE q == todo[t]
           rest == Tail(q)
           s == Head(q)
<1>1. q # <<>> /\ s.op = "grow" /\ todo' = [todo EXCEPT ![t] = rest] /\ capacity' = s.size
  BY DEF Grow
<1>2. UNCHANGED <<host, data, written>>
  BY DEF Grow
<1>3. /\ Len(data) \in Nat /\ capacity \in Nat /\ Len(data) <= capacity
      /\ todo \in [Thread -> Seq(Step)] /\ q \in Seq(Step)
  BY DEF WriterInv, Typed, DataFits
<1>4. s.size \in Nat /\ rest \in Seq(Step)
  BY <1>1, StepOfWrite DEF WriterInv
<1>5. /\ Content(q) = Content(rest) /\ Completed(q) = Completed(rest)
      /\ Content(rest) \in Seq(Byte) /\ Completed(rest) \in Seq(Value)
  BY <1>1, RestIs DEF WriterInv
<1>6. HasRoom(Len(data), capacity, q)
  BY DEF WriterInv, Room
<1>7. \A i \in DOMAIN rest : rest[i].op # "grow"
  <2>1. \A i \in 2 .. Len(q) : q[i].op # "grow"
    BY <1>6 DEF HasRoom
  <2> QED BY <1>1, <1>3, <2>1, RoomForRest
<1>8. capacity < s.size /\ Len(data) + Len(Content(rest)) <= s.size
  BY <1>1, <1>6 DEF HasRoom
<1>9. Len(Content(rest)) \in Nat
  BY <1>5
<1>10. todo'[t] = rest
  BY <1>1, <1>3
<1> HIDE DEF q, rest, s
<1>11. HasRoom(Len(data), s.size, rest)
  BY <1>3, <1>4, <1>7, <1>8, RoomIfItFits
<1>12. Room'
  BY <1>1, <1>2, <1>10, <1>11 DEF Room
<1>13. Layout'
  <2>1. data \o Content(q) = Images(written \o EntriesOf(host, Completed(q)))
    BY DEF WriterInv, Layout, q
  <2>2. data' \o Content(todo'[t]) = Images(written' \o EntriesOf(host', Completed(todo'[t])))
    BY <1>2, <1>5, <1>10, <2>1
  <2> QED BY <2>2 DEF Layout
<1>14. Bounded'
  <2>1. Len(data) + Len(Content(q)) <= MaxSize
    BY DEF WriterInv, Bounded, q
  <2>2. Len(data') + Len(Content(todo'[t])) <= MaxSize
    BY <1>2, <1>5, <1>10, <2>1
  <2> QED BY <2>2 DEF Bounded
<1>15. DataFits'
  BY <1>1, <1>2, <1>3, <1>4, <1>8 DEF DataFits
<1> QED BY <1>12, <1>13, <1>14, <1>15 DEF WriterInv

(* A section: from what remains to what is in the buffer.                  *)
LEMMA WriterAppend ==
  ASSUME WriterInv, NEW t \in Thread, Thread = {t}, AppendBytes(t), Typed'
  PROVE  WriterInv'
<1> DEFINE q == todo[t]
           rest == Tail(q)
           s == Head(q)
           new == EntriesOf(host, s.done)
           more == EntriesOf(host, Completed(rest))
<1>1. /\ q # <<>> /\ s.op = "append" /\ todo' = [todo EXCEPT ![t] = rest]
      /\ data' = data \o s.bytes /\ written' = written \o new
  BY DEF AppendBytes, EntriesOf
<1>2. UNCHANGED <<host, capacity>>
  BY DEF AppendBytes
<1>3. /\ data \in Seq(Byte) /\ Len(data) \in Nat /\ capacity \in Nat
      /\ todo \in [Thread -> Seq(Step)] /\ q \in Seq(Step)
      /\ host \in Host /\ written \in Seq(Entry)
  BY DEF WriterInv, Typed, DataFits
<1>4. s.bytes \in Seq(Byte) /\ s.done \in Seq(Value) /\ rest \in Seq(Step)
  BY <1>1, StepOfWrite DEF WriterInv
<1>5. /\ Content(q) = s.bytes \o Content(rest) /\ Completed(q) = s.done \o Completed(rest)
      /\ Content(rest) \in Seq(Byte) /\ Completed(rest) \in Seq(Value)
  BY <1>1, RestIs DEF WriterInv
<1>6. HasRoom(Len(data), capacity, q)
  BY DEF WriterInv, Room
<1>7. \A i \in DOMAIN rest : rest[i].op # "grow"
  <2>1. \A i \in 2 .. Len(q) : q[i].op # "grow"
    BY <1>6 DEF HasRoom
  <2> QED BY <1>1, <1>3, <2>1, RoomForRest
<1>8. Len(data) + Len(Content(q)) <= capacity
  BY <1>1, <1>6 DEF HasRoom
<1>9. todo'[t] = rest
  BY <1>1, <1>3
<1>10. new \in Seq(Entry) /\ more \in Seq(Entry)
  BY <1>3, <1>4, <1>5, EntriesAre
<1>11. EntriesOf(host, s.done \o Completed(rest)) = new \o more
  BY <1>3, <1>4, <1>5, EntriesConcat
<1> DEFINE b == s.bytes
           c == Content(rest)
<1>12. b \in Seq(Byte) /\ c \in Seq(Byte) /\ Content(q) = b \o c /\ data' = data \o b /\ c = Content(rest)
  BY <1>1, <1>4, <1>5
<1>13. Len(data \o b) = Len(data) + Len(b) /\ Len(b) \in Nat /\ Len(c) \in Nat /\ Len(b \o c) = Len(b) + Len(c)
  BY <1>3, <1>12, JoinLength
<1>14. data \o Content(q) = Images(written \o EntriesOf(host, Completed(q)))
  BY DEF WriterInv, Layout
<1>15. Len(data) + Len(Content(q)) <= MaxSize
  BY DEF WriterInv, Bounded
<1> HIDE DEF q, rest, s, b, c, new, more
<1>16. Len(data') + Len(c) = Len(data) + Len(Content(q)) /\ Len(data') \in Nat
  BY <1>3, <1>12, <1>13
<1>17. HasRoom(Len(data'), capacity, rest)
  BY <1>3, <1>4, <1>7, <1>8, <1>12, <1>16, RoomIfItFits
<1>18. Room'
  BY <1>2, <1>9, <1>17 DEF Room
<1>19. Layout'
  <2>1. data' \o c = data \o Content(q)
    <3>1. data \in Seq(Byte) /\ b \in Seq(Byte) /\ c \in Seq(Byte)
      BY <1>3, <1>12
    <3>2. (data \o b) \o c = data \o (b \o c)
      BY <3>1, ConcatAssociative
    <3> QED BY <1>12, <3>2
  <2>2. written' \o more = written \o (new \o more)
    BY <1>1, <1>3, <1>10, ConcatAssociative, SMTT(40)
  <2>3. EntriesOf(host, Completed(q)) = new \o more
    BY <1>5, <1>11
  <2>4. data' \o c = Images(written' \o more)
    BY <1>14, <2>1, <2>2, <2>3
  <2>5. data' \o Content(todo'[t]) = Images(written' \o EntriesOf(host', Completed(todo'[t])))
    BY <1>2, <1>9, <1>12, <2>4 DEF more
  <2> QED BY <2>5 DEF Layout
<1>20. Bounded'
  <2>1. Len(data') + Len(Content(todo'[t])) <= MaxSize
    BY <1>9, <1>12, <1>15, <1>16
  <2> QED BY <2>1 DEF Bounded
<1>21. DataFits'
  BY <1>2, <1>3, <1>8, <1>12, <1>13, <1>16 DEF DataFits
<1> QED BY <1>18, <1>19, <1>20, <1>21 DEF WriterInv

(* What is done between two writes.                                         *)
LEMMA WriterRests ==
  ASSUME WriterInv, UNCHANGED <<host, data, capacity, todo, written>>, Typed'
  PROVE  WriterInv'
<1>1. DataFits'
  BY DEF WriterInv, DataFits
<1>2. Room'
  BY DEF WriterInv, Room
<1>3. Layout'
  BY DEF WriterInv, Layout
<1>4. Bounded'
  BY DEF WriterInv, Bounded
<1> QED BY <1>1, <1>2, <1>3, <1>4 DEF WriterInv

(* The buffer goes to another serializer, with as much memory as bytes.    *)
LEMMA WriterSend ==
  ASSUME WriterInv, NEW t \in Thread, Thread = {t}, NEW h, Send(h), Typed'
  PROVE  WriterInv'
<1>1. /\ todo[t] = <<>> /\ todo'[t] = <<>> /\ capacity' = Len(data)
      /\ data' = data /\ written' = written
  BY DEF Send, Idle
<1>2. data \in Seq(Byte) /\ written \in Seq(Entry) /\ Len(data) \in Nat
  BY DEF WriterInv, Typed
<1>3. Content(<<>>) = <<>> /\ HasRoom(Len(data), Len(data), <<>>)
  BY NothingPending
<1>4. DataFits'
  BY <1>1, <1>2 DEF DataFits
<1>5. Room'
  BY <1>1, <1>3 DEF Room
<1>6. Layout'
  <2>1. data = Images(written)
    BY <1>1, LayoutWhenIdle DEF WriterInv, Layout
  <2>2. data \o <<>> = data /\ written \o <<>> = written
    BY <1>2, JoinEmpty
  <2>3. EntriesOf(host', Completed(<<>>)) = <<>>
    BY NothingPending
  <2> QED BY <1>1, <1>3, <2>1, <2>2, <2>3 DEF Layout
<1>7. Bounded'
  BY <1>1 DEF WriterInv, Bounded
<1> QED BY <1>4, <1>5, <1>6, <1>7 DEF WriterInv

(* The buffer is emptied, and its memory given back.                       *)
LEMMA WriterClear ==
  ASSUME WriterInv, NEW t \in Thread, Thread = {t}, ClearData, Typed'
  PROVE  WriterInv'
<1>1. /\ todo[t] = <<>> /\ todo'[t] = <<>> /\ capacity' = 0
      /\ data' = <<>> /\ written' = <<>>
  BY DEF ClearData, Idle
<1>2. Content(<<>>) = <<>> /\ HasRoom(0, 0, <<>>) /\ Len(<<>>) = 0
  BY NothingPending
<1>3. DataFits'
  BY <1>1, <1>2 DEF DataFits
<1>4. Room'
  BY <1>1, <1>2 DEF Room
<1>5. Layout'
  <2>1. <<>> \o <<>> = <<>>
    OBVIOUS
  <2>2. EntriesOf(host', Completed(<<>>)) = <<>> /\ Images(<<>>) = <<>>
    BY NothingPending
  <2> QED BY <1>1, <1>2, <2>1, <2>2 DEF Layout
<1>6. Bounded'
  <2>1. Len(data) + Len(Content(todo[t])) <= MaxSize /\ Len(data) \in Nat /\ MaxSize \in Int
    <3>1. Len(data) \in Nat
      BY DEF WriterInv, Typed
    <3>2. 4 ^ 2 - 1 = 15
      OBVIOUS
    <3>3. MaxSize \in Int
      BY <3>2, SizeAssumption DEF Base, SizeOfUnit
    <3> QED BY <3>1, <3>3 DEF WriterInv, Bounded
  <2>2. 0 + 0 <= MaxSize
    BY <1>1, <1>2, <2>1
  <2> QED BY <1>1, <1>2, <2>2 DEF Bounded
<1> QED BY <1>3, <1>4, <1>5, <1>6 DEF WriterInv

(* Every step of one writer keeps the invariant.                           *)
LEMMA WriterNext ==
  ASSUME OneWriter, WriterInv, [Next]_vars
  PROVE  WriterInv'
<1>1. PICK t : Thread = {t}
  BY DEF OneWriter
<1>2. t \in Thread
  BY <1>1
<1>3. Typed'
  BY TypedNext DEF WriterInv
<1>4. CASE \E u \in Thread : \/ \E vs \in Calls : Write(u, vs)
                             \/ Reserve(u)
                             \/ Grow(u)
                             \/ AppendBytes(u)
  <2>1. CASE \E vs \in Calls : Write(t, vs)
    BY <1>1, <1>2, <1>3, <2>1, WriterWrite
  <2>2. CASE Reserve(t)
    BY <1>1, <1>2, <1>3, <2>2, WriterReserve
  <2>3. CASE Grow(t)
    BY <1>1, <1>2, <1>3, <2>3, WriterGrow
  <2>4. CASE AppendBytes(t)
    BY <1>1, <1>2, <1>3, <2>4, WriterAppend
  <2> QED BY <1>1, <1>4, <2>1, <2>2, <2>3, <2>4
<1>5. CASE \E type \in Type, opens \in BOOLEAN : \E old \in Targets(type) : Read(type, old, opens)
  <2>1. UNCHANGED <<host, data, capacity, todo, written>>
    BY <1>5 DEF Read
  <2> QED BY <1>3, <2>1, WriterRests
<1>6. CASE ResetReading
  <2>1. UNCHANGED <<host, data, capacity, todo, written>>
    BY <1>6 DEF ResetReading
  <2> QED BY <1>3, <2>1, WriterRests
<1>7. CASE \E h \in Host : Send(h)
  BY <1>1, <1>2, <1>3, <1>7, WriterSend
<1>8. CASE ClearData
  BY <1>1, <1>2, <1>3, <1>8, WriterClear
<1>9. CASE UNCHANGED vars
  <2>1. UNCHANGED <<host, data, capacity, todo, written>>
    BY <1>9 DEF vars
  <2> QED BY <1>3, <2>1, WriterRests
<1> QED BY <1>4, <1>5, <1>6, <1>7, <1>8, <1>9 DEF Next

(* So it holds in every state.                                             *)
LEMMA WriterAlways == ASSUME OneWriter PROVE Spec => []WriterInv
<1>1. Init => WriterInv
  BY WriterInit
<1>2. WriterInv /\ [Next]_vars => WriterInv'
  BY WriterNext
<1> QED BY <1>1, <1>2, PTL DEF Spec

(***************************************************************************)
(* Of one thread that writes: writeSingle copies its bytes without a       *)
(* check, and they fit in what reserve, from the sizes computed            *)
(* beforehand, has made room for, after any clear, move and copy.          *)
(***************************************************************************)
THEOREM WritesFit == ASSUME OneWriter PROVE Spec => []DataFits
<1>1. WriterInv => DataFits
  BY DEF WriterInv
<1> QED BY <1>1, WriterAlways, PTL

(***************************************************************************)
(* Of one thread that writes: between its writes the buffer is as long as  *)
(* the sizes that serializedSize announced for all that is in it.          *)
(***************************************************************************)
THEOREM SizesAddUp == ASSUME OneWriter PROVE Spec => []SizesAreExact
<1>1. WriterInv => SizesAreExact
  <2> SUFFICES ASSUME WriterInv, Idle PROVE Len(data) = SerializedSizes(ValuesOf(written))
    BY DEF SizesAreExact
  <2>1. PICK t : Thread = {t}
    BY DEF OneWriter
  <2>2. t \in Thread /\ todo[t] = <<>>
    BY <2>1 DEF Idle
  <2>3. data = Images(written)
    BY <2>2, LayoutWhenIdle DEF WriterInv, Layout
  <2>4. written \in Seq(Entry)
    BY DEF WriterInv, Typed
  <2> QED BY <2>3, <2>4, ImagesParts
<1> QED BY <1>1, WriterAlways, PTL
-----------------------------------------------------------------------------
(***************************************************************************)
(* Reads of what was written.  s is at an offset of a buffer.               *)
(***************************************************************************)
At(b, off, s) ==
  /\ Readable(b, off) /\ Len(b.data) <= 15
  /\ off + Len(s) <= Len(b.data)
  /\ \A i \in 1 .. Len(s) : b.data[off + i] = s[i]

(* One part after another.                                                 *)
LEMMA AtParts ==
  ASSUME NEW b, NEW off, NEW s \in Seq(Byte), NEW u \in Seq(Byte), At(b, off, s \o u)
  PROVE  At(b, off, s) /\ At(b, off + Len(s), u)
<1> DEFINE d == b.data
           m == Len(s)
           n == Len(u)
           both == s \o u
<1>1. /\ d \in Seq(Byte) /\ off \in Nat /\ Len(d) \in Nat
      /\ off + Len(both) <= Len(d) /\ \A i \in 1 .. Len(both) : d[off + i] = both[i]
  BY DEF At, Readable
<1>2. /\ Len(both) = m + n /\ m \in Nat /\ n \in Nat
      /\ \A i \in 1 .. m : both[i] = s[i]
      /\ \A i \in 1 .. n : both[m + i] = u[i]
  OBVIOUS
<1> HIDE DEF d, m, n, both
<1>3. \A i \in 1 .. m : d[off + i] = s[i]
  <2> SUFFICES ASSUME NEW i \in 1 .. m PROVE d[off + i] = s[i]
    OBVIOUS
  <2>1. i \in 1 .. m + n
    BY <1>2
  <2> QED BY <1>1, <1>2, <2>1
<1>4. \A i \in 1 .. n : d[(off + m) + i] = u[i]
  <2> SUFFICES ASSUME NEW i \in 1 .. n PROVE d[(off + m) + i] = u[i]
    OBVIOUS
  <2>1. m + i \in 1 .. m + n /\ (off + m) + i = off + (m + i)
    BY <1>1, <1>2
  <2> QED BY <1>1, <1>2, <2>1
<1>5. off + m <= Len(d) /\ (off + m) + n <= Len(d) /\ off \in 0 .. Len(d) /\ off + m \in 0 .. Len(d)
  BY <1>1, <1>2
<1> QED BY <1>1, <1>3, <1>4, <1>5 DEF At, Readable, d, m, n

(* A check of bytes that are there passes.                                  *)
LEMMA LeftIfThere ==
  ASSUME NEW b, NEW off \in Nat, NEW n \in Nat, Len(b.data) \in Nat,
         Len(b.data) <= 15, off + n <= Len(b.data)
  PROVE  Left(b, off, n) /\ There(b, off, n)
<1> DEFINE x == off + n
<1>1. x \in 0 .. 15 /\ x <= Len(b.data)
  OBVIOUS
<1>2. Word = 16
  BY DEF Word, Base, SizeOfUnit
<1>3. x % 16 = x
  <2> HIDE DEF x
  <2> QED BY <1>1
<1> QED BY <1>1, <1>2, <1>3 DEF Left, There

(* What is there is left to read, and is what is read.                     *)
LEMMA AtBytes ==
  ASSUME NEW b, NEW off, NEW s \in Seq(Byte), At(b, off, s)
  PROVE  /\ off \in Nat /\ Len(s) \in Nat /\ off + Len(s) <= Len(b.data)
         /\ There(b, off, Len(s)) /\ Left(b, off, Len(s))
         /\ Len(b.data) \in Nat
         /\ SubSeq(b.data, off + 1, off + Len(s)) = s
         /\ Bytes(b, off, Len(s)) = BinaryDeserialize(b.host, s)
<1> DEFINE n == Len(s)
           r == SubSeq(b.data, off + 1, off + n)
<1>1. b.data \in Seq(Byte) /\ off \in Nat /\ n \in Nat /\ off + n <= Len(b.data) /\ Len(b.data) \in Nat
  BY DEF At, Readable
<1>2. r \in Seq(Byte) /\ Len(r) = n /\ \A i \in 1 .. n : r[i] = b.data[off + i]
  <2> HIDE DEF n
  <2> QED BY <1>1, BytesAre
<1>3. \A i \in 1 .. n : r[i] = s[i]
  BY <1>2 DEF At
<1>4. r = s
  <2> HIDE DEF r
  <2> QED BY <1>2, <1>3
<1>5. There(b, off, n) /\ Left(b, off, n)
  <2>1. Len(b.data) <= 15
    BY DEF At
  <2> HIDE DEF n
  <2> QED BY <1>1, <2>1, LeftIfThere
<1> QED BY <1>1, <1>4, <1>5 DEF Bytes

(* A number that any host wrote is what any host reads.                    *)
LEMMA FieldIsRead ==
  ASSUME NEW b, NEW h, NEW off, NEW n \in 0 .. 15, At(b, off, BinarySerialize(h, InMemory(h, n, 2)))
  PROVE  /\ off \in Nat /\ off + 2 \in Nat /\ There(b, off, 2) /\ off + 2 <= Len(b.data)
         /\ NumberIn(b.host, Bytes(b, off, 2)) = n
<1> DEFINE x == (n \div 4) % 4
           y == n % 4
<1>1. BinarySerialize(h, InMemory(h, n, 2)) = <<x, y>>
  BY FieldIs
<1>2. x * 4 + y = n
  OBVIOUS
<1> HIDE DEF x, y
<1>3. At(b, off, <<x, y>>) /\ Len(<<x, y>>) = 2 /\ <<x, y>>[1] = x /\ <<x, y>>[2] = y
  BY <1>1
<1>4. b.data[off + 1] = x /\ b.data[off + 2] = y /\ off + 2 <= Len(b.data)
  BY <1>3 DEF At
<1>5. b.data \in Seq(Byte) /\ off \in Nat
  BY <1>3 DEF At, Readable
<1>6. NumberIn(b.host, Bytes(b, off, 2)) = NumberAt(b, off)
  BY <1>4, <1>5, NumberIsRead
<1> QED BY <1>2, <1>4, <1>5, <1>6 DEF NumberAt, There

LEMMA SizeIsRead ==
  ASSUME NEW b, NEW h, NEW off, NEW n \in 0 .. 15, At(b, off, SizeField(h, n))
  PROVE  /\ off \in Nat /\ off + 2 \in Nat /\ off + 2 <= Len(b.data)
         /\ There(b, off, SizeOfUnit) /\ off + SizeOfUnit = off + 2
         /\ NumberIn(b.host, Bytes(b, off, SizeOfUnit)) = n
BY FieldIsRead DEF SizeField, SizeOfUnit

LEMMA NumberFieldIsRead ==
  ASSUME NEW b, NEW h, NEW off, NEW n \in 0 .. 15, At(b, off, NumberField(h, n)), NEW old
  PROVE  NumberOver(b, off, 2, old) = n
<1> DEFINE s == Bytes(b, off, 2)
           memory == InMemory(b.host, old, 2)
<1>1. At(b, off, BinarySerialize(h, InMemory(h, n, 2)))
  BY DEF NumberField, SizeOfNumber
<1>2. NumberIn(b.host, s) = n /\ off \in Nat /\ off + 2 <= Len(b.data) /\ b.data \in Seq(Byte)
  BY <1>1, FieldIsRead DEF At, Readable
<1>3. s \in Seq(Byte) /\ Len(s) = 2
  <2>1. 2 \in Nat
    OBVIOUS
  <2> HIDE DEF s
  <2> QED BY <1>2, <2>1, BytesAre DEF s
<1>4. NumberOver(b, off, 2, old) = NumberIn(b.host, [i \in 1 .. 2 |-> IF i <= 2 THEN s[i] ELSE memory[i]])
  BY DEF NumberOver, SizeOfNumber
<1> HIDE DEF s, memory
<1>5. [i \in 1 .. 2 |-> IF i <= 2 THEN s[i] ELSE memory[i]] = s
  BY <1>3
<1> QED BY <1>2, <1>4, <1>5

(* Parts that are one after the other, and the offset of each.              *)
LEMMA AtPieces ==
  ASSUME NEW b, NEW off, NEW ss \in Seq(Seq(Byte)), At(b, off, FlattenSeq(ss))
  PROVE  \E at \in [0 .. Len(ss) -> Nat] :
           /\ at[0] = off /\ at[Len(ss)] = off + Len(FlattenSeq(ss))
           /\ \A k \in 1 .. Len(ss) : at[k] = at[k-1] + Len(ss[k]) /\ At(b, at[k-1], ss[k])
<1> DEFINE n == Len(ss)
           all == FlattenSeq(ss)
<1>1. n \in Nat /\ \A k \in 1 .. n : ss[k] \in Seq(Byte)
  OBVIOUS
<1>2. PICK p \in [0 .. n -> Seq(Byte)] :
        /\ p[0] = <<>> /\ \A k \in 1 .. n : p[k] = p[k-1] \o ss[k]
        /\ all = p[n]
  BY FlattenOfPrefixes
<1>3. At(b, off, all) /\ off \in Nat
  BY DEF At, Readable
<1> HIDE DEF n, all
<1> DEFINE P == {m \in Nat : m <= n => At(b, off, p[n - m])}
<1>4. ASSUME NEW k \in 1 .. n, At(b, off, p[k])
      PROVE  At(b, off, p[k-1]) /\ At(b, off + Len(p[k-1]), ss[k])
  <2> DEFINE x == p[k-1]
             y == ss[k]
  <2>0. k - 1 \in 0 .. n
    BY <1>1
  <2>1. x \in Seq(Byte) /\ y \in Seq(Byte) /\ p[k] = x \o y
    BY <1>1, <1>2, <2>0
  <2> HIDE DEF x, y
  <2>2. At(b, off, x \o y)
    BY <1>4, <2>1
  <2>3. At(b, off, x) /\ At(b, off + Len(x), y)
    BY <2>1, <2>2, AtParts
  <2> QED BY <2>3 DEF x, y
<1>5. \A m \in Nat : m \in P
  <2>1. 0 \in P
    BY <1>1, <1>2, <1>3
  <2>2. ASSUME NEW m \in Nat, m \in P PROVE m + 1 \in P
    <3> SUFFICES ASSUME m + 1 <= n PROVE At(b, off, p[n - (m + 1)])
      OBVIOUS
    <3>1. n - m \in 1 .. n /\ At(b, off, p[n - m]) /\ (n - m) - 1 = n - (m + 1)
      BY <1>1, <2>2
    <3> QED BY <1>4, <3>1
  <2> HIDE DEF P
  <2> QED BY <2>1, <2>2, NatSetInduction
<1>6. \A k \in 0 .. n : At(b, off, p[k])
  <2> SUFFICES ASSUME NEW k \in 0 .. n PROVE At(b, off, p[k])
    OBVIOUS
  <2>0. n - k \in Nat /\ n - k <= n /\ n - (n - k) = k
    BY <1>1
  <2>1. n - k \in P
    <3> HIDE DEF P
    <3> QED BY <1>5, <2>0
  <2> QED BY <2>0, <2>1
<1> DEFINE at == [k \in 0 .. n |-> off + Len(p[k])]
<1>7. \A k \in 0 .. n : Len(p[k]) \in Nat
  BY <1>2
<1>8. at \in [0 .. n -> Nat]
  BY <1>3, <1>7
<1>9. at[0] = off /\ at[n] = off + Len(all)
  <2>1. Len(<<>>) = 0 /\ 0 \in 0 .. n /\ n \in 0 .. n
    BY <1>1
  <2> QED BY <1>2, <1>3, <2>1, SMTT(40)
<1>10. ASSUME NEW k \in 1 .. n PROVE at[k] = at[k-1] + Len(ss[k]) /\ At(b, at[k-1], ss[k])
  <2>1. k \in 0 .. n /\ k - 1 \in 0 .. n
    BY <1>1
  <2>2. at[k] = off + Len(p[k]) /\ at[k-1] = off + Len(p[k-1])
    BY <2>1
  <2>3. Len(p[k]) = Len(p[k-1]) + Len(ss[k]) /\ Len(p[k-1]) \in Nat /\ Len(ss[k]) \in Nat
    <3> DEFINE x == p[k-1]
               y == ss[k]
    <3>1. x \in Seq(Byte) /\ y \in Seq(Byte) /\ p[k] = x \o y
      BY <1>1, <1>2, <2>1
    <3> HIDE DEF x, y
    <3>2. Len(x \o y) = Len(x) + Len(y) /\ Len(x) \in Nat /\ Len(y) \in Nat
      BY <3>1, JoinLength
    <3> QED BY <3>1, <3>2 DEF x, y
  <2>4. At(b, off + Len(p[k-1]), ss[k])
    BY <1>4, <1>6, <2>1
  <2> HIDE DEF at
  <2>5. at[k] = at[k-1] + Len(ss[k])
    <3> DEFINE x == Len(p[k-1])
               y == Len(ss[k])
    <3>1. at[k] = off + (x + y) /\ at[k-1] = off + x /\ x \in Nat /\ y \in Nat
      BY <2>2, <2>3
    <3> HIDE DEF x, y
    <3>2. at[k] = at[k-1] + y
      BY <1>3, <3>1
    <3> QED BY <3>2 DEF y
  <2> QED BY <2>2, <2>4, <2>5
<1> HIDE DEF at
<1> QED BY <1>8, <1>9, <1>10 DEF n, all

(* A number with its size before it is read over whatever the variable     *)
(* held.                                                                   *)
LEMMA ScalarIsRead ==
  ASSUME NEW b, NEW h, NEW off, NEW n \in 0 .. 15, At(b, off, ScalarLayout(h, n)), NEW old
  PROVE  ReadScalar(b, off, old) = Gives(off + 4, n)
<1> DEFINE s == SizeField(h, SizeOfNumber)
           u == NumberField(h, n)
<1>1. s \in Seq(Byte) /\ Len(s) = 2 /\ u \in Seq(Byte) /\ Len(u) = 2
  BY SizeFieldIs DEF SizeOfNumber
<1>2. At(b, off, s \o u)
  BY DEF ScalarLayout
<1> HIDE DEF s, u
<1>3. At(b, off, s) /\ At(b, off + 2, u)
  BY <1>1, <1>2, AtParts
<1>4. At(b, off, SizeField(h, 2))
  BY <1>3 DEF s, SizeOfNumber
<1>5. /\ off \in Nat /\ There(b, off, SizeOfUnit) /\ off + SizeOfUnit = off + 2
      /\ NumberIn(b.host, Bytes(b, off, SizeOfUnit)) = 2
  <2>1. 2 \in 0 .. 15
    OBVIOUS
  <2> QED BY <1>4, <2>1, SizeIsRead
<1>6. NumberOver(b, off + 2, 2, old) = n
  BY <1>3, NumberFieldIsRead DEF u
<1>7. There(b, off + 2, 2)
  BY <1>1, <1>3, AtBytes
<1>8. (off + 2) + 2 = off + 4 /\ ~(2 > 2)
  BY <1>5
<1> QED BY <1>5, <1>6, <1>7, <1>8 DEF ReadScalar, Sized, SizeOfNumber

(* What reading a text makes of the variable.                               *)
Moved(g, h, text, old) ==
  IF text = <<>> THEN old ELSE BinaryDeserialize(g, BinarySerialize(h, text))

(* A text is read as what its host and the reader's make of it, an empty   *)
(* one not at all.                                                         *)
LEMMA StringIsRead ==
  ASSUME NEW b, NEW h, NEW off, NEW text \in Seq(Byte), Len(text) <= 15,
         At(b, off, StringLayout(h, text)), NEW old
  PROVE  ReadString(b, off, old) = Gives(off + 2 + Len(text), Moved(b.host, h, text, old))
<1> DEFINE n == Len(text)
           s == SizeField(h, n)
           u == BinarySerialize(h, text)
<1>1. n \in 0 .. 15 /\ n \in Nat
  <2>1. n \in Nat /\ n <= 15
    OBVIOUS
  <2> HIDE DEF n
  <2> QED BY <2>1
<1>2. s \in Seq(Byte) /\ Len(s) = 2 /\ u \in Seq(Byte) /\ Len(u) = n
  <2>1. u \in Seq(Byte) /\ Len(u) = n
    BY SerializeIs
  <2>2. s \in Seq(Byte) /\ Len(s) = 2
    <3> HIDE DEF n
    <3> QED BY <1>1, SizeFieldIs
  <2> QED BY <2>1, <2>2
<1>3. At(b, off, s \o u) /\ (n = 0 <=> text = <<>>)
  BY DEF StringLayout
<1> HIDE DEF s, u, n
<1>4. At(b, off, s) /\ At(b, off + 2, u)
  BY <1>2, <1>3, AtParts
<1>5. /\ off \in Nat /\ There(b, off, SizeOfUnit) /\ off + SizeOfUnit = off + 2
      /\ NumberIn(b.host, Bytes(b, off, SizeOfUnit)) = n
  BY <1>1, <1>4, SizeIsRead DEF s
<1>6. There(b, off + 2, n) /\ Left(b, off + 2, n) /\ Bytes(b, off + 2, n) = BinaryDeserialize(b.host, u)
  BY <1>2, <1>4, AtBytes
<1>7. ReadString(b, off, old) =
        IF n = 0 THEN Gives(off + 2, old)
        ELSE IF ~Left(b, off + 2, n) \/ ~There(b, off + 2, n) THEN Throws(off + 2)
        ELSE Gives((off + 2) + n, Bytes(b, off + 2, n))
  BY <1>5 DEF ReadString, Sized
<1>8. CASE n = 0
  BY <1>3, <1>5, <1>7, <1>8 DEF Moved, n
<1>9. CASE n # 0
  BY <1>1, <1>3, <1>5, <1>6, <1>7, <1>9 DEF Moved, u, n
<1> QED BY <1>8, <1>9

(* The numbers of a sequence are read one by one.                          *)
LEMMA FieldsAreRead ==
  ASSUME NEW b, NEW h, NEW off, NEW numbers \in Seq(0 .. 15), At(b, off, NumberFields(h, numbers)), NEW old
  PROVE  /\ NumbersOver(b, off, 2, Len(numbers), old) = numbers
         /\ off \in Nat /\ There(b, off, 2 * Len(numbers)) /\ off + 2 * Len(numbers) <= Len(b.data)
         /\ Left(b, off, 2 * Len(numbers))
<1> DEFINE n == Len(numbers)
           ss == [i \in DOMAIN numbers |-> NumberField(h, numbers[i])]
           all == NumberFields(h, numbers)
<1>1. n \in Nat /\ DOMAIN numbers = 1 .. n /\ \A i \in 1 .. n : numbers[i] \in 0 .. 15 /\ numbers[i] \in Nat
  OBVIOUS
<1>2. \A i \in 1 .. n : NumberField(h, numbers[i]) \in Seq(Byte) /\ Len(NumberField(h, numbers[i])) = 2
  BY <1>1, SizeFieldIs
<1>3. ss \in Seq(Seq(Byte)) /\ Len(ss) = n /\ \A i \in 1 .. n : ss[i] = NumberField(h, numbers[i])
  BY <1>1, <1>2
<1>4. all = FlattenSeq(ss)
  BY DEF NumberFields
<1>5. all \in Seq(Byte) /\ Len(all) = 2 * n
  <2>1. numbers \in Seq(Nat)
    BY <1>1
  <2> QED BY <2>1, NumberFieldsLength
<1> HIDE DEF ss, all
<1>6. PICK at \in [0 .. Len(ss) -> Nat] :
        /\ at[0] = off /\ at[Len(ss)] = off + Len(FlattenSeq(ss))
        /\ \A k \in 1 .. Len(ss) : at[k] = at[k-1] + Len(ss[k]) /\ At(b, at[k-1], ss[k])
  BY <1>3, <1>4, AtPieces DEF all
<1>7. off \in Nat /\ off + 2 * n <= Len(b.data) /\ There(b, off, 2 * n) /\ Left(b, off, 2 * n)
  <2>1. off \in Nat /\ There(b, off, Len(all)) /\ Left(b, off, Len(all)) /\ off + Len(all) <= Len(b.data)
    BY <1>5, AtBytes DEF all
  <2> QED BY <1>5, <2>1
<1> DEFINE P == {k \in Nat : k <= n => at[k] = off + 2 * k}
<1>8. \A k \in Nat : k \in P
  <2>1. 0 \in P
    BY <1>6, <1>7
  <2>2. ASSUME NEW k \in Nat, k \in P PROVE k + 1 \in P
    <3> SUFFICES ASSUME k + 1 <= n PROVE at[k + 1] = off + 2 * (k + 1)
      OBVIOUS
    <3>1. at[k] = off + 2 * k /\ k + 1 \in 1 .. n /\ (k + 1) - 1 = k
      BY <1>1, <2>2
    <3>2. at[k + 1] = at[k] + Len(ss[k + 1])
      BY <1>3, <1>6, <3>1
    <3>3. Len(ss[k + 1]) = 2
      BY <1>2, <1>3, <3>1
    <3> QED BY <1>7, <3>1, <3>2, <3>3
  <2> HIDE DEF P
  <2> QED BY <2>1, <2>2, NatSetInduction
<1>9. ASSUME NEW i \in 1 .. n, NEW x PROVE NumberOver(b, off + (i - 1) * 2, 2, x) = numbers[i]
  <2>1. i - 1 \in Nat /\ i - 1 <= n /\ i \in 1 .. Len(ss)
    BY <1>1, <1>3
  <2>2. at[i-1] = off + 2 * (i - 1)
    BY <1>8, <2>1
  <2>3. off + 2 * (i - 1) = off + (i - 1) * 2
    BY <1>7, <2>1
  <2>4. At(b, off + (i - 1) * 2, NumberField(h, numbers[i]))
    <3>1. At(b, at[i-1], ss[i])
      BY <1>6, <2>1
    <3> QED BY <1>3, <2>2, <2>3, <3>1
  <2>5. numbers[i] \in 0 .. 15
    BY <1>1
  <2> QED BY <2>4, <2>5, NumberFieldIsRead
<1>10. NumbersOver(b, off, 2, n, old) = [i \in 1 .. n |-> numbers[i]]
  BY <1>9 DEF NumbersOver
<1>11. [i \in 1 .. n |-> numbers[i]] = numbers
  BY <1>1
<1> QED BY <1>7, <1>10, <1>11

(* Two sizes and what follows them.                                        *)
LEMMA AtThree ==
  ASSUME NEW b, NEW off, NEW s \in Seq(Byte), NEW u \in Seq(Byte), NEW w \in Seq(Byte),
         Len(s) = 2, Len(u) = 2, At(b, off, (s \o u) \o w)
  PROVE  At(b, off, s) /\ At(b, off + 2, u) /\ At(b, off + 4, w) /\ off \in Nat
<1> DEFINE su == s \o u
<1>1. su \in Seq(Byte) /\ Len(su) = Len(s) + Len(u)
  BY JoinLength
<1>2. Len(su) = 4 /\ su = s \o u
  BY <1>1
<1>3. At(b, off, su \o w) /\ off \in Nat
  BY DEF At, Readable
<1> HIDE DEF su
<1>4. At(b, off, su) /\ At(b, off + Len(su), w)
  BY <1>1, <1>3, AtParts
<1>5. At(b, off, s \o u)
  BY <1>2, <1>4
<1>6. At(b, off, s) /\ At(b, off + Len(s), u)
  BY <1>5, AtParts
<1> QED BY <1>2, <1>3, <1>4, <1>6

(* A sequence of numbers is read whole; of an empty one the size of the    *)
(* elements is left.                                                       *)
LEMMA NumbersAreRead ==
  ASSUME NEW b, NEW h, NEW off, NEW numbers \in Seq(0 .. 15), Len(numbers) <= 15,
         At(b, off, VectorLayout(h, numbers)), NEW old, NEW room \in Nat, Len(numbers) <= room
  PROVE  ReadNumbers(b, off, old, room) =
           IF numbers = <<>> THEN Gives(off + 2, old) ELSE Gives(off + 4 + 2 * Len(numbers), numbers)
<1> DEFINE n == Len(numbers)
           s == SizeField(h, n)
           u == SizeField(h, SizeOfNumber)
           w == NumberFields(h, numbers)
<1>1. n \in 0 .. 15 /\ n \in Nat /\ n <= room /\ (n = 0 <=> numbers = <<>>)
  <2>1. n \in Nat /\ n <= 15 /\ n <= room /\ (n = 0 <=> numbers = <<>>)
    OBVIOUS
  <2> HIDE DEF n
  <2> QED BY <2>1
<1>2. /\ s \in Seq(Byte) /\ Len(s) = 2 /\ u \in Seq(Byte) /\ Len(u) = 2
      /\ w \in Seq(Byte)
  <2>1. numbers \in Seq(Nat)
    <3>1. 0 .. 15 \subseteq Nat
      OBVIOUS
    <3> QED BY <3>1
  <2>2. w \in Seq(Byte)
    BY <2>1, NumberFieldsLength
  <2> HIDE DEF n, w
  <2>3. 2 \in Nat
    OBVIOUS
  <2> QED BY <1>1, <2>2, <2>3, SizeFieldIs DEF SizeOfNumber
<1>3. At(b, off, (s \o u) \o w)
  BY DEF VectorLayout
<1> HIDE DEF s, u, w, n
<1>4. At(b, off, s) /\ At(b, off + 2, u) /\ At(b, off + 4, w)
  BY <1>2, <1>3, AtThree
<1>5. /\ off \in Nat /\ There(b, off, SizeOfUnit) /\ off + SizeOfUnit = off + 2
      /\ NumberIn(b.host, Bytes(b, off, SizeOfUnit)) = n
  BY <1>1, <1>4, SizeIsRead DEF s
<1>6. /\ There(b, off + 2, SizeOfUnit) /\ (off + 2) + SizeOfUnit = off + 4
      /\ NumberIn(b.host, Bytes(b, off + 2, SizeOfUnit)) = 2
  <2>1. At(b, off + 2, SizeField(h, 2)) /\ 2 \in 0 .. 15
    BY <1>4 DEF u, SizeOfNumber
  <2>2. (off + 2) + SizeOfUnit = off + 4
    BY <1>5 DEF SizeOfUnit
  <2> QED BY <2>1, <2>2, SizeIsRead
<1>7. NumbersOver(b, off + 4, 2, n, old) = numbers /\ There(b, off + 4, 2 * n) /\ Left(b, off + 4, 2 * n)
  BY <1>4, FieldsAreRead DEF w, n
<1>8. ReadNumbers(b, off, old, room) = IF n = 0 THEN Gives(off + 2, old) ELSE NumbersRest(b, off + 2, n, old, room)
  BY <1>5 DEF ReadNumbers, Sized
<1>9. NumbersRest(b, off + 2, n, old, room) = Gives((off + 4) + 2 * n, numbers)
  BY <1>1, <1>6, <1>7 DEF NumbersRest, Sized, SizeOfNumber
<1> QED BY <1>1, <1>8, <1>9 DEF n

(* One more inner vector.                                                  *)
LEMMA SubvectorIsRead ==
  ASSUME NEW b, NEW h, NEW p, NEW v \in Seq(0 .. 15), Len(v) <= 15,
         At(b, p, SizeField(h, Len(v)) \o NumberFields(h, v)), NEW val
  PROVE  Subvector(b, Gives(p, val), 2) = Gives(p + 2 + 2 * Len(v), Append(val, v))
<1> DEFINE n == Len(v)
           s == SizeField(h, n)
           w == NumberFields(h, v)
<1>1. n \in 0 .. 15 /\ n \in Nat
  <2>1. n \in Nat /\ n <= 15
    OBVIOUS
  <2> HIDE DEF n
  <2> QED BY <2>1
<1>2. s \in Seq(Byte) /\ Len(s) = 2 /\ w \in Seq(Byte)
  <2>1. v \in Seq(Nat)
    <3>1. 0 .. 15 \subseteq Nat
      OBVIOUS
    <3> QED BY <3>1
  <2>2. w \in Seq(Byte)
    BY <2>1, NumberFieldsLength
  <2> HIDE DEF n, w
  <2> QED BY <1>1, <2>2, SizeFieldIs
<1>3. At(b, p, s \o w)
  OBVIOUS
<1> HIDE DEF s, w, n
<1>4. At(b, p, s) /\ At(b, p + 2, w)
  BY <1>2, <1>3, AtParts
<1>5. /\ p \in Nat /\ There(b, p, SizeOfUnit) /\ p + SizeOfUnit = p + 2
      /\ NumberIn(b.host, Bytes(b, p, SizeOfUnit)) = n
  BY <1>1, <1>4, SizeIsRead DEF s
<1>6. NumbersOver(b, p + 2, 2, n, <<>>) = v /\ There(b, p + 2, 2 * n) /\ Left(b, p + 2, 2 * n)
  BY <1>4, FieldsAreRead DEF w, n
<1>7. Gives(p, val).res = "value" /\ Gives(p, val).off = p /\ Gives(p, val).val = val
  BY DEF Gives
<1>8. Subvector(b, Gives(p, val), 2) = Gives((p + 2) + 2 * n, Append(val, v))
  BY <1>5, <1>6, <1>7 DEF Subvector, Sized, SizeOfNumber
<1> QED BY <1>8 DEF n

(* A prefix and the element after it.                                      *)
LEMMA OneMore ==
  ASSUME NEW B, NEW s \in Seq(B), NEW k \in Nat, k + 1 <= Len(s)
  PROVE  Append(SubSeq(s, 1, k), s[k + 1]) = SubSeq(s, 1, k + 1)
<1> DEFINE x == SubSeq(s, 1, k)
           y == SubSeq(s, 1, k + 1)
<1>1. Len(s) \in Nat
  OBVIOUS
<1>2. x \in Seq(B) /\ Len(x) = k /\ \A i \in 1 .. k : x[i] = s[i]
  BY <1>1
<1>3. y \in Seq(B) /\ Len(y) = k + 1 /\ \A i \in 1 .. k + 1 : y[i] = s[i]
  BY <1>1
<1>4. s[k + 1] \in B
  BY <1>1
<1> HIDE DEF x, y
<1> DEFINE z == Append(x, s[k + 1])
<1>5. z \in Seq(B) /\ Len(z) = k + 1 /\ \A i \in 1 .. k + 1 : z[i] = IF i <= k THEN x[i] ELSE s[k + 1]
  BY <1>2, <1>4
<1> HIDE DEF z
<1>6. \A i \in 1 .. k + 1 : z[i] = y[i]
  BY <1>2, <1>3, <1>5
<1>7. z = y
  BY <1>3, <1>5, <1>6
<1> QED BY <1>7 DEF x, y, z

(* Whatever reads one inner vector after another gives what Subvectors     *)
(* gives.                                                                  *)
LEMMA SubvectorsFollow ==
  ASSUME NEW b, NEW elem, NEW start, NEW n \in Nat, NEW x,
         x[0] = Gives(start, <<>>), \A i \in 1 .. n : x[i] = Subvector(b, x[i-1], elem)
  PROVE  Subvectors(b, n, elem, start) = x[n]
<1> DEFINE e == Subvectors(b, n, elem, start)
<1>0. e = Subvectors(b, n, elem, start)
  OBVIOUS
<1> HIDE DEF e
<1>1. PICK f : /\ f[0] = Gives(start, <<>>)
               /\ \A i \in 1 .. n : f[i] = Subvector(b, f[i-1], elem)
               /\ Subvectors(b, n, elem, start) = f[n]
  BY <1>0, SubvectorsAre
<1> DEFINE P == {k \in Nat : k <= n => f[k] = x[k]}
<1>2. 0 \in P
  BY <1>1
<1>3. ASSUME NEW k \in Nat, k \in P PROVE k + 1 \in P
  <2> SUFFICES ASSUME k + 1 <= n PROVE f[k + 1] = x[k + 1]
    OBVIOUS
  <2>1. f[k] = x[k] /\ k + 1 \in 1 .. n /\ (k + 1) - 1 = k
    BY <1>3
  <2> QED BY <1>1, <2>1
<1>4. n \in P
  <2> HIDE DEF P
  <2> QED BY <1>2, <1>3, NatSetInduction
<1> QED BY <1>1, <1>4

(* A vector of vectors is read whole, or an empty one as any empty         *)
(* vector.                                                                 *)
LEMMA VectorsAreRead ==
  ASSUME NEW b, NEW h, NEW off, NEW vectors \in Seq(Seq(0 .. 15)), Len(b.data) <= 15,
         At(b, off, VectorsLayout(h, vectors)), NEW old
  PROVE  ReadVectors(b, off, old) =
           IF vectors = <<>> THEN Gives(off + 2, old)
           ELSE Gives(off + Len(VectorsLayout(h, vectors)), vectors)
<1> DEFINE n == Len(vectors)
           Part(i) == SizeField(h, Len(vectors[i])) \o NumberFields(h, vectors[i])
           ss == [i \in DOMAIN vectors |-> Part(i)]
           s == SizeField(h, n)
           u == SizeField(h, SizeOfNumber)
           w == FlattenSeq(ss)
<1>1. /\ n \in Nat /\ DOMAIN vectors = 1 .. n /\ (n = 0 <=> vectors = <<>>)
      /\ \A i \in 1 .. n : vectors[i] \in Seq(0 .. 15)
  OBVIOUS
<1>2. ASSUME NEW i \in 1 .. n PROVE Part(i) \in Seq(Byte) /\ Len(Part(i)) = 2 + 2 * Len(vectors[i])
  <2> DEFINE v == vectors[i]
  <2>1. v \in Seq(Nat) /\ Len(v) \in Nat
    <3>1. v \in Seq(0 .. 15)
      BY <1>1
    <3> HIDE DEF v
    <3>2. 0 .. 15 \subseteq Nat
      OBVIOUS
    <3>3. v \in Seq(Nat)
      BY <3>1, <3>2, SMTT(40)
    <3> QED BY <3>3
  <2> HIDE DEF v
  <2>2. SizeField(h, Len(v)) \in Seq(Byte) /\ Len(SizeField(h, Len(v))) = 2
    BY <2>1, SizeFieldIs
  <2>3. NumberFields(h, v) \in Seq(Byte) /\ Len(NumberFields(h, v)) = 2 * Len(v)
    BY <2>1, NumberFieldsLength
  <2>4. /\ SizeField(h, Len(v)) \o NumberFields(h, v) \in Seq(Byte)
        /\ Len(SizeField(h, Len(v)) \o NumberFields(h, v)) = 2 + 2 * Len(v)
    BY <2>2, <2>3, JoinLength
  <2> QED BY <2>4 DEF v
<1> HIDE DEF Part
<1>3. ss \in Seq(Seq(Byte)) /\ Len(ss) = n /\ \A i \in 1 .. n : ss[i] = Part(i)
  BY <1>1, <1>2
<1>4. At(b, off, (s \o u) \o w) /\ VectorsLayout(h, vectors) = (s \o u) \o w
  BY DEF VectorsLayout, Part
<1>5. s \in Seq(Byte) /\ Len(s) = 2 /\ u \in Seq(Byte) /\ Len(u) = 2 /\ w \in Seq(Byte)
  <2>1. w \in Seq(Byte)
    <3> HIDE DEF ss
    <3> QED BY <1>3, FlattenLength
  <2> HIDE DEF n, w
  <2>2. 2 \in Nat
    OBVIOUS
  <2> QED BY <1>1, <2>1, <2>2, SizeFieldIs DEF SizeOfNumber
<1> HIDE DEF ss, s, u, n
<1>6. w = FlattenSeq(ss)
  OBVIOUS
<1> HIDE DEF w
<1>7. At(b, off, s) /\ At(b, off + 2, u) /\ At(b, off + 4, w) /\ off \in Nat
  BY <1>4, <1>5, AtThree
<1>8. Len((s \o u) \o w) = 4 + Len(w) /\ Len(w) \in Nat
  <2>1. s \in Seq(Byte) /\ u \in Seq(Byte) /\ w \in Seq(Byte)
    BY <1>5
  <2>2. Len((s \o u) \o w) = Len(s) + Len(u) + Len(w)
    BY <2>1, Join3Length
  <2>3. Len(w) \in Nat
    BY <2>1
  <2> QED BY <1>5, <2>2, <2>3
<1> DEFINE start == off + 4
<1>start. start = off + 4 /\ start \in Nat /\ At(b, start, FlattenSeq(ss))
  BY <1>6, <1>7
<1> HIDE DEF start
<1>9. PICK at \in [0 .. Len(ss) -> Nat] :
        /\ at[0] = start /\ at[Len(ss)] = start + Len(FlattenSeq(ss))
        /\ \A k \in 1 .. Len(ss) : at[k] = at[k-1] + Len(ss[k]) /\ At(b, at[k-1], ss[k])
  <2>1. ss \in Seq(Seq(Byte)) /\ At(b, start, FlattenSeq(ss))
    BY <1>3, <1>start
  <2> QED BY <2>1, AtPieces
<1>10. at[0] = off + 4 /\ at[n] = off + 4 + Len(w)
  BY <1>3, <1>6, <1>7, <1>8, <1>9, <1>start
<1>11. ASSUME NEW i \in 1 .. n, NEW val
       PROVE  Subvector(b, Gives(at[i-1], val), 2) = Gives(at[i], Append(val, vectors[i]))
  <2> DEFINE v == vectors[i]
             p == at[i-1]
  <2>1. v \in Seq(0 .. 15) /\ Len(v) \in Nat
    BY <1>1
  <2>2. At(b, p, ss[i]) /\ at[i] = p + Len(ss[i])
    BY <1>3, <1>9
  <2>3. At(b, p, Part(i)) /\ at[i] = p + (2 + 2 * Len(v)) /\ Len(Part(i)) = 2 + 2 * Len(v) /\ Part(i) \in Seq(Byte)
    BY <1>2, <1>3, <2>2
  <2>4. p \in Nat /\ Len(b.data) \in Nat /\ p + (2 + 2 * Len(v)) <= Len(b.data)
    BY <2>3, AtBytes
  <2>5. Part(i) = SizeField(h, Len(v)) \o NumberFields(h, v)
    BY DEF Part
  <2> HIDE DEF v, p
  <2>6. Len(v) <= 15
    BY <2>1, <2>4
  <2>7. Subvector(b, Gives(p, val), 2) = Gives(p + 2 + 2 * Len(v), Append(val, v))
    BY <2>1, <2>3, <2>5, <2>6, SubvectorIsRead
  <2>8. at[i] = p + 2 + 2 * Len(v)
    BY <2>1, <2>3, <2>4
  <2> QED BY <2>7, <2>8 DEF v, p
<1>12. Subvectors(b, n, 2, start) = Gives(at[n], vectors)
  <2> DEFINE x == [k \in 0 .. n |-> Gives(at[k], SubSeq(vectors, 1, k))]
             elem == 2
  <2>1. n \in Nat /\ n = Len(vectors) /\ 0 \in 0 .. n /\ n \in 0 .. n
    BY <1>1 DEF n
  <2>2. x[0] = Gives(start, <<>>)
    <3>1. SubSeq(vectors, 1, 0) = <<>>
      OBVIOUS
    <3> QED BY <1>10, <1>start, <2>1, <3>1
  <2>3. x[n] = Gives(at[n], vectors)
    <3>1. SubSeq(vectors, 1, n) = vectors
      BY DEF n
    <3> QED BY <2>1, <3>1
  <2>4. ASSUME NEW i \in 1 .. n PROVE x[i] = Subvector(b, x[i-1], elem)
    <3>1. i - 1 \in Nat /\ i - 1 \in 0 .. n /\ i \in 0 .. n /\ (i - 1) + 1 = i /\ i <= n
      BY <2>1
    <3>2. x[i] = Gives(at[i], SubSeq(vectors, 1, i)) /\ x[i-1] = Gives(at[i-1], SubSeq(vectors, 1, i - 1))
      BY <3>1
    <3> HIDE DEF x
    <3>3. Append(SubSeq(vectors, 1, i - 1), vectors[i]) = SubSeq(vectors, 1, i)
      <4> DEFINE k == i - 1
      <4>1. k \in Nat /\ k + 1 <= Len(vectors) /\ k + 1 = i
        BY <2>1, <3>1
      <4> HIDE DEF k
      <4>2. Append(SubSeq(vectors, 1, k), vectors[k + 1]) = SubSeq(vectors, 1, k + 1)
        BY <4>1, OneMore
      <4> QED BY <4>1, <4>2 DEF k
    <3> QED BY <1>11, <3>2, <3>3
  <2> HIDE DEF x, elem
  <2>5. Subvectors(b, n, elem, start) = x[n]
    BY <2>1, <2>2, <2>4, SubvectorsFollow
  <2> QED BY <2>3, <2>5 DEF elem
<1>13. n \in 0 .. 15
  <2> DEFINE P == {k \in Nat : k <= n => off + 2 * k <= at[k]}
  <2>1. 0 \in P
    BY <1>7, <1>10
  <2>2. ASSUME NEW k \in Nat, k \in P PROVE k + 1 \in P
    <3> SUFFICES ASSUME k + 1 <= n PROVE off + 2 * (k + 1) <= at[k + 1]
      OBVIOUS
    <3>1. off + 2 * k <= at[k] /\ k + 1 \in 1 .. n /\ (k + 1) - 1 = k /\ k \in 0 .. n
      BY <1>1, <2>2
    <3>2. at[k + 1] = at[k] + Len(ss[k + 1]) /\ at[k] \in Nat
      BY <1>3, <1>9, <3>1
    <3>3. Len(ss[k + 1]) = 2 + 2 * Len(vectors[k + 1]) /\ Len(vectors[k + 1]) \in Nat
      BY <1>1, <1>2, <1>3, <3>1
    <3> QED BY <1>7, <3>1, <3>2, <3>3
  <2>3. n \in P
    <3> HIDE DEF P
    <3> QED BY <1>1, <2>1, <2>2, NatSetInduction
  <2>4. at[n] <= Len(b.data) /\ Len(b.data) \in Nat
    BY <1>5, <1>7, <1>10, AtBytes
  <2> QED BY <1>1, <1>7, <1>8, <1>10, <2>3, <2>4
<1>14. /\ There(b, off, SizeOfUnit) /\ off + SizeOfUnit = off + 2
       /\ NumberIn(b.host, Bytes(b, off, SizeOfUnit)) = n
  BY <1>7, <1>13, SizeIsRead DEF s
<1>15. /\ There(b, off + 2, SizeOfUnit) /\ (off + 2) + SizeOfUnit = off + 4
       /\ NumberIn(b.host, Bytes(b, off + 2, SizeOfUnit)) = 2
  <2>1. At(b, off + 2, SizeField(h, 2)) /\ 2 \in 0 .. 15
    BY <1>7 DEF u, SizeOfNumber
  <2>2. (off + 2) + SizeOfUnit = off + 4
    BY <1>7 DEF SizeOfUnit
  <2> QED BY <2>1, <2>2, SizeIsRead
<1>16. ReadVectors(b, off, old) = IF n = 0 THEN Gives(off + 2, old) ELSE VectorsRest(b, off + 2, n)
  BY <1>14 DEF ReadVectors, Sized
<1>17. VectorsRest(b, off + 2, n) = Subvectors(b, n, 2, start)
  BY <1>15, <1>start DEF VectorsRest, Sized
<1>18. off + Len(VectorsLayout(h, vectors)) = at[n]
  BY <1>4, <1>7, <1>8, <1>10
<1> QED BY <1>1, <1>12, <1>16, <1>17, <1>18

(* Whatever reads one string after another gives what Elements gives.      *)
LEMMA ElementsFollow ==
  ASSUME NEW b, NEW old, NEW start, NEW n \in Nat, NEW x,
         x[0] = Gives(start, <<>>), \A i \in 1 .. n : x[i] = Element(b, x[i-1], OldText(old, i))
  PROVE  Elements(b, n, start, old) = x[n]
<1>0. PICK f : ReadInTurn(f, b, n, old, start) /\ Elements(b, n, start, old) = f[n]
  BY ElementsAre
<1>1. /\ f[0] = Gives(start, <<>>)
      /\ \A i \in 1 .. n : f[i] = Element(b, f[i-1], OldText(old, i))
      /\ Elements(b, n, start, old) = f[n]
  BY <1>0 DEF ReadInTurn
<1> DEFINE P == {k \in Nat : k <= n => f[k] = x[k]}
<1>2. 0 \in P
  BY <1>1
<1>3. ASSUME NEW k \in Nat, k \in P PROVE k + 1 \in P
  <2> SUFFICES ASSUME k + 1 <= n PROVE f[k + 1] = x[k + 1]
    OBVIOUS
  <2>1. f[k] = x[k] /\ k + 1 \in 1 .. n /\ (k + 1) - 1 = k
    BY <1>3
  <2> QED BY <1>1, <2>1
<1>4. n \in P
  <2> HIDE DEF P
  <2> QED BY <1>2, <1>3, NatSetInduction
<1> QED BY <1>1, <1>4

(* One more string, into what the variable held at its place.              *)
LEMMA ElementIsRead ==
  ASSUME NEW b, NEW h, NEW p, NEW text \in Seq(Byte), Len(text) <= 15,
         At(b, p, StringLayout(h, text)), NEW old, NEW val
  PROVE  Element(b, Gives(p, val), old) = Gives(p + 2 + Len(text), Append(val, Moved(b.host, h, text, old)))
<1> DEFINE r == Gives(p, val)
           m == Moved(b.host, h, text, old)
           q == p + 2 + Len(text)
<1>1. r.res = "value" /\ r.off = p /\ r.val = val
  BY DEF Gives
<1>2. ReadString(b, p, old) = Gives(q, m)
  BY StringIsRead
<1> HIDE DEF r, m, q
<1>3. Gives(q, m).res = "value" /\ Gives(q, m).off = q /\ Gives(q, m).val = m
  BY DEF Gives
<1>4. Element(b, r, old) = [res |-> "value", off |-> q, val |-> Append(val, m)]
  BY <1>1, <1>2, <1>3, ElementIs
<1> QED BY <1>4 DEF Gives, r, m, q

(* A vector<string> is read string by string.                              *)
LEMMA StringsAreRead ==
  ASSUME NEW b, NEW h, NEW off, NEW texts \in Seq(Seq(Byte)), Len(b.data) <= 15,
         At(b, off, SizeField(h, Len(texts)) \o TextFields(h, texts)), NEW old
  PROVE  ReadStrings(b, off, old) =
           IF texts = <<>> THEN Gives(off + 2, old)
           ELSE Gives(off + 2 + Len(TextFields(h, texts)),
                      [i \in 1 .. Len(texts) |-> Moved(b.host, h, texts[i], OldText(old, i))])
<1> DEFINE n == Len(texts)
           Part(i) == StringLayout(h, texts[i])
           ss == [i \in DOMAIN texts |-> Part(i)]
           s == SizeField(h, n)
           w == TextFields(h, texts)
           M(i) == Moved(b.host, h, texts[i], OldText(old, i))
           moved == [i \in 1 .. n |-> M(i)]
<1>1. /\ n \in Nat /\ DOMAIN texts = 1 .. n /\ (n = 0 <=> texts = <<>>)
      /\ \A i \in 1 .. n : texts[i] \in Seq(Byte)
  OBVIOUS
<1>2. ASSUME NEW i \in 1 .. n PROVE Part(i) \in Seq(Byte) /\ Len(Part(i)) = 2 + Len(texts[i])
  <2>1. texts[i] \in Text
    BY <1>1 DEF Text
  <2> QED BY <2>1, StringLength
<1>3. w = FlattenSeq(ss)
  BY DEF TextFields
<1> HIDE DEF Part
<1>4. ss \in Seq(Seq(Byte)) /\ Len(ss) = n /\ \A i \in 1 .. n : ss[i] = Part(i)
  BY <1>1, <1>2
<1> HIDE DEF ss
<1>5. s \in Seq(Byte) /\ Len(s) = 2 /\ w \in Seq(Byte)
  <2>1. w \in Seq(Byte)
    BY <1>3, <1>4, FlattenLength
  <2> HIDE DEF n, w
  <2> QED BY <1>1, <2>1, SizeFieldIs
<1>6. At(b, off, s \o w)
  OBVIOUS
<1> HIDE DEF s, n, w, M
<1>7. At(b, off, s) /\ At(b, off + 2, w) /\ off \in Nat
  <2>1. At(b, off, s) /\ At(b, off + 2, w)
    BY <1>5, <1>6, AtParts
  <2> QED BY <2>1 DEF At, Readable
<1> DEFINE start == off + 2
<1>8. start = off + 2 /\ start \in Nat /\ At(b, start, FlattenSeq(ss))
  BY <1>3, <1>7
<1> HIDE DEF start
<1>9. PICK at \in [0 .. Len(ss) -> Nat] :
        /\ at[0] = start /\ at[Len(ss)] = start + Len(FlattenSeq(ss))
        /\ \A k \in 1 .. Len(ss) : at[k] = at[k-1] + Len(ss[k]) /\ At(b, at[k-1], ss[k])
  <2>1. ss \in Seq(Seq(Byte)) /\ At(b, start, FlattenSeq(ss))
    BY <1>4, <1>8
  <2> QED BY <2>1, AtPieces, SMTT(40)
<1>10. at[0] = start /\ at[n] = start + Len(w)
  BY <1>3, <1>4, <1>9
<1>11. ASSUME NEW i \in 1 .. n, NEW val
       PROVE  Element(b, Gives(at[i-1], val), OldText(old, i)) = Gives(at[i], Append(val, M(i)))
  <2> DEFINE v == texts[i]
             p == at[i-1]
  <2>1. v \in Seq(Byte) /\ Len(v) \in Nat
    <3>1. v \in Seq(Byte)
      BY <1>1
    <3> QED BY <3>1
  <2>2. At(b, p, ss[i]) /\ at[i] = p + Len(ss[i])
    BY <1>4, <1>9
  <2>3. At(b, p, Part(i)) /\ at[i] = p + (2 + Len(v)) /\ Len(Part(i)) = 2 + Len(v) /\ Part(i) \in Seq(Byte)
    BY <1>2, <1>4, <2>2
  <2>4. p \in Nat /\ Len(b.data) \in Nat /\ p + (2 + Len(v)) <= Len(b.data)
    BY <2>3, AtBytes
  <2>5. Part(i) = StringLayout(h, v) /\ M(i) = Moved(b.host, h, v, OldText(old, i))
    BY DEF Part, M
  <2> HIDE DEF v, p
  <2>6. Len(v) <= 15
    BY <2>1, <2>4
  <2>7. Element(b, Gives(p, val), OldText(old, i)) = Gives(p + 2 + Len(v), Append(val, M(i)))
    BY <2>1, <2>3, <2>5, <2>6, ElementIsRead
  <2>8. at[i] = p + 2 + Len(v)
    BY <2>1, <2>3, <2>4
  <2> QED BY <2>7, <2>8 DEF v, p
<1>m. moved \in Seq({M(i) : i \in 1 .. n}) /\ Len(moved) = n /\ \A i \in 1 .. n : moved[i] = M(i)
  <2> DEFINE B == {M(i) : i \in 1 .. n}
  <2>1. \A i \in 1 .. n : M(i) \in B
    OBVIOUS
  <2> HIDE DEF B
  <2>2. n \in Nat
    BY <1>1
  <2>3. moved \in Seq(B) /\ Len(moved) = n
    BY <2>1, <2>2
  <2> QED BY <2>3 DEF B
<1> HIDE DEF moved
<1>12. Elements(b, n, start, old) = Gives(at[n], moved)
  <2> DEFINE x == [k \in 0 .. n |-> Gives(at[k], SubSeq(moved, 1, k))]
  <2>1. n \in Nat /\ 0 \in 0 .. n /\ n \in 0 .. n
    BY <1>1
  <2>2. x[0] = Gives(start, <<>>)
    <3>1. SubSeq(moved, 1, 0) = <<>>
      BY <1>m
    <3> QED BY <1>10, <2>1, <3>1
  <2>3. x[n] = Gives(at[n], moved)
    <3>1. SubSeq(moved, 1, n) = moved
      BY <1>m
    <3> QED BY <2>1, <3>1
  <2>4. ASSUME NEW i \in 1 .. n PROVE x[i] = Element(b, x[i-1], OldText(old, i))
    <3>1. i - 1 \in Nat /\ i - 1 \in 0 .. n /\ i \in 0 .. n /\ (i - 1) + 1 = i /\ i <= n
      BY <2>1
    <3>2. x[i] = Gives(at[i], SubSeq(moved, 1, i)) /\ x[i-1] = Gives(at[i-1], SubSeq(moved, 1, i - 1))
      BY <3>1
    <3> HIDE DEF x
    <3>3. Append(SubSeq(moved, 1, i - 1), moved[i]) = SubSeq(moved, 1, i)
      <4> DEFINE k == i - 1
      <4>1. k \in Nat /\ k + 1 <= Len(moved) /\ k + 1 = i
        BY <1>m, <3>1
      <4> HIDE DEF k
      <4>2. Append(SubSeq(moved, 1, k), moved[k + 1]) = SubSeq(moved, 1, k + 1)
        BY <1>m, <4>1, OneMore
      <4> QED BY <4>1, <4>2 DEF k
    <3> QED BY <1>11, <1>m, <3>2, <3>3
  <2> HIDE DEF x
  <2>5. Elements(b, n, start, old) = x[n]
    BY <2>1, <2>2, <2>4, ElementsFollow
  <2> QED BY <2>3, <2>5
<1>13. n \in 0 .. 15
  <2> DEFINE P == {k \in Nat : k <= n => off + k <= at[k]}
  <2>1. 0 \in P
    BY <1>7, <1>8, <1>10
  <2>2. ASSUME NEW k \in Nat, k \in P PROVE k + 1 \in P
    <3> SUFFICES ASSUME k + 1 <= n PROVE off + (k + 1) <= at[k + 1]
      OBVIOUS
    <3>1. off + k <= at[k] /\ k + 1 \in 1 .. n /\ (k + 1) - 1 = k /\ k \in 0 .. n
      BY <1>1, <2>2
    <3>2. at[k + 1] = at[k] + Len(ss[k + 1]) /\ at[k] \in Nat
      BY <1>4, <1>9, <3>1
    <3>3. Len(ss[k + 1]) = 2 + Len(texts[k + 1]) /\ Len(texts[k + 1]) \in Nat
      BY <1>1, <1>2, <1>4, <3>1
    <3> QED BY <1>7, <3>1, <3>2, <3>3
  <2>3. n \in P
    <3> HIDE DEF P
    <3> QED BY <1>1, <2>1, <2>2, NatSetInduction
  <2>4. at[n] <= Len(b.data) /\ Len(b.data) \in Nat
    BY <1>5, <1>7, <1>8, <1>10, AtBytes
  <2>5. at[n] \in Nat
    BY <1>1, <1>4, <1>9
  <2> QED BY <1>1, <1>7, <2>3, <2>4, <2>5
<1>14. /\ There(b, off, SizeOfUnit) /\ off + SizeOfUnit = start
       /\ NumberIn(b.host, Bytes(b, off, SizeOfUnit)) = n
  BY <1>7, <1>8, <1>13, SizeIsRead DEF s
<1>15. ReadStrings(b, off, old) = IF n = 0 THEN Gives(start, old) ELSE Elements(b, n, start, old)
  BY <1>14 DEF ReadStrings, Sized
<1>16. ReadStrings(b, off, old) = IF n = 0 THEN Gives(off + 2, old) ELSE Gives(off + 2 + Len(w), moved)
  BY <1>8, <1>10, <1>12, <1>15
<1> QED BY <1>1, <1>16 DEF n, w, moved, M

(* An array is read as a vector of its length.                             *)
LEMMA ArrayIsRead ==
  ASSUME NEW b, NEW h, NEW off, NEW numbers \in Seq(0 .. 15), Len(numbers) = ArrayLength, ArrayLength <= 15,
         At(b, off, VectorLayout(h, numbers)), NEW B, NEW old \in Seq(B), Len(old) = ArrayLength
  PROVE  ReadArray(b, off, old) =
           IF numbers = <<>> THEN Gives(off + 2, old) ELSE Gives(off + 4 + 2 * Len(numbers), numbers)
<1> DEFINE r == ReadNumbers(b, off, old, ArrayLength)
           q == off + 4 + 2 * Len(numbers)
<1>1. r = IF numbers = <<>> THEN Gives(off + 2, old) ELSE Gives(q, numbers)
  <2>1. ArrayLength \in Nat
    OBVIOUS
  <2> QED BY <2>1, NumbersAreRead
<1>2. ReadArray(b, off, old) =
        [res |-> r.res, off |-> r.off,
         val |-> IF r.res = "value" THEN r.val \o SubSeq(old, Len(r.val) + 1, Len(old)) ELSE r.val]
  BY ArrayIs
<1>3. numbers # <<>> => numbers \o SubSeq(old, Len(numbers) + 1, Len(old)) = numbers
  <2>1. SubSeq(old, Len(numbers) + 1, Len(old)) = <<>>
    OBVIOUS
  <2>2. numbers \o <<>> = numbers
    OBVIOUS
  <2> QED BY <2>1, <2>2
<1>4. old \o SubSeq(old, Len(old) + 1, Len(old)) = old
  <2>1. SubSeq(old, Len(old) + 1, Len(old)) = <<>>
    OBVIOUS
  <2>2. old \o <<>> = old
    OBVIOUS
  <2> QED BY <2>1, <2>2
<1> HIDE DEF r, q
<1>5. CASE numbers = <<>>
  <2>1. r.res = "value" /\ r.off = off + 2 /\ r.val = old
    BY <1>1, <1>5 DEF Gives
  <2> QED BY <1>2, <1>4, <1>5, <2>1 DEF Gives
<1>6. CASE numbers # <<>>
  <2>1. r.res = "value" /\ r.off = q /\ r.val = numbers
    BY <1>1, <1>6 DEF Gives
  <2> QED BY <1>2, <1>3, <1>6, <2>1 DEF Gives, q
<1> QED BY <1>5, <1>6

(* A Serializable is read if what the variable held before would fit in    *)
(* what is left.                                                           *)
LEMMA ObjectIsRead ==
  ASSUME NEW b, NEW h, NEW off, NEW n \in 0 .. 15, NEW text \in Seq(Byte), Len(text) <= 15,
         At(b, off, ScalarLayout(h, n) \o StringLayout(h, text)), NEW old
  PROVE  ReadObject(b, off, old) =
           IF There(b, off, SerializedSize([type |-> "object", val |-> old]))
           THEN Gives(off + 6 + Len(text), [number |-> n, text |-> Moved(b.host, h, text, old.text)])
           ELSE Throws(off)
<1> DEFINE s == ScalarLayout(h, n)
           u == StringLayout(h, text)
           number == ReadScalar(b, off, old.number)
           read == ReadString(b, number.off, old.text)
           m == Moved(b.host, h, text, old.text)
           q == off + 6 + Len(text)
<1>1. s \in Seq(Byte) /\ Len(s) = 4 /\ u \in Seq(Byte) /\ Len(text) \in Nat
  <2>1. n \in Nat /\ text \in Text
    BY DEF Text
  <2> QED BY <2>1, ScalarLength, StringLength
<1>2. At(b, off, s \o u) /\ off \in Nat
  BY DEF At, Readable
<1> HIDE DEF s, u
<1>3. At(b, off, s) /\ At(b, off + 4, u)
  BY <1>1, <1>2, AtParts
<1>4. number = Gives(off + 4, n)
  BY <1>3, ScalarIsRead DEF s
<1>5. number.res = "value" /\ number.off = off + 4 /\ number.val = n
  BY <1>4 DEF Gives
<1> HIDE DEF number
<1>6. ReadString(b, off + 4, old.text) = Gives((off + 4) + 2 + Len(text), m)
  BY <1>3, StringIsRead DEF u
<1>7. (off + 4) + 2 + Len(text) = q
  BY <1>1, <1>2
<1>8. read = Gives(q, m)
  BY <1>5, <1>6, <1>7
<1> HIDE DEF m, q, read
<1>9. read.res = "value" /\ read.off = q /\ read.val = m
  BY <1>8 DEF Gives
<1>10. ReadObject(b, off, old) =
         IF ~There(b, off, SerializedSize([type |-> "object", val |-> old])) THEN Throws(off)
         ELSE CASE number.res # "value" -> number
                [] number.res = "value" /\ read.res # "value" -> read
                [] OTHER -> Gives(read.off, [number |-> number.val, text |-> read.val])
  BY DEF ReadObject, number, read
<1> QED BY <1>5, <1>9, <1>10 DEF m, q

(* A file is read with its name, or, if it is empty, as no file.           *)
LEMMA FileIsRead ==
  ASSUME NEW b, NEW h, NEW off, NEW name \in Seq(Byte), NEW content \in Seq(Byte), name # <<>>,
         Len(name) <= 15, Len(content) <= 15,
         At(b, off, (StringLayout(h, name) \o SizeField(h, Len(content))) \o content), NEW opens
  PROVE  ReadFile(b, off, opens) =
           IF content = <<>> THEN Gives(off + 4 + Len(name), NoFile)
           ELSE IF ~opens THEN Throws(off + 4 + Len(name))
           ELSE Gives(off + 4 + Len(name) + Len(content),
                      [name |-> BinaryDeserialize(b.host, BinarySerialize(h, name)), content |-> content])
<1> DEFINE n == Len(name)
           m == Len(content)
           s == SizeField(h, n)
           u == BinarySerialize(h, name)
           x == SizeField(h, m)
<1>1. n \in 1 .. 15 /\ n \in Nat /\ m \in 0 .. 15 /\ m \in Nat /\ (m = 0 <=> content = <<>>)
  <2>1. n \in Nat /\ m \in Nat /\ n # 0 /\ n <= 15 /\ m <= 15 /\ (m = 0 <=> content = <<>>)
    OBVIOUS
  <2> HIDE DEF n, m
  <2> QED BY <2>1
<1>2. s \in Seq(Byte) /\ Len(s) = 2 /\ u \in Seq(Byte) /\ Len(u) = n /\ x \in Seq(Byte) /\ Len(x) = 2
  <2>1. u \in Seq(Byte) /\ Len(u) = n
    BY SerializeIs
  <2> HIDE DEF n, m, u
  <2> QED BY <1>1, <2>1, SizeFieldIs
<1>3. StringLayout(h, name) = s \o u
  BY DEF StringLayout
<1> DEFINE su == s \o u
           sux == su \o x
<1>4. su \in Seq(Byte) /\ Len(su) = 2 + n
  <2>1. s \o u \in Seq(Byte) /\ Len(s \o u) = Len(s) + Len(u)
    BY <1>2, JoinLength
  <2> QED BY <1>2, <2>1
<1>5. At(b, off, sux \o content) /\ off \in Nat
  BY <1>3 DEF At, Readable
<1>6. su = s \o u
  OBVIOUS
<1> HIDE DEF s, u, n, m, x, su
<1>7. sux \in Seq(Byte) /\ Len(sux) = 4 + n
  <2>1. su \o x \in Seq(Byte) /\ Len(su \o x) = Len(su) + Len(x)
    BY <1>2, <1>4, JoinLength
  <2> QED BY <1>1, <1>2, <1>4, <2>1
<1>8. sux = su \o x
  OBVIOUS
<1> HIDE DEF sux
<1>9. At(b, off, sux) /\ At(b, off + (4 + n), content)
  <2>1. At(b, off, sux) /\ At(b, off + Len(sux), content)
    BY <1>5, <1>7, AtParts
  <2> QED BY <1>7, <2>1
<1>10. At(b, off, su) /\ At(b, off + (2 + n), x)
  <2>1. At(b, off, su \o x)
    BY <1>8, <1>9
  <2>2. At(b, off, su) /\ At(b, off + Len(su), x)
    BY <1>2, <1>4, <2>1, AtParts
  <2> QED BY <1>4, <2>2
<1>11. At(b, off, s) /\ At(b, off + 2, u)
  <2>1. At(b, off, s \o u)
    BY <1>6, <1>10
  <2> QED BY <1>2, <2>1, AtParts
<1> DEFINE p == (off + 2) + n
           q == p + 2
<1>12. off + (2 + n) = p /\ off + (4 + n) = q /\ off + 4 + n = q /\ p \in Nat /\ q \in Nat
  BY <1>1, <1>5
<1>13. /\ There(b, off, SizeOfUnit) /\ off + SizeOfUnit = off + 2
       /\ NumberIn(b.host, Bytes(b, off, SizeOfUnit)) = n
  <2>1. n \in 0 .. 15
    BY <1>1
  <2> QED BY <1>11, <2>1, SizeIsRead DEF s
<1>14. There(b, off + 2, n) /\ Left(b, off + 2, n) /\ Bytes(b, off + 2, n) = BinaryDeserialize(b.host, u)
  BY <1>2, <1>11, AtBytes
<1> DEFINE N == BinaryDeserialize(b.host, u)
<1>15. ReadFile(b, off, opens) = FileRest(b, p, N, opens)
  BY <1>1, <1>13, <1>14 DEF ReadFile, Sized
<1>16. At(b, p, x) /\ At(b, q, content)
  BY <1>9, <1>10, <1>12
<1> HIDE DEF N
<1>17. There(b, p, SizeOfUnit) /\ p + SizeOfUnit = q /\ NumberIn(b.host, Bytes(b, p, SizeOfUnit)) = m
  <2> HIDE DEF p
  <2> QED BY <1>1, <1>16, SizeIsRead DEF x
<1>18. There(b, q, m) /\ Left(b, q, m) /\ SubSeq(b.data, q + 1, q + m) = content
  <2> HIDE DEF q
  <2> QED BY <1>16, AtBytes DEF m
<1> HIDE DEF p, q
<1>19. FileRest(b, p, N, opens) =
         IF m = 0 THEN Gives(q, NoFile)
         ELSE IF ~opens THEN Throws(q) ELSE Gives(q + m, [name |-> N, content |-> content])
  <2>1. FileRest(b, p, N, opens) =
          IF m = 0 THEN Gives(q, NoFile)
          ELSE IF ~Left(b, q, m) \/ ~opens THEN Throws(q)
          ELSE IF ~There(b, q, m) THEN Undefined(q)
          ELSE Gives(q + m, [name |-> N, content |-> SubSeq(b.data, q + 1, q + m)])
    BY <1>17 DEF FileRest, Sized
  <2>2. m = 0 \/ m > 0
    BY <1>1
  <2>3. CASE m = 0
    BY <2>1, <2>3
  <2>4. CASE m > 0 /\ ~opens
    BY <2>1, <2>4
  <2>5. CASE m > 0 /\ opens
    BY <1>18, <2>1, <2>5
  <2> QED BY <2>2, <2>3, <2>4, <2>5
<1> QED BY <1>1, <1>12, <1>15, <1>19 DEF N, u, n, m

(* What a read of a value written by h leaves in the variable on g, and the *)
(* bytes it takes.                                                         *)
What(g, h, v, old) ==
  CASE v.type = "scalar" -> v.val
    [] v.type = "string" -> Moved(g, h, v.val, old)
    [] v.type \in {"array", "vector", "vectors"} -> IF v.val = <<>> THEN old ELSE v.val
    [] v.type = "strings" ->
         IF v.val = <<>> THEN old
         ELSE [i \in 1 .. Len(v.val) |-> Moved(g, h, v.val[i], OldText(old, i))]
    [] v.type = "object" -> [number |-> v.val.number, text |-> Moved(g, h, v.val.text, old.text)]
    [] v.type = "file" ->
         IF v.val.content = <<>> THEN NoFile
         ELSE [name |-> BinaryDeserialize(g, BinarySerialize(h, v.val.name)), content |-> v.val.content]

Taken(v) == IF EmptyVector(v) THEN 2 ELSE SerializedSize(v)

(* What makes a read of a value that is there throw.                        *)
Refused(b, off, v, old, opens) ==
  \/ v.type = "object" /\ ~There(b, off, SerializedSize([type |-> "object", val |-> old]))
  \/ v.type = "file" /\ v.val.content # <<>> /\ ~opens

(***************************************************************************)
(* A read at the place of a value gives what the variable then holds and    *)
(* takes the bytes of the value, all of them but for an empty vector.       *)
(***************************************************************************)
THEOREM ReadIs ==
  ASSUME NEW b, NEW h, NEW off, NEW v \in Value, Len(b.data) <= 15, At(b, off, Image(h, v)),
         NEW old, v.type = "array" => old \in Seq(Number) /\ Len(old) = ArrayLength, NEW opens,
         ~Refused(b, off, v, old, opens)
  PROVE  ReadSingle(b, off, v.type, old, opens) = Gives(off + Taken(v), What(b.host, h, v, old))
<1> DEFINE size == SerializedSize(v)
           r == ReadSingle(b, off, v.type, old, opens)
<1>0. SizeOfUnit = 2 /\ SizeOfNumber = 2
  BY DEF SizeOfUnit, SizeOfNumber
<1>1. size \in Nat /\ off \in Nat /\ Len(b.data) \in Nat /\ off + size <= Len(b.data)
  <2>1. Image(h, v) \in Seq(Byte) /\ Len(Image(h, v)) = size
    BY SizeIsExact
  <2> HIDE DEF size
  <2> QED BY <2>1, AtBytes
<1>2. CASE v.type = "scalar"
  <2>1. v.val \in 0 .. 15 /\ At(b, off, ScalarLayout(h, v.val))
    BY <1>2, ValueIs, NumberIs DEF Image
  <2>2. ReadScalar(b, off, old) = Gives(off + 4, v.val)
    BY <2>1, ScalarIsRead
  <2>3. r = ReadScalar(b, off, old) /\ What(b.host, h, v, old) = v.val
    BY <1>2 DEF ReadSingle, What
  <2>4. Taken(v) = 4
    BY <1>0, <1>2 DEF Taken, EmptyVector, SerializedSize
  <2> QED BY <2>2, <2>3, <2>4
<1>3. CASE v.type = "string"
  <2>1. v.val \in Seq(Byte) /\ At(b, off, StringLayout(h, v.val)) /\ Len(v.val) \in Nat
    <3>1. v.val \in Seq(Byte)
      BY <1>3, ValueIs DEF Text
    <3> QED BY <1>3, <3>1 DEF Image
  <2>2. size = 2 + Len(v.val) /\ Taken(v) = size
    BY <1>0, <1>3 DEF Taken, EmptyVector, SerializedSize
  <2> DEFINE k == Len(v.val)
  <2>k. k \in Nat /\ size = 2 + k /\ Taken(v) = size
    BY <2>1, <2>2
  <2> HIDE DEF k, size
  <2>3. k <= 15 /\ off + Taken(v) = off + 2 + k
    BY <1>1, <2>k
  <2>4. ReadString(b, off, old) = Gives(off + 2 + Len(v.val), Moved(b.host, h, v.val, old))
    BY <2>1, <2>3, StringIsRead DEF k
  <2>5. r = ReadString(b, off, old) /\ What(b.host, h, v, old) = Moved(b.host, h, v.val, old)
    BY <1>3 DEF ReadSingle, What
  <2> HIDE DEF r
  <2> QED BY <2>3, <2>4, <2>5 DEF k, r
<1>4. ASSUME v.type \in {"array", "vector"}
      PROVE  /\ v.val \in Seq(0 .. 15) /\ At(b, off, VectorLayout(h, v.val)) /\ Len(v.val) \in Nat
             /\ Len(v.val) <= 15 /\ Len(v.val) <= Len(b.data)
             /\ off + Taken(v) = IF v.val = <<>> THEN off + 2 ELSE off + 4 + 2 * Len(v.val)
             /\ What(b.host, h, v, old) = IF v.val = <<>> THEN old ELSE v.val
  <2>1. v.val \in Seq(0 .. 15) /\ (v.type = "array" => Len(v.val) = ArrayLength)
    BY <1>4, ValueIs, NumberIs
  <2>2. Len(v.val) \in Nat
    BY <2>1
  <2>3. At(b, off, VectorLayout(h, v.val))
    BY <1>4 DEF Image
  <2> DEFINE k == Len(v.val)
  <2>4. size = 4 + 2 * k
    <3>1. size = 2 * 2 + 2 * k
      <4>1. CASE v.type = "array"
        BY <1>0, <2>1, <4>1 DEF SerializedSize
      <4>2. CASE v.type = "vector"
        BY <1>0, <4>2 DEF SerializedSize
      <4> QED BY <1>4, <4>1, <4>2
    <3>2. 2 * 2 = 4
      OBVIOUS
    <3> QED BY <3>1, <3>2
  <2>5. Taken(v) = IF v.val = <<>> THEN 2 ELSE size
    BY <1>4 DEF Taken, EmptyVector
  <2>6. What(b.host, h, v, old) = IF v.val = <<>> THEN old ELSE v.val
    BY <1>4 DEF What
  <2> HIDE DEF k, size
  <2>7. k <= 15 /\ k <= Len(b.data) /\ off + size = off + 4 + 2 * k
    <3>1. k \in Nat
      BY <2>2 DEF k
    <3> QED BY <1>1, <2>4, <3>1
  <2> QED BY <2>1, <2>2, <2>3, <2>5, <2>6, <2>7 DEF k
<1>5. CASE v.type = "array"
  <2>1. Len(v.val) = ArrayLength /\ old \in Seq(Number) /\ Len(old) = ArrayLength
    BY <1>5, ValueIs
  <2>2. ReadArray(b, off, old) =
          IF v.val = <<>> THEN Gives(off + 2, old) ELSE Gives(off + 4 + 2 * Len(v.val), v.val)
    BY <1>4, <1>5, <2>1, ArrayIsRead
  <2>3. r = ReadArray(b, off, old)
    BY <1>5 DEF ReadSingle
  <2> QED BY <1>4, <1>5, <2>2, <2>3
<1>6. CASE v.type = "vector"
  <2>1. ReadNumbers(b, off, old, Word) =
          IF v.val = <<>> THEN Gives(off + 2, old) ELSE Gives(off + 4 + 2 * Len(v.val), v.val)
    <3> DEFINE numbers == v.val
               room == Word
               e == ReadNumbers(b, off, old, room)
    <3>1. /\ numbers \in Seq(0 .. 15) /\ At(b, off, VectorLayout(h, numbers))
          /\ Len(numbers) <= 15 /\ e = ReadNumbers(b, off, old, room)
          /\ Len(numbers) \in Nat
      BY <1>1, <1>4, <1>6
    <3>w. room = 16
      BY DEF Word, Base, SizeOfUnit
    <3> HIDE DEF numbers, room, e
    <3>r. room \in Nat /\ Len(numbers) <= room
      BY <3>1, <3>w
    <3>2. ReadNumbers(b, off, old, room) =
            IF numbers = <<>> THEN Gives(off + 2, old) ELSE Gives(off + 4 + 2 * Len(numbers), numbers)
      BY <3>1, <3>r, NumbersAreRead
    <3> QED BY <3>2 DEF numbers, room
  <2>2. r = ReadNumbers(b, off, old, Word)
    BY <1>6 DEF ReadSingle, ReadVector
  <2> QED BY <1>4, <1>6, <2>1, <2>2
<1>7. CASE v.type = "vectors"
  <2>1. v.val \in Seq(Seq(0 .. 15)) /\ At(b, off, VectorsLayout(h, v.val))
    BY <1>7, ValueIs, NumberIs DEF Image
  <2>2. Len(VectorsLayout(h, v.val)) = size
    BY <1>7, SizeIsExact DEF Image
  <2>3. ReadVectors(b, off, old) =
          IF v.val = <<>> THEN Gives(off + 2, old) ELSE Gives(off + Len(VectorsLayout(h, v.val)), v.val)
    BY <2>1, VectorsAreRead
  <2>4. r = ReadVectors(b, off, old)
    BY <1>7 DEF ReadSingle
  <2>5. What(b.host, h, v, old) = IF v.val = <<>> THEN old ELSE v.val
    BY <1>7 DEF What
  <2>6. Taken(v) = IF v.val = <<>> THEN 2 ELSE size
    BY <1>7 DEF Taken, EmptyVector
  <2> HIDE DEF size, r
  <2> QED BY <2>2, <2>3, <2>4, <2>5, <2>6 DEF r
<1>8. CASE v.type = "strings"
  <2> DEFINE moved == [i \in 1 .. Len(v.val) |-> Moved(b.host, h, v.val[i], OldText(old, i))]
             w == TextFields(h, v.val)
  <2>1. v.val \in Seq(Seq(Byte)) /\ At(b, off, SizeField(h, Len(v.val)) \o w)
    BY <1>8, ValueIs DEF Image, Text
  <2>2. ReadStrings(b, off, old) = IF v.val = <<>> THEN Gives(off + 2, old) ELSE Gives(off + 2 + Len(w), moved)
    <3> DEFINE texts == v.val
    <3>1. texts \in Seq(Seq(Byte)) /\ At(b, off, SizeField(h, Len(texts)) \o TextFields(h, texts))
      BY <2>1
    <3> HIDE DEF texts
    <3>2. ReadStrings(b, off, old) =
            IF texts = <<>> THEN Gives(off + 2, old)
            ELSE Gives(off + 2 + Len(TextFields(h, texts)),
                       [i \in 1 .. Len(texts) |-> Moved(b.host, h, texts[i], OldText(old, i))])
      BY <3>1, StringsAreRead
    <3> QED BY <3>2 DEF texts
  <2>3. r = ReadStrings(b, off, old) /\ What(b.host, h, v, old) = IF v.val = <<>> THEN old ELSE moved
    BY <1>8 DEF ReadSingle, What
  <2>4. Taken(v) = size
    BY <1>8 DEF Taken, EmptyVector
  <2>5. w \in Seq(Byte) /\ Len(w) \in Nat
    <3>1. v.val \in Seq(Text)
      BY <1>8, ValueIs
    <3>2. w \in Seq(Byte)
      BY <3>1, TextFieldsLength
    <3> HIDE DEF w
    <3> QED BY <3>2
  <2>6. size = 2 + Len(w)
    <3>1. Image(h, v) = SizeField(h, Len(v.val)) \o w
      BY <1>8 DEF Image
    <3>2. Len(Image(h, v)) = size
      BY SizeIsExact
    <3>3. SizeField(h, Len(v.val)) \in Seq(Byte) /\ Len(SizeField(h, Len(v.val))) = 2
      <4>1. Len(v.val) \in Nat
        BY <2>1
      <4> QED BY <4>1, SizeFieldIs
    <3> HIDE DEF w, size
    <3>4. Len(SizeField(h, Len(v.val)) \o w) = 2 + Len(w)
      BY <2>5, <3>3, JoinLength
    <3> QED BY <3>1, <3>2, <3>4
  <2>7. v.val = <<>> => w = <<>>
    <3>1. [i \in DOMAIN <<>> |-> StringLayout(h, <<>>[i])] = <<>>
      OBVIOUS
    <3> QED BY <3>1, FlattenEmpty DEF TextFields
  <2>8. off + Taken(v) = off + 2 + Len(w) /\ (v.val = <<>> => off + Taken(v) = off + 2)
    <3>1. Len(<<>>) = 0
      OBVIOUS
    <3> HIDE DEF w, size
    <3> QED BY <1>1, <2>4, <2>5, <2>6, <2>7, <3>1
  <2> HIDE DEF moved, w, r
  <2> QED BY <2>2, <2>3, <2>8 DEF r
<1>9. CASE v.type = "object"
  <2> DEFINE n == v.val.number
             text == v.val.text
             m == [number |-> n, text |-> Moved(b.host, h, text, old.text)]
  <2>1. n \in 0 .. 15 /\ text \in Seq(Byte)
    BY <1>9, ValueIs, NumberIs DEF Text
  <2>2. Len(text) \in Nat /\ At(b, off, ScalarLayout(h, n) \o StringLayout(h, text))
    BY <1>9, <2>1 DEF Image
  <2>3. size = 2 + 2 + 2 + Len(text) /\ Taken(v) = size
    BY <1>0, <1>9 DEF Taken, EmptyVector, SerializedSize
  <2>4. r = ReadObject(b, off, old) /\ What(b.host, h, v, old) = m
    BY <1>9 DEF ReadSingle, What
  <2>5. There(b, off, SerializedSize([type |-> "object", val |-> old]))
    BY <1>9 DEF Refused
  <2> HIDE DEF n, text, size, r
  <2>6. Len(text) <= 15 /\ off + Taken(v) = off + 6 + Len(text)
    BY <1>1, <2>2, <2>3
  <2>7. ReadObject(b, off, old) = Gives(off + 6 + Len(text), m)
    BY <2>1, <2>2, <2>5, <2>6, ObjectIsRead
  <2> QED BY <2>4, <2>6, <2>7 DEF r
<1>10. CASE v.type = "file"
  <2> DEFINE name == v.val.name
             content == v.val.content
             m == [name |-> BinaryDeserialize(b.host, BinarySerialize(h, name)), content |-> content]
  <2>1. name \in Seq(Byte) /\ content \in Seq(Byte) /\ name # <<>>
    BY <1>10, ValueIs DEF Text
  <2>2. /\ Len(name) \in Nat /\ Len(content) \in Nat
        /\ At(b, off, (StringLayout(h, name) \o SizeField(h, Len(content))) \o content)
    BY <1>10, <2>1 DEF Image, FileLayout
  <2>3. size = 2 * 2 + Len(name) + Len(content) /\ Taken(v) = size
    BY <1>0, <1>10 DEF Taken, EmptyVector, SerializedSize
  <2>4. r = ReadFile(b, off, opens) /\ What(b.host, h, v, old) = IF content = <<>> THEN NoFile ELSE m
    BY <1>10 DEF ReadSingle, What
  <2>5. content = <<>> \/ opens
    BY <1>10 DEF Refused
  <2>6. content = <<>> => Len(content) = 0
    OBVIOUS
  <2> HIDE DEF name, content, size, r
  <2>7. /\ Len(name) <= 15 /\ Len(content) <= 15
        /\ off + Taken(v) = off + 4 + Len(name) + Len(content)
        /\ content = <<>> => off + Taken(v) = off + 4 + Len(name)
    BY <1>1, <2>2, <2>3, <2>6
  <2>8. ReadFile(b, off, opens) =
          IF content = <<>> THEN Gives(off + 4 + Len(name), NoFile)
          ELSE IF ~opens THEN Throws(off + 4 + Len(name)) ELSE Gives(off + 4 + Len(name) + Len(content), m)
    BY <2>1, <2>2, <2>7, FileIsRead
  <2> HIDE DEF m
  <2> QED BY <2>4, <2>5, <2>7, <2>8 DEF r
<1>11. v.type \in Type
  BY ValueIs
<1> QED BY <1>2, <1>3, <1>5, <1>6, <1>7, <1>8, <1>9, <1>10, <1>11 DEF Type

(* No value is written without bytes.                                       *)
LEMMA SizeAtLeastTwo ==
  ASSUME NEW v \in Value
  PROVE  SerializedSize(v) \in Nat /\ SerializedSize(v) >= 2
<1> DEFINE h == "LT_ENDIAN"
           all == Image(h, v)
<1>0. SizeOfUnit = 2 /\ SizeOfNumber = 2
  BY DEF SizeOfUnit, SizeOfNumber
<1>1. all \in Seq(Byte) /\ Len(all) = SerializedSize(v)
  BY SizeIsExact
<1>2. Len(all) \in Nat
  <2> HIDE DEF all
  <2> QED BY <1>1
<1> HIDE DEF all
<1>3. CASE v.type = "scalar"
  BY <1>0, <1>3 DEF SerializedSize
<1>4. CASE v.type = "string"
  <2>1. SerializedSize(v) = 2 + Len(v.val) /\ v.val \in Seq(Byte)
    BY <1>0, <1>4, ValueIs DEF SerializedSize, Text
  <2>2. Len(v.val) \in Nat
    BY <2>1
  <2> QED BY <2>1, <2>2
<1>5. CASE v.type = "array"
  <2>1. SerializedSize(v) = 2 * 2 + 2 * ArrayLength
    BY <1>0, <1>5 DEF SerializedSize
  <2> QED BY <2>1, SizeAssumption
<1>6. CASE v.type = "vector"
  <2>1. SerializedSize(v) = 2 * 2 + 2 * Len(v.val) /\ v.val \in Seq(Number)
    BY <1>0, <1>6, ValueIs DEF SerializedSize
  <2>2. Len(v.val) \in Nat
    BY <2>1
  <2> QED BY <2>1, <2>2
<1>7. CASE v.type = "vectors"
  <2> DEFINE s == [i \in DOMAIN v.val |-> InnerSize(v.val[i])]
  <2>1. SerializedSize(v) = 4 + Total(s)
    BY <1>0, <1>7 DEF SerializedSize
  <2>2. v.val \in Seq(Seq(Nat))
    BY <1>7, ValueIs, NumbersAreNat
  <2>3. s \in Seq(Nat)
    <3>1. Len(v.val) \in Nat /\ DOMAIN v.val = 1 .. Len(v.val) /\ \A i \in DOMAIN v.val : v.val[i] \in Seq(Nat)
      BY <2>2
    <3>2. \A i \in DOMAIN v.val : Len(v.val[i]) \in Nat
      BY <3>1
    <3>3. \A i \in DOMAIN v.val : InnerSize(v.val[i]) \in Nat
      BY <1>0, <3>2 DEF InnerSize
    <3> QED BY <3>1, <3>3
  <2> HIDE DEF s
  <2>4. Total(s) \in Nat
    <3>1. s \in Seq(Nat) /\ <<>> \in Seq(Nat)
      BY <2>3
    <3> QED BY <3>1, TotalConcat
  <2> QED BY <2>1, <2>4
<1>8. CASE v.type = "strings"
  <2> DEFINE n == Total([i \in DOMAIN v.val |-> SizeOfUnit + Len(v.val[i])])
             b == TextFields(h, v.val)
  <2>1. SerializedSize(v) = 2 + n
    BY <1>0, <1>8 DEF SerializedSize
  <2>2. b \in Seq(Byte) /\ Len(b) = n
    <3>1. v.val \in Seq(Text)
      BY <1>8, ValueIs
    <3> QED BY <3>1, TextFieldsLength
  <2> HIDE DEF n, b
  <2>3. Len(b) \in Nat
    BY <2>2
  <2> QED BY <2>1, <2>2, <2>3
<1>9. CASE v.type = "object"
  <2>1. SerializedSize(v) = 2 + 2 + 2 + Len(v.val.text) /\ v.val.text \in Seq(Byte)
    BY <1>0, <1>9, ValueIs DEF SerializedSize, Text
  <2>2. Len(v.val.text) \in Nat
    BY <2>1
  <2> QED BY <2>1, <2>2
<1>10. CASE v.type = "file"
  <2>1. /\ SerializedSize(v) = 2 * 2 + Len(v.val.name) + Len(v.val.content)
        /\ v.val.name \in Seq(Byte) /\ v.val.content \in Seq(Byte)
    BY <1>0, <1>10, ValueIs DEF SerializedSize, Text
  <2> DEFINE k == Len(v.val.name)
             m == Len(v.val.content)
  <2>2. k \in Nat /\ m \in Nat
    BY <2>1
  <2>3. SerializedSize(v) = 2 * 2 + k + m
    BY <2>1
  <2> HIDE DEF k, m
  <2> QED BY <2>2, <2>3
<1>11. v.type \in Type
  BY ValueIs
<1> QED BY <1>1, <1>2, <1>3, <1>4, <1>5, <1>6, <1>7, <1>8, <1>9, <1>10, <1>11 DEF Type

(* A file that cannot be written, an object that is too large: an exception. *)
LEMMA RefusedThrows ==
  ASSUME NEW b, NEW h, NEW off, NEW v \in Value, Len(b.data) <= 15, At(b, off, Image(h, v)),
         NEW old, NEW opens, Refused(b, off, v, old, opens)
  PROVE  ReadSingle(b, off, v.type, old, opens).res = "throws"
<1>1. CASE v.type = "object" /\ ~There(b, off, SerializedSize([type |-> "object", val |-> old]))
  <2>1. ReadSingle(b, off, v.type, old, opens) = Throws(off)
    BY <1>1 DEF ReadSingle, ReadObject
  <2> QED BY <2>1 DEF Throws
<1>2. CASE v.type = "file" /\ v.val.content # <<>> /\ ~opens
  <2> DEFINE name == v.val.name
             content == v.val.content
             size == SerializedSize(v)
  <2>1. name \in Seq(Byte) /\ content \in Seq(Byte) /\ name # <<>> /\ content # <<>>
    BY <1>2, ValueIs DEF Text
  <2>2. /\ Len(name) \in Nat /\ Len(content) \in Nat
        /\ At(b, off, (StringLayout(h, name) \o SizeField(h, Len(content))) \o content)
    BY <1>2, <2>1 DEF Image, FileLayout
  <2>3. size = 2 * 2 + Len(name) + Len(content)
    BY <1>2 DEF SerializedSize, SizeOfUnit
  <2>4. size \in Nat /\ off \in Nat /\ Len(b.data) \in Nat /\ off + size <= Len(b.data)
    <3>1. Image(h, v) \in Seq(Byte) /\ Len(Image(h, v)) = size
      BY SizeIsExact
    <3> HIDE DEF size
    <3> QED BY <3>1, AtBytes
  <2> HIDE DEF name, content, size
  <2>5. Len(name) <= 15 /\ Len(content) <= 15
    BY <2>2, <2>3, <2>4
  <2> DEFINE m == [name |-> BinaryDeserialize(b.host, BinarySerialize(h, name)), content |-> content]
  <2>6. ReadFile(b, off, opens) =
          IF content = <<>> THEN Gives(off + 4 + Len(name), NoFile)
          ELSE IF ~opens THEN Throws(off + 4 + Len(name)) ELSE Gives(off + 4 + Len(name) + Len(content), m)
    BY <2>1, <2>2, <2>5, FileIsRead
  <2>7. ReadSingle(b, off, v.type, old, opens) = ReadFile(b, off, opens)
    BY <1>2 DEF ReadSingle
  <2> HIDE DEF m
  <2> QED BY <1>2, <2>1, <2>6, <2>7 DEF Throws
<1> QED BY <1>1, <1>2 DEF Refused

(* Past the last value, every read throws and stays.                        *)
LEMMA NothingLeft ==
  ASSUME NEW b, b.data \in Seq(Byte), NEW off, off = Len(b.data), NEW type \in Type, NEW opens,
         NEW old, type = "object" => old.text \in Seq(Byte)
  PROVE  ReadSingle(b, off, type, old, opens) = Throws(off)
<1>1. ~There(b, off, SizeOfUnit)
  <2>1. Len(b.data) \in Nat
    OBVIOUS
  <2> QED BY <2>1 DEF There, SizeOfUnit
<1>2. CASE type = "object"
  <2> DEFINE size == SerializedSize([type |-> "object", val |-> old])
  <2> DEFINE k == Len(old.text)
  <2>1. size = 2 + 2 + 2 + k
    BY DEF SerializedSize, SizeOfUnit, SizeOfNumber
  <2>2. k \in Nat
    BY <1>2
  <2> HIDE DEF size, k
  <2>3. ~There(b, off, size)
    <3> DEFINE d == Len(b.data)
    <3>1. d \in Nat /\ off = d
      OBVIOUS
    <3> HIDE DEF d
    <3>2. size = 6 + k
      BY <2>1, <2>2
    <3>3. d + (6 + k) > d
      BY <2>2, <3>1
    <3>4. ~(off + size <= d)
      BY <2>2, <3>1, <3>2, <3>3
    <3> QED BY <3>4 DEF There, d
  <2> QED BY <1>2, <2>3 DEF ReadSingle, ReadObject, size
<1>3. ReadNumbers(b, off, old, ArrayLength) = Throws(off) /\ ReadNumbers(b, off, old, Word) = Throws(off)
  BY <1>1 DEF ReadNumbers, Sized
<1>4. CASE type = "array"
  <2>1. ReadArray(b, off, old) = Throws(off)
    BY <1>3 DEF ReadArray, Throws
  <2> QED BY <1>4, <2>1 DEF ReadSingle
<1>5. CASE type = "vector"
  BY <1>3, <1>5 DEF ReadSingle, ReadVector
<1>6. CASE type \in {"scalar", "string", "vectors", "strings", "file"}
  BY <1>1, <1>6 DEF ReadSingle, ReadScalar, ReadString, ReadVectors, ReadStrings, ReadFile, Sized
<1> QED BY <1>2, <1>4, <1>5, <1>6 DEF Type
-----------------------------------------------------------------------------
(* Where each value is.                                                     *)
LEMMA SplitAt ==
  ASSUME NEW B, NEW s \in Seq(B), NEW k \in 1 .. Len(s)
  PROVE  /\ SubSeq(s, 1, k - 1) \in Seq(B) /\ SubSeq(s, k + 1, Len(s)) \in Seq(B) /\ <<s[k]>> \in Seq(B)
         /\ SubSeq(s, 1, k) = SubSeq(s, 1, k - 1) \o <<s[k]>>
         /\ s = (SubSeq(s, 1, k - 1) \o <<s[k]>>) \o SubSeq(s, k + 1, Len(s))
<1> DEFINE n == Len(s)
           x == SubSeq(s, 1, k - 1)
           e == <<s[k]>>
           y == SubSeq(s, k + 1, n)
           xe == SubSeq(s, 1, k)
<1>1. n \in Nat /\ k \in Nat /\ k >= 1 /\ k <= n /\ k - 1 \in Nat
  OBVIOUS
<1>2. x \in Seq(B) /\ Len(x) = k - 1 /\ \A i \in 1 .. k - 1 : x[i] = s[i]
  BY <1>1
<1>3. xe \in Seq(B) /\ Len(xe) = k /\ \A i \in 1 .. k : xe[i] = s[i]
  BY <1>1
<1>4. y \in Seq(B) /\ Len(y) = n - k /\ \A i \in 1 .. n - k : y[i] = s[k + i]
  BY <1>1
<1>5. s[k] \in B /\ e \in Seq(B) /\ Len(e) = 1 /\ e[1] = s[k]
  BY <1>1
<1> HIDE DEF x, y, xe, e, n
<1>6. x \o e \in Seq(B) /\ Len(x \o e) = k
  <2>1. x \o e \in Seq(B) /\ Len(x \o e) = Len(x) + Len(e)
    BY <1>2, <1>5, JoinLength
  <2> QED BY <1>1, <1>2, <1>5, <2>1
<1>7. x \o e = xe
  <2> DEFINE z == x \o e
  <2>1. z = [i \in 1 .. Len(x) + Len(e) |-> IF i <= Len(x) THEN x[i] ELSE e[i - Len(x)]]
    BY <1>2, <1>5, JoinIs
  <2>2. z \in Seq(B) /\ Len(z) = k
    BY <1>6
  <2> HIDE DEF z
  <2>3. \A i \in 1 .. k : z[i] = xe[i]
    <3> SUFFICES ASSUME NEW i \in 1 .. k PROVE z[i] = xe[i]
      OBVIOUS
    <3>1. z[i] = IF i <= k - 1 THEN x[i] ELSE e[i - (k - 1)]
      BY <1>1, <1>2, <1>5, <2>1
    <3>2. CASE i <= k - 1
      <4>1. i \in 1 .. k - 1
        BY <1>1, <3>2
      <4> QED BY <1>2, <1>3, <3>1, <3>2, <4>1
    <3>3. CASE i = k
      <4>1. i - (k - 1) = 1 /\ ~(i <= k - 1)
        BY <1>1, <3>3
      <4> QED BY <1>3, <1>5, <3>1, <3>3, <4>1
    <3>4. i <= k - 1 \/ i = k
      BY <1>1
    <3> QED BY <3>2, <3>3, <3>4
  <2>4. z = xe
    BY <1>3, <2>2, <2>3
  <2> QED BY <2>4 DEF z
<1>8. s = xe \o y
  <2> DEFINE z == xe \o y
  <2>1. z = [i \in 1 .. Len(xe) + Len(y) |-> IF i <= Len(xe) THEN xe[i] ELSE y[i - Len(xe)]]
    BY <1>3, <1>4, JoinIs
  <2>2. z \in Seq(B) /\ Len(z) = Len(xe) + Len(y)
    BY <1>3, <1>4, JoinLength
  <2>3. Len(z) = n
    BY <1>1, <1>3, <1>4, <2>2
  <2> HIDE DEF z
  <2>4. \A i \in 1 .. n : z[i] = s[i]
    <3> SUFFICES ASSUME NEW i \in 1 .. n PROVE z[i] = s[i]
      OBVIOUS
    <3>1. z[i] = IF i <= k THEN xe[i] ELSE y[i - k]
      BY <1>1, <1>3, <1>4, <2>1
    <3>2. CASE i <= k
      <4>1. i \in 1 .. k
        BY <1>1, <3>2
      <4> QED BY <1>3, <3>1, <3>2, <4>1
    <3>3. CASE ~(i <= k)
      <4>1. i - k \in 1 .. n - k /\ k + (i - k) = i
        BY <1>1, <3>3
      <4> QED BY <1>4, <3>1, <3>3, <4>1
    <3> QED BY <3>2, <3>3
  <2>5. z = s
    <3>1. s \in Seq(B) /\ Len(s) = n
      BY DEF n
    <3> QED BY <2>2, <2>3, <2>4, <3>1
  <2> QED BY <2>5 DEF z
<1> QED BY <1>2, <1>4, <1>5, <1>7, <1>8 DEF x, y, xe, e, n

(* The place after the first k values.                                      *)
Place(w, k) == SerializedSizes(ValuesOf(SubSeq(w, 1, k)))

(* The bytes of one value in the buffer.                                   *)
LEMMA OneImage ==
  ASSUME NEW e \in Entry
  PROVE  <<e>> \in Seq(Entry) /\ Images(<<e>>) = Image(e.host, e.value) /\ Image(e.host, e.value) \in Seq(Byte)
<1>1. [i \in DOMAIN <<e>> |-> Image(<<e>>[i].host, <<e>>[i].value)] = <<Image(e.host, e.value)>>
  OBVIOUS
<1>2. Image(e.host, e.value) \in Seq(Byte)
  <2>1. e.value \in Value
    BY DEF Entry
  <2> QED BY <2>1, SizeIsExact
<1>3. FlattenSeq(<<Image(e.host, e.value)>>) = Image(e.host, e.value)
  BY <1>2, FlattenOne
<1> QED BY <1>1, <1>2, <1>3 DEF Images

(* The next value is at the place after those before it, and its size      *)
(* leads to the place of the one after it.                                 *)
LEMMA PlaceIs ==
  ASSUME NEW w \in Seq(Entry), NEW b, b.data = Images(w), Len(b.data) <= 15, NEW k \in 1 .. Len(w)
  PROVE  /\ Place(w, k - 1) \in Nat
         /\ At(b, Place(w, k - 1), Image(w[k].host, w[k].value))
         /\ Place(w, k) = Place(w, k - 1) + SerializedSize(w[k].value)
<1> DEFINE x == SubSeq(w, 1, k - 1)
           e == w[k]
           y == SubSeq(w, k + 1, Len(w))
           xe == x \o <<e>>
           i == Image(e.host, e.value)
<1>1. /\ x \in Seq(Entry) /\ y \in Seq(Entry) /\ <<e>> \in Seq(Entry) /\ e \in Entry
      /\ SubSeq(w, 1, k) = xe /\ w = xe \o y /\ w \in Seq(Entry)
  <2>1. /\ SubSeq(w, 1, k - 1) \in Seq(Entry) /\ SubSeq(w, k + 1, Len(w)) \in Seq(Entry) /\ <<w[k]>> \in Seq(Entry)
        /\ SubSeq(w, 1, k) = SubSeq(w, 1, k - 1) \o <<w[k]>>
        /\ w = (SubSeq(w, 1, k - 1) \o <<w[k]>>) \o SubSeq(w, k + 1, Len(w))
    BY SplitAt, Zenon
  <2>2. w[k] \in Entry
    OBVIOUS
  <2>3. SubSeq(w, 1, k) = xe /\ w = xe \o y
    BY <2>1, Zenon
  <2> QED BY <2>1, <2>2, <2>3, Zenon
<1>2. Place(w, k - 1) = SerializedSizes(ValuesOf(x)) /\ Place(w, k) = SerializedSizes(ValuesOf(xe))
  BY <1>1 DEF Place
<1>3. xe = x \o <<e>>
  OBVIOUS
<1> HIDE DEF x, y, e, xe
<1>4. xe \in Seq(Entry)
  BY <1>1, <1>3, JoinLength
<1>5. Images(<<e>>) = i /\ i \in Seq(Byte)
  BY <1>1, OneImage
<1>6. Images(xe) = Images(x) \o i
  BY <1>1, <1>3, <1>5, ImagesConcat
<1>7. Images(w) = Images(xe) \o Images(y)
  BY <1>1, <1>4, ImagesConcat
<1>8. /\ Images(x) \in Seq(Byte) /\ Len(Images(x)) = Place(w, k - 1)
      /\ Images(xe) \in Seq(Byte) /\ Len(Images(xe)) = Place(w, k)
      /\ Images(y) \in Seq(Byte) /\ Images(w) \in Seq(Byte)
  BY <1>1, <1>2, <1>4, ImagesParts
<1>9. Len(i) = SerializedSize(e.value)
  <2>1. e.value \in Value
    BY <1>1 DEF Entry
  <2> QED BY <2>1, SizeIsExact
<1> HIDE DEF i
<1> DEFINE X == Images(x)
           XE == Images(xe)
           Y == Images(y)
<1>10. /\ X \in Seq(Byte) /\ XE \in Seq(Byte) /\ Y \in Seq(Byte) /\ XE = X \o i
       /\ b.data = XE \o Y /\ Len(X) = Place(w, k - 1) /\ Len(XE) = Place(w, k)
  BY <1>6, <1>7, <1>8
<1> HIDE DEF X, XE, Y
<1>11. Len(XE) = Len(X) + Len(i) /\ Len(X) \in Nat
  BY <1>5, <1>10, JoinLength
<1>12. At(b, 0, XE \o Y)
  <2> DEFINE d == XE \o Y
  <2>1. d \in Seq(Byte) /\ b.data = d /\ Len(d) <= 15
    BY <1>10, JoinLength
  <2> HIDE DEF d
  <2>2. Len(d) \in Nat /\ 0 + Len(d) = Len(d) /\ \A j \in 1 .. Len(d) : 0 + j = j
    BY <2>1
  <2>3. At(b, 0, d)
    BY <2>1, <2>2 DEF At, Readable
  <2> QED BY <2>3 DEF d
<1>13. At(b, 0, XE)
  BY <1>10, <1>12, AtParts
<1>14. At(b, 0 + Len(X), i)
  <2>1. At(b, 0, X \o i)
    BY <1>10, <1>13
  <2> QED BY <1>5, <1>10, <2>1, AtParts
<1>15. 0 + Len(X) = Len(X)
  BY <1>11
<1> QED BY <1>9, <1>10, <1>11, <1>14, <1>15 DEF i, e

(* The first place is the begin of the buffer, the last its end.           *)
LEMMA PlaceAtTheEnds ==
  ASSUME NEW w \in Seq(Entry)
  PROVE  Place(w, 0) = 0 /\ Place(w, Len(w)) = Len(Images(w))
<1>1. SubSeq(w, 1, Len(w)) = w
  OBVIOUS
<1>2. SubSeq(w, 1, 0) = <<>>
  OBVIOUS
<1>3. [i \in DOMAIN <<>> |-> <<>>[i].value] = <<>> /\ [i \in DOMAIN <<>> |-> SerializedSize(<<>>[i])] = <<>>
  OBVIOUS
<1>4. ValuesOf(<<>>) = <<>>
  BY <1>3 DEF ValuesOf
<1>5. SerializedSizes(<<>>) = 0
  BY <1>3, TotalEmpty DEF SerializedSizes
<1>6. Place(w, 0) = 0
  BY <1>2, <1>4, <1>5 DEF Place
<1>7. SerializedSizes(ValuesOf(w)) = Len(Images(w))
  BY ImagesParts
<1> QED BY <1>1, <1>6, <1>7 DEF Place
-----------------------------------------------------------------------------
(* The read position, while every value before it was read whole.           *)
Clear == ~lost /\ \A i \in 1 .. next - 1 : ~EmptyVector(written[i].value)
Cursor == Clear => offset = Place(written, next - 1)
ReaderInv == WriterInv /\ Cursor

(* What is written later changes nothing of what is there.                 *)
LEMMA SameBeginning ==
  ASSUME NEW B, NEW w \in Seq(B), NEW x \in Seq(B), NEW k \in 0 .. Len(w)
  PROVE  /\ SubSeq(w \o x, 1, k) = SubSeq(w, 1, k)
         /\ \A i \in 1 .. k : (w \o x)[i] = w[i]
<1> DEFINE n == Len(w)
           wx == w \o x
           a == SubSeq(wx, 1, k)
           c == SubSeq(w, 1, k)
<1>1. n \in Nat /\ Len(x) \in Nat /\ k \in Nat /\ k <= n
  OBVIOUS
<1>2. wx \in Seq(B) /\ Len(wx) = n + Len(x) /\ \A i \in 1 .. n : wx[i] = w[i]
  OBVIOUS
<1> HIDE DEF wx
<1>3. a \in Seq(B) /\ Len(a) = k /\ \A i \in 1 .. k : a[i] = wx[i]
  BY <1>1, <1>2
<1>4. c \in Seq(B) /\ Len(c) = k /\ \A i \in 1 .. k : c[i] = w[i]
  BY <1>1
<1> HIDE DEF a, c, n
<1>5. \A i \in 1 .. k : i \in 1 .. n
  BY <1>1
<1>6. \A i \in 1 .. k : a[i] = c[i]
  BY <1>2, <1>3, <1>4, <1>5
<1>7. a = c
  BY <1>3, <1>4, <1>6
<1> QED BY <1>2, <1>5, <1>7 DEF a, c, wx

(* A SizeUnit holds the size of the buffer, so that of every value.        *)
LEMMA SizeBound == MaxSize \in Nat /\ MaxSize <= 15
<1>1. 4 ^ 2 - 1 = 15
  OBVIOUS
<1> QED BY <1>1, SizeAssumption DEF Base, SizeOfUnit

(* What a reader finds.                                                     *)
LEMMA WhatIsThere ==
  ASSUME OneWriter, WriterInv, Idle
  PROVE  /\ data = Images(written) /\ data \in Seq(Byte) /\ written \in Seq(Entry)
         /\ Len(data) <= 15 /\ Len(data) \in Nat
         /\ Buffer.data = data /\ Buffer.host = host /\ next \in 1 .. Len(written) + 1
<1>1. PICK t : Thread = {t}
  BY DEF OneWriter
<1>2. t \in Thread /\ todo[t] = <<>>
  BY <1>1 DEF Idle
<1>3. data = Images(written)
  BY <1>2, LayoutWhenIdle DEF WriterInv, Layout
<1>4. data \in Seq(Byte) /\ written \in Seq(Entry) /\ Len(data) \in Nat /\ next \in 1 .. Len(written) + 1
  BY DEF WriterInv, Typed
<1>5. Len(data) + Len(Content(todo[t])) <= MaxSize
  BY <1>2 DEF WriterInv, Bounded
<1>6. Len(Content(<<>>)) = 0
  BY ContentEmpty
<1>7. Len(data) <= 15
  BY <1>2, <1>4, <1>5, <1>6, SizeBound
<1> QED BY <1>3, <1>4, <1>7 DEF Buffer

(* What a variable holds before a read is of its type.                     *)
LEMMA TargetIs ==
  ASSUME NEW type \in Type, NEW old \in Targets(type)
  PROVE  /\ type = "array" => old \in Seq(Number) /\ Len(old) = ArrayLength
         /\ type = "object" => old.text \in Seq(Byte)
<1>1. CASE old = Fresh(type)
  <2>1. type = "object" => old.text = <<>>
    BY <1>1 DEF Fresh
  <2>2. ASSUME type = "array" PROVE old \in Seq(Number) /\ Len(old) = ArrayLength
    <3>1. old = [i \in 1 .. ArrayLength |-> 0]
      BY <1>1, <2>2 DEF Fresh
    <3>2. 0 \in Number /\ ArrayLength \in Nat
      BY NumberIs, SizeAssumption
    <3> QED BY <3>1, <3>2
  <2>3. <<>> \in Seq(Byte)
    OBVIOUS
  <2> QED BY <2>1, <2>2, <2>3
<1>2. CASE old # Fresh(type)
  <2>1. PICK v \in Value : v.type = type /\ old = v.val
    BY <1>2 DEF Targets
  <2> QED BY <2>1, ValueIs DEF Text
<1> QED BY <1>1, <1>2

(* The value that is due.                                                   *)
LEMMA DueIs ==
  ASSUME OneWriter, ReaderInv, Idle, Clear, next <= Len(written)
  PROVE  LET w == written[next]
         IN /\ w.value \in Value /\ w.host \in Host
            /\ At(Buffer, offset, Image(w.host, w.value)) /\ Len(Buffer.data) <= 15
            /\ offset \in Nat /\ offset = Place(written, next - 1)
            /\ Place(written, next) = offset + SerializedSize(w.value)
<1>1. next \in 1 .. Len(written) /\ written \in Seq(Entry) /\ Buffer.data = Images(written) /\ Len(Buffer.data) <= 15
  BY WhatIsThere DEF ReaderInv
<1>2. offset = Place(written, next - 1)
  BY DEF ReaderInv, Cursor
<1>3. /\ Place(written, next - 1) \in Nat
      /\ At(Buffer, Place(written, next - 1), Image(written[next].host, written[next].value))
      /\ Place(written, next) = Place(written, next - 1) + SerializedSize(written[next].value)
  BY <1>1, PlaceIs
<1>4. written[next] \in Entry
  BY <1>1
<1>5. written[next].value \in Value /\ written[next].host \in Host
  BY <1>4 DEF Entry
<1> QED BY <1>1, <1>2, <1>3, <1>5

(* After the last value.                                                   *)
LEMMA AllIsRead ==
  ASSUME OneWriter, ReaderInv, Idle, Clear, next > Len(written)
  PROVE  offset = Len(data) /\ next = Len(written) + 1
<1>1. data = Images(written) /\ written \in Seq(Entry) /\ next \in 1 .. Len(written) + 1
  BY WhatIsThere DEF ReaderInv
<1>2. next = Len(written) + 1 /\ next - 1 = Len(written)
  <2>1. Len(written) \in Nat
    BY <1>1
  <2> QED BY <1>1, <2>1
<1>3. offset = Place(written, next - 1)
  BY DEF ReaderInv, Cursor
<1> QED BY <1>1, <1>2, <1>3, PlaceAtTheEnds

(* A read leads to the place of the next value, or throws and stays.       *)
LEMMA CursorRead ==
  ASSUME OneWriter, ReaderInv, NEW type \in Type, NEW opens, NEW old \in Targets(type), Read(type, old, opens)
  PROVE  Cursor'
<1> DEFINE r == ReadSingle(Buffer, offset, type, old, opens)
           w == written[next]
           v == w.value
<1>1. /\ Idle /\ ~lost /\ offset' = r.off /\ written' = written
      /\ next' = IF r.res = "value" /\ next <= Len(written) THEN next + 1 ELSE next
      /\ lost' = (r.res = "undefined" \/ (r.res = "throws" /\ r.off # offset))
      /\ next <= Len(written) => type = v.type
  BY DEF Read
<1>2. /\ Len(written) \in Nat /\ next \in Nat /\ next - 1 \in Nat /\ next >= 1
      /\ Buffer.data \in Seq(Byte) /\ Buffer.data = data /\ written \in Seq(Entry)
  <2>1. written \in Seq(Entry) /\ next \in 1 .. Len(written) + 1 /\ Buffer.data \in Seq(Byte) /\ Buffer.data = data
    BY <1>1, WhatIsThere DEF ReaderInv
  <2>2. Len(written) \in Nat
    BY <2>1
  <2> QED BY <2>1, <2>2
<1> SUFFICES ASSUME Clear' PROVE offset' = Place(written', next' - 1)
  BY DEF Cursor
<1>3. Clear
  <2>1. \A i \in 1 .. next - 1 : i \in 1 .. next' - 1
    BY <1>1, <1>2
  <2>2. \A i \in 1 .. next' - 1 : ~EmptyVector(written[i].value)
    BY <1>1 DEF Clear
  <2> QED BY <1>1, <2>1, <2>2 DEF Clear
<1>4. offset = Place(written, next - 1)
  BY <1>3 DEF ReaderInv, Cursor
<1>5. ~lost'
  BY DEF Clear
<1>6. CASE next > Len(written)
  <2>1. offset = Len(Buffer.data)
    BY <1>1, <1>2, <1>3, <1>6, AllIsRead
  <2>2. r = Throws(offset)
    BY <1>2, <2>1, TargetIs, NothingLeft
  <2>3. r.res = "throws" /\ r.off = offset
    BY <2>2 DEF Throws
  <2> HIDE DEF r
  <2> QED BY <1>1, <1>4, <2>3
<1>7. CASE next <= Len(written) /\ Refused(Buffer, offset, v, old, opens)
  <2>1. /\ v \in Value /\ At(Buffer, offset, Image(w.host, v)) /\ Len(Buffer.data) <= 15 /\ type = v.type
    BY <1>1, <1>3, <1>7, DueIs
  <2>2. r.res = "throws"
    <3> HIDE DEF v
    <3> QED BY <1>7, <2>1, RefusedThrows
  <2> HIDE DEF r
  <2>3. r.off = offset /\ next' = next
    BY <1>1, <1>5, <2>2
  <2> QED BY <1>1, <1>4, <2>3
<1>8. CASE next <= Len(written) /\ ~Refused(Buffer, offset, v, old, opens)
  <2>1. /\ v \in Value /\ At(Buffer, offset, Image(w.host, v)) /\ Len(Buffer.data) <= 15 /\ type = v.type
        /\ Place(written, next) = offset + SerializedSize(v)
    BY <1>1, <1>3, <1>8, DueIs
  <2> DEFINE m == What(Buffer.host, w.host, v, old)
             q == offset + Taken(v)
  <2>2. r = Gives(q, m)
    <3>1. v.type = "array" => old \in Seq(Number) /\ Len(old) = ArrayLength
      BY <2>1, TargetIs
    <3> HIDE DEF v
    <3> QED BY <1>8, <2>1, <3>1, ReadIs
  <2> HIDE DEF r, m, q
  <2>3. r.res = "value" /\ r.off = q
    BY <2>2 DEF Gives
  <2>4. next' = next + 1 /\ next' - 1 = next /\ next \in 1 .. next' - 1 /\ offset' = q
    BY <1>1, <1>2, <1>8, <2>3
  <2>5. ~EmptyVector(v)
    BY <1>1, <2>4 DEF Clear
  <2>6. q = offset + SerializedSize(v)
    BY <2>5 DEF q, Taken
  <2> QED BY <1>1, <2>1, <2>4, <2>6
<1> QED BY <1>2, <1>6, <1>7, <1>8

(* What neither reads nor restarts.                                        *)
LEMMA CursorStays ==
  ASSUME ReaderInv, offset' = offset, written' = written, next' = next, lost' = lost
  PROVE  Cursor'
BY DEF ReaderInv, Cursor, Clear

(* What restarts at the first value: resetReading, a move, a copy, a       *)
(* clear.                                                                  *)
LEMMA CursorRestarts ==
  ASSUME next' = 1, offset' = 0, NEW es \in Seq(Entry), written' = es
  PROVE  Cursor'
<1>1. Place(es, 0) = 0
  BY PlaceAtTheEnds
<1>2. next' - 1 = 0
  OBVIOUS
<1> QED BY <1>1, <1>2 DEF Cursor

(* Every step keeps the read position; a section appends behind it.        *)
LEMMA CursorNext ==
  ASSUME OneWriter, ReaderInv, [Next]_vars
  PROVE  ReaderInv'
<1>1. WriterInv'
  BY WriterNext DEF ReaderInv
<1> SUFFICES Cursor'
  BY <1>1 DEF ReaderInv
<1>2. written \in Seq(Entry) /\ next \in 1 .. Len(written) + 1 /\ host \in Host
  BY DEF ReaderInv, WriterInv, Typed
<1>3. Len(written) \in Nat /\ next - 1 \in 0 .. Len(written)
  <2>1. Len(written) \in Nat
    BY <1>2
  <2> QED BY <1>2, <2>1
<1>6. CASE \E u \in Thread : \/ \E vs \in Calls : Write(u, vs)
                             \/ Reserve(u)
                             \/ Grow(u)
                             \/ AppendBytes(u)
  <2>1. PICK u \in Thread : \/ \E vs \in Calls : Write(u, vs)
                            \/ Reserve(u)
                            \/ Grow(u)
                            \/ AppendBytes(u)
    BY <1>6
  <2>2. CASE \E vs \in Calls : Write(u, vs)
    <3>1. offset' = offset /\ written' = written /\ next' = next /\ lost' = lost
      BY <2>2 DEF Write
    <3> QED BY <3>1, CursorStays
  <2>3. CASE Reserve(u)
    <3>1. offset' = offset /\ written' = written /\ next' = next /\ lost' = lost
      BY <2>3 DEF Reserve
    <3> QED BY <3>1, CursorStays
  <2>4. CASE Grow(u)
    <3>1. offset' = offset /\ written' = written /\ next' = next /\ lost' = lost
      BY <2>4 DEF Grow
    <3> QED BY <3>1, CursorStays
  <2>5. CASE AppendBytes(u)
    <3> DEFINE x == EntriesOf(host, Head(todo[u]).done)
    <3>1. /\ written' = written \o x /\ UNCHANGED <<offset, next, lost>>
          /\ todo[u] # <<>> /\ Head(todo[u]).op = "append"
      BY <2>5 DEF AppendBytes, EntriesOf
    <3>2. Head(todo[u]).done \in Seq(Value)
      BY <3>1, StepOfWrite DEF ReaderInv, WriterInv
    <3>3. x \in Seq(Entry)
      BY <1>2, <3>2, EntriesAre
    <3> HIDE DEF x
    <3> DEFINE k == next - 1
    <3>4. k \in 0 .. Len(written)
      BY <1>3
    <3> HIDE DEF k
    <3>5. SubSeq(written', 1, k) = SubSeq(written, 1, k) /\ \A i \in 1 .. k : written'[i] = written[i]
      <4>1. /\ SubSeq(written \o x, 1, k) = SubSeq(written, 1, k)
            /\ \A i \in 1 .. k : (written \o x)[i] = written[i]
        BY <1>2, <3>3, <3>4, SameBeginning
      <4> QED BY <3>1, <4>1
    <3>6. Clear' => Clear
      BY <3>1, <3>5 DEF Clear, k
    <3>7. Place(written', k) = Place(written, k)
      BY <3>5 DEF Place
    <3>8. offset' = offset /\ next' - 1 = k /\ next - 1 = k
      BY <3>1 DEF k
    <3>9. Clear => offset = Place(written, k)
      BY <3>8 DEF ReaderInv, Cursor
    <3>10. Clear' => offset' = Place(written', k)
      BY <3>6, <3>7, <3>8, <3>9
    <3> QED BY <3>8, <3>10 DEF Cursor
  <2> QED BY <2>1, <2>2, <2>3, <2>4, <2>5
<1>7. CASE \E type \in Type, opens \in BOOLEAN : \E old \in Targets(type) : Read(type, old, opens)
  <2>1. PICK type \in Type, opens \in BOOLEAN : \E old \in Targets(type) : Read(type, old, opens)
    BY <1>7
  <2>2. PICK old \in Targets(type) : Read(type, old, opens)
    BY <2>1
  <2> QED BY <2>2, CursorRead
<1>8. CASE ResetReading
  <2>1. next' = 1 /\ offset' = 0 /\ written' = written
    BY <1>8 DEF ResetReading
  <2> QED BY <1>2, <2>1, CursorRestarts
<1>9. CASE \E h \in Host : Send(h)
  <2>1. next' = 1 /\ offset' = 0 /\ written' = written
    BY <1>9 DEF Send
  <2> QED BY <1>2, <2>1, CursorRestarts
<1>10. CASE ClearData
  <2>1. <<>> \in Seq(Entry)
    OBVIOUS
  <2>2. next' = 1 /\ offset' = 0 /\ written' = <<>>
    BY <1>10 DEF ClearData
  <2> QED BY <2>1, <2>2, CursorRestarts
<1>11. CASE UNCHANGED vars
  <2>1. offset' = offset /\ written' = written /\ next' = next /\ lost' = lost
    BY <1>11 DEF vars
  <2> QED BY <2>1, CursorStays
<1> QED BY <1>6, <1>7, <1>8, <1>9, <1>10, <1>11 DEF Next

(* So it holds in every state.                                             *)
LEMMA ReaderAlways == ASSUME OneWriter PROVE Spec => []ReaderInv
<1>1. Init => ReaderInv
  <2> SUFFICES ASSUME Init PROVE ReaderInv
    OBVIOUS
  <2>1. WriterInv
    BY WriterInit
  <2>2. written = <<>> /\ next = 1 /\ offset = 0
    BY DEF Init
  <2>3. <<>> \in Seq(Entry)
    OBVIOUS
  <2>4. Place(<<>>, 0) = 0
    BY <2>3, PlaceAtTheEnds
  <2> QED BY <2>1, <2>2, <2>4 DEF ReaderInv, Cursor
<1>2. ReaderInv /\ [Next]_vars => ReaderInv'
  BY CursorNext
<1> QED BY <1>1, <1>2, PTL DEF Spec

(* What the invariant says of the offset.                                  *)
LEMMA OffsetOf ==
  ASSUME OneWriter, ReaderInv, InStep
  PROVE  /\ offset = SerializedSizes(ValuesOf(SubSeq(written, 1, next - 1)))
         /\ AllReaded <=> next = Len(written) + 1
<1>1. Idle /\ Clear
  BY DEF InStep, Clear
<1>2. offset = Place(written, next - 1)
  BY <1>1 DEF ReaderInv, Cursor
<1>3. /\ Len(data) \in Nat /\ Buffer.data = data
      /\ written \in Seq(Entry) /\ next \in 1 .. Len(written) + 1 /\ Len(written) \in Nat
  <2>1. Len(data) \in Nat /\ Buffer.data = data /\ written \in Seq(Entry) /\ next \in 1 .. Len(written) + 1
    BY <1>1, WhatIsThere DEF ReaderInv
  <2>2. Len(written) \in Nat
    BY <2>1
  <2> QED BY <2>1, <2>2
<1>4. CASE next <= Len(written)
  <2> DEFINE w == written[next]
             s == Image(w.host, w.value)
             size == SerializedSize(w.value)
  <2>1. w.value \in Value /\ At(Buffer, offset, s) /\ offset \in Nat
    BY <1>1, <1>4, DueIs
  <2>2. Len(s) = size /\ size \in Nat /\ size >= 2
    BY <2>1, SizeIsExact, SizeAtLeastTwo
  <2>3. offset + Len(s) <= Len(data)
    BY <1>3, <2>1 DEF At
  <2>4. offset # Len(data) /\ next # Len(written) + 1
    <3> HIDE DEF w, s, size
    <3> QED BY <1>3, <1>4, <2>1, <2>2, <2>3
  <2> QED BY <1>2, <2>4 DEF AllReaded, Place
<1>5. CASE next > Len(written)
  <2>1. offset = Len(data) /\ next = Len(written) + 1
    BY <1>1, <1>5, AllIsRead
  <2> QED BY <1>2, <2>1 DEF AllReaded, Place
<1> QED BY <1>3, <1>4, <1>5

(***************************************************************************)
(* A serializer written by one thread is at the end of its bytes exactly    *)
(* when all values were read, as allReaded says, and before that at the sum *)
(* of the sizes of those that were, on any sequence of writes, reads, moves *)
(* and copies.                                                              *)
(***************************************************************************)
THEOREM OffsetsAddUp == ASSUME OneWriter PROVE Spec => []OffsetIsExact
<1>1. ReaderInv => OffsetIsExact
  BY OffsetOf DEF OffsetIsExact
<1>2. Spec => []ReaderInv
  BY ReaderAlways
<1> QED BY <1>1, <1>2, PTL

(* And of a read of a value that is there.                                 *)
LEMMA ThrowsWhen ==
  ASSUME OneWriter, ReaderInv, InStep, next <= Len(written), NEW old \in Targets(written[next].value.type)
  PROVE  NextRead(old).res = "value"
           <=> \/ written[next].value.type # "object"
               \/ Len(data) - offset >= SerializedSize([type |-> "object", val |-> old])
<1> DEFINE w == written[next]
           v == w.value
           r == ReadSingle(Buffer, offset, v.type, old, TRUE)
           size == SerializedSize([type |-> "object", val |-> old])
<1>1. Idle /\ Clear
  BY DEF InStep, Clear
<1>2. /\ v \in Value /\ w.host \in Host /\ At(Buffer, offset, Image(w.host, v))
      /\ Len(Buffer.data) <= 15 /\ offset \in Nat
  BY <1>1, DueIs
<1>3. Buffer.data = data /\ Len(data) \in Nat
  BY <1>1, WhatIsThere DEF ReaderInv
<1>4. v.type \in Type
  BY <1>2, ValueIs
<1>5. /\ v.type = "array" => old \in Seq(Number) /\ Len(old) = ArrayLength
      /\ v.type = "object" => old.text \in Seq(Byte)
  BY <1>4, TargetIs
<1>6. v.type = "object" => size \in Nat
  <2>1. v.type = "object" => Len(old.text) \in Nat
    BY <1>5
  <2>2. size = SizeOfUnit + SizeOfNumber + SizeOfUnit + Len(old.text)
    BY DEF SerializedSize
  <2> QED BY <2>1, <2>2 DEF SizeOfUnit, SizeOfNumber
<1>7. NextRead(old) = r
  BY DEF NextRead
<1> HIDE DEF v, w
<1>8. There(Buffer, offset, size) <=> offset + size <= Len(data)
  BY <1>3 DEF There
<1>9. CASE Refused(Buffer, offset, v, old, TRUE)
  <2>1. r.res = "throws"
    BY <1>2, <1>9, RefusedThrows
  <2>2. v.type = "object" /\ ~There(Buffer, offset, size)
    BY <1>9 DEF Refused
  <2> HIDE DEF r, size
  <2>3. ~(Len(data) - offset >= size)
    BY <1>2, <1>3, <1>6, <1>8, <2>2
  <2> QED BY <1>7, <2>1, <2>2, <2>3 DEF v, w, size
<1>10. CASE ~Refused(Buffer, offset, v, old, TRUE)
  <2> DEFINE m == What(Buffer.host, w.host, v, old)
             q == offset + Taken(v)
  <2>1. r = Gives(q, m)
    BY <1>2, <1>5, <1>10, ReadIs
  <2> HIDE DEF r, size, m, q
  <2>2. r.res = "value"
    BY <2>1 DEF Gives
  <2>3. v.type # "object" \/ There(Buffer, offset, size)
    BY <1>10 DEF Refused, size
  <2>4. v.type # "object" \/ Len(data) - offset >= size
    BY <1>2, <1>3, <1>6, <1>8, <2>3
  <2> QED BY <1>7, <2>2, <2>4 DEF v, w, size
<1> QED BY <1>9, <1>10

(* And of a read after the last value.                                     *)
LEMMA ThrowsAtTheEnd ==
  ASSUME OneWriter, ReaderInv, InStep, next > Len(written), NEW type \in Type, NEW old \in Targets(type)
  PROVE  ReadSingle(Buffer, offset, type, old, TRUE) = Throws(offset)
<1>1. Idle /\ Clear
  BY DEF InStep, Clear
<1>2. offset = Len(data)
  BY <1>1, AllIsRead
<1>3. Buffer.data = data /\ data \in Seq(Byte)
  BY <1>1, WhatIsThere DEF ReaderInv
<1>4. type = "object" => old.text \in Seq(Byte)
  BY TargetIs
<1> QED BY <1>2, <1>3, <1>4, NothingLeft

(***************************************************************************)
(* A read of a serializer written by one thread throws only past the last   *)
(* value, and leaves the offset there, or for a Serializable whose variable *)
(* holds more than what comes: readSingle compares with what the variable   *)
(* says of its size.                                                        *)
(***************************************************************************)
THEOREM ThrowsOnlyThere == ASSUME OneWriter PROVE Spec => []ThrowsPastTheEnd
<1>1. ReaderInv => ThrowsPastTheEnd
  BY ThrowsWhen, ThrowsAtTheEnd DEF ThrowsPastTheEnd, Due
<1>2. Spec => []ReaderInv
  BY ReaderAlways
<1> QED BY <1>1, <1>2, PTL

(* A text comes back on its own host, into a variable that the text        *)
(* replaces.                                                               *)
LEMMA MovedBack ==
  ASSUME NEW text \in Seq(Byte), NEW old, NEW h, text # <<>> \/ old = <<>>
  PROVE  Moved(h, h, text, old) = text
BY SerializeIs DEF Moved

(* So do the strings of a vector<string>.                                  *)
LEMMA StringsBack ==
  ASSUME NEW texts \in Seq(Seq(Byte)), NEW old, NEW h,
         old = <<>> \/ \A i \in 1 .. Len(texts) : texts[i] # <<>>
  PROVE  [i \in 1 .. Len(texts) |-> Moved(h, h, texts[i], OldText(old, i))] = texts
<1>1. Len(texts) \in Nat /\ texts = [i \in 1 .. Len(texts) |-> texts[i]]
  OBVIOUS
<1>2. ASSUME NEW i \in 1 .. Len(texts) PROVE Moved(h, h, texts[i], OldText(old, i)) = texts[i]
  <2>1. texts[i] \in Seq(Byte)
    OBVIOUS
  <2>2. old = <<>> => OldText(old, i) = <<>>
    <3>1. Len(<<>>) = 0 /\ ~(i <= 0)
      BY <1>1
    <3> QED BY <3>1 DEF OldText
  <2> QED BY <2>1, <2>2, MovedBack
<1> QED BY <1>1, <1>2

(* And a value of any type, but for a file that is empty.                  *)
LEMMA WhatIsBack ==
  ASSUME NEW v \in Value, NEW h, NEW g, h = g \/ ~HasText(v),
         NEW old, old = Fresh(v.type) \/ ~KeepsOld(v),
         ~(v.type = "file" /\ v.val.content = <<>>)
  PROVE  What(g, h, v, old) = v.val
<1>1. v.type \in Type /\ v.val \in Val(v.type)
  BY ValueAssumption
<1>2. CASE v.type = "scalar"
  BY <1>2 DEF What
<1>3. CASE v.type = "string"
  <2>1. v.val \in Seq(Byte)
    BY <1>3, ValueIs DEF Text
  <2>2. h = g
    BY <1>3 DEF HasText
  <2>3. v.val # <<>> \/ old = <<>>
    BY <1>3 DEF KeepsOld, Fresh
  <2>4. What(g, h, v, old) = Moved(g, h, v.val, old)
    BY <1>3 DEF What
  <2> QED BY <2>1, <2>2, <2>3, <2>4, MovedBack
<1>4. CASE v.type \in {"array", "vector", "vectors"}
  <2>1. What(g, h, v, old) = IF v.val = <<>> THEN old ELSE v.val
    BY <1>4 DEF What
  <2>2. v.val = <<>> => old = Fresh(v.type)
    BY <1>4 DEF KeepsOld
  <2>3. v.val = <<>> => Fresh(v.type) = <<>>
    <3>1. CASE v.type = "array"
      <4>1. v.val = <<>> => Len(v.val) = 0
        OBVIOUS
      <4>2. v.val = <<>> => ArrayLength = 0
        BY <3>1, <4>1, ValueIs
      <4>3. [i \in 1 .. 0 |-> 0] = <<>>
        OBVIOUS
      <4>4. Fresh(v.type) = [i \in 1 .. ArrayLength |-> 0]
        BY <3>1 DEF Fresh
      <4> QED BY <4>2, <4>3, <4>4
    <3>2. CASE v.type # "array"
      BY <1>4, <3>2 DEF Fresh
    <3> QED BY <3>1, <3>2
  <2> QED BY <2>1, <2>2, <2>3
<1>5. CASE v.type = "strings"
  <2>1. v.val \in Seq(Seq(Byte))
    BY <1>5, ValueIs DEF Text
  <2>2. h = g
    BY <1>5 DEF HasText
  <2>3. Fresh(v.type) = <<>>
    BY <1>5 DEF Fresh
  <2>4. What(g, h, v, old) = IF v.val = <<>> THEN old
                             ELSE [i \in 1 .. Len(v.val) |-> Moved(g, h, v.val[i], OldText(old, i))]
    BY <1>5 DEF What
  <2>5. KeepsOld(v) <=> v.val = <<>> \/ <<>> \in ToSet(v.val)
    BY <1>5 DEF KeepsOld
  <2> DEFINE texts == v.val
             all == [i \in 1 .. Len(texts) |-> Moved(h, h, texts[i], OldText(old, i))]
  <2>6. What(g, h, v, old) = IF texts = <<>> THEN old ELSE all
    BY <2>2, <2>4
  <2>7. texts \in Seq(Seq(Byte))
    BY <2>1
  <2>8. ASSUME ~KeepsOld(v) PROVE texts # <<>> /\ \A i \in 1 .. Len(texts) : texts[i] # <<>>
    <3>1. texts # <<>> /\ <<>> \notin ToSet(texts)
      BY <2>5, <2>8
    <3> HIDE DEF texts
    <3>2. DOMAIN texts = 1 .. Len(texts)
      BY <2>7
    <3> QED BY <3>1, <3>2 DEF ToSet
  <2>9. old = <<>> \/ \A i \in 1 .. Len(texts) : texts[i] # <<>>
    BY <2>3, <2>8
  <2>10. texts = <<>> => old = <<>>
    BY <2>3, <2>8
  <2> HIDE DEF texts
  <2>11. all = texts
    BY <2>7, <2>9, StringsBack
  <2> HIDE DEF all
  <2>12. What(g, h, v, old) = texts
    BY <2>6, <2>10, <2>11
  <2> QED BY <2>12 DEF texts
<1>6. CASE v.type = "object"
  <2>1. v.val \in [number : Number, text : Text]
    BY <1>1, <1>6 DEF Val
  <2>2. v.val.text \in Seq(Byte)
    BY <1>6, ValueIs DEF Text
  <2>3. h = g
    BY <1>6 DEF HasText
  <2>4. v.val.text # <<>> \/ old.text = <<>>
    <3>1. Fresh(v.type) = [number |-> 0, text |-> <<>>]
      BY <1>6 DEF Fresh
    <3>2. KeepsOld(v) <=> v.val.text = <<>>
      BY <1>6 DEF KeepsOld
    <3> QED BY <3>1, <3>2
  <2>5. Moved(g, h, v.val.text, old.text) = v.val.text
    BY <2>2, <2>3, <2>4, MovedBack
  <2>6. What(g, h, v, old) = [number |-> v.val.number, text |-> Moved(g, h, v.val.text, old.text)]
    BY <1>6 DEF What
  <2>7. v.val = [number |-> v.val.number, text |-> v.val.text]
    BY <2>1
  <2> QED BY <2>5, <2>6, <2>7
<1>7. CASE v.type = "file"
  <2>1. v.val \in [name : Text, content : Text]
    BY <1>1, <1>7 DEF Val
  <2>2. v.val.name \in Seq(Byte)
    BY <1>7, ValueIs DEF Text
  <2>3. h = g
    BY <1>7 DEF HasText
  <2>4. BinaryDeserialize(g, BinarySerialize(h, v.val.name)) = v.val.name
    BY <2>2, <2>3, SerializeIs
  <2>5. What(g, h, v, old) = [name |-> BinaryDeserialize(g, BinarySerialize(h, v.val.name)), content |-> v.val.content]
    BY <1>7 DEF What
  <2>6. v.val = [name |-> v.val.name, content |-> v.val.content]
    BY <2>1
  <2> QED BY <2>4, <2>5, <2>6
<1> QED BY <1>1, <1>2, <1>3, <1>4, <1>5, <1>6, <1>7 DEF Type

(* So the read that is due gives the value.                                *)
LEMMA BackIs ==
  ASSUME OneWriter, ReaderInv, Due, NEW old \in Targets(written[next].value.type),
         old = Fresh(written[next].value.type) \/ ~KeepsOld(written[next].value),
         written[next].host = host \/ ~HasText(written[next].value),
         NextRead(old).res = "value"
  PROVE  \/ NextRead(old).val = written[next].value.val
         \/ written[next].value.type = "file" /\ written[next].value.val.content = <<>>
<1> DEFINE w == written[next]
           v == w.value
           h == w.host
           r == ReadSingle(Buffer, offset, v.type, old, TRUE)
<1>1. Idle /\ Clear /\ next <= Len(written)
  BY DEF Due, InStep, Clear
<1>2. v \in Value /\ At(Buffer, offset, Image(h, v)) /\ Len(Buffer.data) <= 15
  BY <1>1, DueIs
<1>3. Buffer.host = host
  BY <1>1, WhatIsThere DEF ReaderInv
<1>4. v.type = "array" => old \in Seq(Number) /\ Len(old) = ArrayLength
  <2>1. v.type \in Type
    BY <1>2, ValueIs
  <2> QED BY <2>1, TargetIs
<1>5. NextRead(old) = r
  BY DEF NextRead
<1>6. (old = Fresh(v.type) \/ ~KeepsOld(v)) /\ (h = host \/ ~HasText(v))
  OBVIOUS
<1> SUFFICES ASSUME ~(v.type = "file" /\ v.val.content = <<>>) PROVE r.val = v.val
  BY <1>5
<1> HIDE DEF v, h
<1>7. ~Refused(Buffer, offset, v, old, TRUE)
  <2>1. r.res = "value"
    BY <1>5
  <2>2. "value" # "throws"
    OBVIOUS
  <2> HIDE DEF r
  <2>3. Refused(Buffer, offset, v, old, TRUE) => r.res = "throws"
    BY <1>2, RefusedThrows DEF r
  <2> QED BY <2>1, <2>2, <2>3
<1> DEFINE m == What(Buffer.host, h, v, old)
           q == offset + Taken(v)
<1>8. r = Gives(q, m)
  BY <1>2, <1>4, <1>7, ReadIs
<1>9. m = v.val
  BY <1>2, <1>3, <1>6, WhatIsBack
<1> HIDE DEF r, m, q
<1> QED BY <1>8, <1>9 DEF Gives

(***************************************************************************)
(* What one thread wrote is what is read, into a new variable or one in     *)
(* use: on the host that wrote it and, for what has no text, on one of the  *)
(* other byte order, from any offset that earlier reads lead to.            *)
(***************************************************************************)
THEOREM WrittenIsRead == ASSUME OneWriter PROVE Spec => []ReadsBack
<1>1. ReaderInv => ReadsBack
  <2> SUFFICES ASSUME ReaderInv, Due PROVE ReadsBack
    BY DEF ReadsBack
  <2> QED BY BackIs DEF ReadsBack
<1>2. Spec => []ReaderInv
  BY ReaderAlways
<1> QED BY <1>1, <1>2, PTL
=============================================================================
