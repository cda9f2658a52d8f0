---------------------------- MODULE QueryProofs ----------------------------
(***************************************************************************)
(* A SELECT for every set of tables, rows and statements: what its stages  *)
(* make of the rows, however many there are.                               *)
(***************************************************************************)
EXTENDS Query, WhereProofs

----------------------------------------------------------------------------
(* A list spreads over a set of places: every place is shown by one        *)
(* element of the list, which is what F has there.                         *)

OneToOne(h, A, D) == /\ h \in [A -> D]
                     /\ \A i, j \in A : h[i] = h[j] => i = j
                     /\ \A d \in D : \E i \in A : h[i] = d

Spread(s, D, F) == \E h : /\ OneToOne(h, DOMAIN s, D)
                          /\ \A i \in DOMAIN s : s[i] = F[h[i]]

LEMMA OneToOneSize ==
  ASSUME NEW h, NEW A, NEW D, OneToOne(h, A, D), IsFiniteSet(A)
  PROVE  IsFiniteSet(D) /\ Cardinality(D) = Cardinality(A)
<1>1. h \in Bijection(A, D)
  BY DEF OneToOne, Bijection, Injection, Surjection, IsInjective
<1>2. ExistsBijection(A, D)
  BY <1>1 DEF ExistsBijection
<1>3. QED
  BY <1>2, FS_Bijection

LEMMA ListPlaces ==
  ASSUME NEW S, NEW s \in Seq(S)
  PROVE  /\ Len(s) \in Nat /\ DOMAIN s = 1 .. Len(s)
         /\ \A i \in DOMAIN s : s[i] \in S
         /\ s = [i \in 1 .. Len(s) |-> s[i]]
  OBVIOUS

(* A list that spreads shows a value as often as F has it.                 *)
LEMMA SpreadCounts ==
  ASSUME NEW S, NEW s \in Seq(S), NEW D, NEW F, Spread(s, D, F), NEW x
  PROVE  Count(s, x) = Cardinality({d \in D : F[d] = x})
<1>1. PICK h : OneToOne(h, DOMAIN s, D) /\ \A i \in DOMAIN s : s[i] = F[h[i]]
  BY DEF Spread
<1> DEFINE A == {i \in DOMAIN s : s[i] = x}
           E == {d \in D : F[d] = x}
           g == [i \in A |-> h[i]]
<1>2. OneToOne(g, A, E)
  BY <1>1 DEF OneToOne
<1>3. IsFiniteSet(A)
  <2>1. A \in SUBSET (1 .. Len(s)) /\ Len(s) \in Nat
    BY ListPlaces
  <2>2. QED BY <2>1, PlacesFinite
<1> HIDE DEF A, E, g
<1>4. Cardinality(E) = Cardinality(A)
  BY <1>2, <1>3, OneToOneSize
<1>5. QED
  BY <1>4 DEF Count, A, E

(* The places of a list may be named otherwise.                            *)
LEMMA SpreadRenamed ==
  ASSUME NEW s, NEW D, NEW F, Spread(s, D, F), NEW g, NEW E, NEW G,
         OneToOne(g, D, E), \A d \in D : F[d] = G[g[d]]
  PROVE  Spread(s, E, G)
<1>1. PICK h : OneToOne(h, DOMAIN s, D) /\ \A i \in DOMAIN s : s[i] = F[h[i]]
  BY DEF Spread
<1> DEFINE k == [i \in DOMAIN s |-> g[h[i]]]
<1>2. OneToOne(k, DOMAIN s, E)
  BY <1>1 DEF OneToOne
<1>3. \A i \in DOMAIN s : s[i] = G[k[i]]
  BY <1>1 DEF OneToOne
<1>4. QED
  BY <1>2, <1>3 DEF Spread

(* What is picked from a list spreads over the places picked.              *)
LEMMA PickedSpreads ==
  ASSUME NEW b \in Nat, NEW P \in SUBSET (1 .. b), NEW s
  PROVE  Spread(Picked(s, P), P, s)
<1> DEFINE f == InOrder(P)
           n == Cardinality(P)
<1>1. Lists(f, n, P)
  BY InOrderLists
<1>2. Picked(s, P) = [i \in 1 .. n |-> s[f[i]]]
  BY DEF Picked
<1> HIDE DEF f, n
<1>3. OneToOne(f, 1 .. n, P)
  <2>1. \A i, j \in 1 .. n : i < j \/ j < i \/ i = j
    BY <1>1 DEF Lists
  <2>2. \A i, j \in 1 .. n : f[i] = f[j] => i = j
    <3>1. SUFFICES ASSUME NEW i \in 1 .. n, NEW j \in 1 .. n, i < j PROVE f[i] # f[j]
      BY <2>1
    <3>2. f[i] < f[j] /\ f[i] \in 1 .. b /\ f[j] \in 1 .. b
      BY <1>1, <3>1 DEF Lists
    <3>3. QED BY <3>2
  <2>3. QED BY <1>1, <2>2 DEF Lists, OneToOne
<1>4. QED
  BY <1>2, <1>3 DEF Spread

(* ... and, of a list that spreads, over the places where it has them.     *)
LEMMA SpreadPicked ==
  ASSUME NEW S, NEW s \in Seq(S), NEW D, NEW F, Spread(s, D, F),
         NEW P \in SUBSET (DOMAIN s), NEW E \in SUBSET D,
         \A i \in DOMAIN s, d \in D : s[i] = F[d] => (i \in P <=> d \in E)
  PROVE  Spread(Picked(s, P), E, F)
<1>1. PICK h : OneToOne(h, DOMAIN s, D) /\ \A i \in DOMAIN s : s[i] = F[h[i]]
  BY DEF Spread
<1> DEFINE g == [i \in P |-> h[i]]
<1>2. OneToOne(g, P, E) /\ \A i \in P : s[i] = F[g[i]]
  <2>1. \A i \in DOMAIN s : h[i] \in D /\ (i \in P <=> h[i] \in E)
    BY <1>1 DEF OneToOne
  <2>2. QED BY <1>1, <2>1 DEF OneToOne
<1>3. P \in SUBSET (1 .. Len(s)) /\ Len(s) \in Nat
  BY ListPlaces
<1> HIDE DEF g
<1>4. Spread(Picked(s, P), P, s)
  BY <1>3, PickedSpreads
<1>5. QED
  BY <1>2, <1>4, SpreadRenamed

(* Every place has its turn in another order.                              *)
LEMMA PermutesAll ==
  ASSUME NEW n \in Nat, NEW p \in SetToSeqs(1 .. n)
  PROVE  /\ p \in [1 .. n -> 1 .. n]
         /\ \A i, j \in 1 .. n : i # j => p[i] # p[j]
         /\ \A j \in 1 .. n : \E i \in 1 .. n : p[i] = j
<1>1. IsFiniteSet(1 .. n) /\ Cardinality(1 .. n) = n
  BY FS_Interval
<1>2. p \in [1 .. n -> 1 .. n] /\ \A i, j \in 1 .. n : i # j => p[i] # p[j]
  BY <1>1 DEF SetToSeqs
<1>3. p \in Injection(1 .. n, 1 .. n)
  BY <1>2 DEF Injection, IsInjective
<1>4. p \in Surjection(1 .. n, 1 .. n)
  BY <1>1, <1>3, FS_Injection
<1>5. QED
  BY <1>2, <1>4 DEF Surjection

(* A list put in another order spreads as before.                          *)
LEMMA SpreadSorted ==
  ASSUME NEW S, NEW s \in Seq(S), NEW D, NEW F, Spread(s, D, F),
         NEW p \in SetToSeqs(DOMAIN s)
  PROVE  Spread([i \in DOMAIN s |-> s[p[i]]], D, F)
<1>1. PICK h : OneToOne(h, DOMAIN s, D) /\ \A i \in DOMAIN s : s[i] = F[h[i]]
  BY DEF Spread
<1> DEFINE n == Len(s)
           r == [i \in DOMAIN s |-> s[p[i]]]
           k == [i \in 1 .. n |-> h[p[i]]]
<1>2. n \in Nat /\ DOMAIN s = 1 .. n
  BY ListPlaces
<1> HIDE DEF n
<1>3. p \in SetToSeqs(1 .. n)
  BY <1>2
<1>4. p \in [1 .. n -> 1 .. n] /\ \A i, j \in 1 .. n : i # j => p[i] # p[j]
  BY <1>2, <1>3, PermutesAll
<1>5. \A j \in 1 .. n : \E i \in 1 .. n : p[i] = j
  BY <1>2, <1>3, PermutesAll
<1>6. OneToOne(k, DOMAIN r, D)
  <2>1. h \in [1 .. n -> D] /\ DOMAIN r = 1 .. n
    BY <1>1, <1>2 DEF OneToOne
  <2>2. k \in [1 .. n -> D]
    BY <1>4, <2>1
  <2>3. ASSUME NEW i \in 1 .. n, NEW j \in 1 .. n, k[i] = k[j] PROVE i = j
    <3>1. p[i] = p[j]
      BY <1>1, <1>2, <1>4, <2>3 DEF OneToOne
    <3>2. QED BY <1>4, <3>1
  <2>4. ASSUME NEW d \in D PROVE \E i \in 1 .. n : k[i] = d
    <3>1. PICK j \in 1 .. n : h[j] = d
      BY <1>1, <1>2 DEF OneToOne
    <3>2. PICK i \in 1 .. n : p[i] = j
      BY <1>5
    <3>3. QED BY <3>1, <3>2
  <2>5. QED
    BY <2>1, <2>2, <2>3, <2>4 DEF OneToOne
<1>7. \A i \in DOMAIN r : r[i] = F[k[i]]
  BY <1>1, <1>2, <1>4
<1>8. QED
  BY <1>6, <1>7 DEF Spread

----------------------------------------------------------------------------
(* Lists one behind another.                                               *)

LEMMA SpreadBehind ==
  ASSUME NEW S, NEW s \in Seq(S), NEW t \in Seq(S), NEW D, NEW E, D \cap E = {}, NEW F,
         Spread(s, D, F), Spread(t, E, F)
  PROVE  Spread(s \o t, D \cup E, F)
<1>1. PICK h : OneToOne(h, DOMAIN s, D) /\ \A i \in DOMAIN s : s[i] = F[h[i]]
  BY DEF Spread
<1>2. PICK g : OneToOne(g, DOMAIN t, E) /\ \A i \in DOMAIN t : t[i] = F[g[i]]
  BY DEF Spread
<1> DEFINE m == Len(s)
           n == Len(t)
           u == s \o t
           k == [i \in 1 .. m + n |-> IF i <= m THEN h[i] ELSE g[i - m]]
<1>3. m \in Nat /\ n \in Nat /\ DOMAIN s = 1 .. m /\ DOMAIN t = 1 .. n
  OBVIOUS
<1>4. /\ DOMAIN u = 1 .. m + n
      /\ \A i \in 1 .. m + n : u[i] = IF i <= m THEN s[i] ELSE t[i - m]
  OBVIOUS
<1> HIDE DEF m, n, u
<1>5. \A i \in 1 .. m + n : (i <= m /\ i \in 1 .. m) \/ (~(i <= m) /\ i - m \in 1 .. n)
  BY <1>3
<1>6. /\ \A i \in 1 .. m : i \in 1 .. m + n /\ k[i] = h[i] /\ k[i] \in D
      /\ \A i \in 1 .. n : i + m \in 1 .. m + n /\ k[i + m] = g[i] /\ k[i + m] \in E
  <2>1. ASSUME NEW i \in 1 .. m PROVE i \in 1 .. m + n /\ k[i] = h[i] /\ k[i] \in D
    BY <1>1, <1>3 DEF OneToOne
  <2>2. ASSUME NEW i \in 1 .. n PROVE i + m \in 1 .. m + n /\ k[i + m] = g[i] /\ k[i + m] \in E
    <3>1. i + m \in 1 .. m + n /\ ~(i + m <= m) /\ (i + m) - m = i
      BY <1>3
    <3>2. QED BY <1>2, <1>3, <3>1 DEF OneToOne
  <2>3. QED BY <2>1, <2>2
<1>7. \A i \in 1 .. m + n : i \in 1 .. m \/ \E j \in 1 .. n : i = j + m
  <2>1. \A i \in 1 .. m + n : ~(i <= m) => (i - m) + m = i
    BY <1>3
  <2>2. QED BY <1>5, <2>1
<1>8. k \in [1 .. m + n -> D \cup E]
  <2>1. \A i \in 1 .. m + n : k[i] \in D \cup E
    <3> HIDE DEF k
    <3>1. QED BY <1>6, <1>7
  <2>2. QED BY <2>1
<1>9. ASSUME NEW i \in 1 .. m + n, NEW j \in 1 .. m + n, k[i] = k[j] PROVE i = j
  <2> HIDE DEF k
  <2>1. CASE i \in 1 .. m /\ j \in 1 .. m
    BY <1>1, <1>3, <1>6, <1>9, <2>1 DEF OneToOne
  <2>2. ASSUME NEW a \in 1 .. n, NEW b \in 1 .. n, i = a + m, j = b + m PROVE i = j
    <3>1. k[i] = g[a] /\ k[j] = g[b]
      BY <1>6, <2>2
    <3>2. a = b
      BY <1>2, <1>3, <1>9, <3>1 DEF OneToOne
    <3>3. QED BY <2>2, <3>2
  <2>3. CASE i \in 1 .. m /\ \E b \in 1 .. n : j = b + m
    BY <1>6, <1>9, <2>3
  <2>4. CASE j \in 1 .. m /\ \E b \in 1 .. n : i = b + m
    BY <1>6, <1>9, <2>4
  <2>5. QED
    BY <1>7, <2>1, <2>2, <2>3, <2>4
<1>10. ASSUME NEW d \in D \cup E PROVE \E i \in 1 .. m + n : k[i] = d
  <2> HIDE DEF k
  <2>1. CASE d \in D
    BY <1>1, <1>3, <1>6, <2>1 DEF OneToOne
  <2>2. CASE d \in E
    BY <1>2, <1>3, <1>6, <2>2 DEF OneToOne
  <2>3. QED BY <2>1, <2>2
<1>11. OneToOne(k, DOMAIN u, D \cup E)
  <2> HIDE DEF k
  <2>1. QED BY <1>4, <1>8, <1>9, <1>10 DEF OneToOne
<1>12. \A i \in DOMAIN u : u[i] = F[k[i]]
  BY <1>1, <1>2, <1>3, <1>4, <1>5
<1>13. QED
  <2> HIDE DEF k
  <2>1. QED BY <1>11, <1>12 DEF Spread, u

(* The places of the elements of a list of lists.                          *)
Parts(ss) == {p \in (DOMAIN ss) \X Nat : p[2] \in DOMAIN ss[p[1]]}
PartAt(ss) == [p \in Parts(ss) |-> ss[p[1]][p[2]]]

LEMMA PartSpreads ==
  ASSUME NEW S, NEW ss \in Seq(Seq(S)), NEW k \in DOMAIN ss
  PROVE  Spread(ss[k], {p \in Parts(ss) : p[1] = k}, PartAt(ss))
<1> DEFINE D == {p \in Parts(ss) : p[1] = k}
           h == [j \in DOMAIN ss[k] |-> <<k, j>>]
<1>1. ss[k] \in Seq(S)
  OBVIOUS
<1>2. \A j \in DOMAIN ss[k] : j \in Nat
  BY <1>1
<1>3. \A j \in DOMAIN ss[k] : <<k, j>> \in D /\ PartAt(ss)[<<k, j>>] = ss[k][j]
  BY <1>2 DEF Parts, PartAt
<1>4. ASSUME NEW d \in D PROVE d[2] \in DOMAIN ss[k] /\ h[d[2]] = d
  BY DEF Parts
<1> HIDE DEF D
<1>5. OneToOne(h, DOMAIN ss[k], D)
  BY <1>3, <1>4 DEF OneToOne
<1>6. \A j \in DOMAIN ss[k] : ss[k][j] = PartAt(ss)[h[j]]
  BY <1>3
<1> HIDE DEF h
<1>7. QED
  BY <1>5, <1>6 DEF Spread, D

LEMMA FlattenIs ==
  ASSUME NEW S, NEW ss \in Seq(Seq(S)), Len(ss) # 0
  PROVE  \E f \in [1 .. Len(ss) -> Seq(S)] :
             /\ \A i \in 1 .. Len(ss) : f[i] = IF i = 1 THEN ss[i] ELSE f[i - 1] \o ss[i]
             /\ FlattenSeq(ss) = f[Len(ss)]
<1> DEFINE I == 1 .. Len(ss)
           V == Seq(S)
           Body(h, i) == IF i = 1 THEN ss[i] ELSE h[i - 1] \o ss[i]
           step == [p \in I \X [I -> V] |-> Body(p[2], p[1])]
           rank == [i \in I |-> i]
           H    == CHOOSE h : h = [i \in I |-> Body(h, i)]
<1>1. rank \in [I -> Nat] /\ V # {} /\ \A i \in I : i # 1 => i - 1 \in I
  <2>1. <<>> \in Seq(S)
    OBVIOUS
  <2>2. QED BY <2>1
<1>2. ASSUME NEW h \in [I -> V], NEW i \in I PROVE Body(h, i) \in V
  <2>1. ss[i] \in Seq(S)
    OBVIOUS
  <2>2. i # 1 => h[i - 1] \in Seq(S)
    BY <1>1
  <2>3. QED BY <2>1, <2>2
<1>3. step \in [I \X [I -> V] -> V]
  <2> HIDE DEF I, V, Body
  <2>1. QED BY <1>2
<1>4. ASSUME NEW k \in I, NEW f \in [I -> V], NEW g \in [I -> V],
             \A j \in I : rank[j] < rank[k] => f[j] = g[j]
      PROVE  step[<<k, f>>] = step[<<k, g>>]
  <2>1. k # 1 => f[k - 1] = g[k - 1]
    BY <1>1, <1>4
  <2>2. Body(f, k) = Body(g, k)
    BY <2>1
  <2>3. QED BY <2>2
<1>5. PICK f \in [I -> V] : \A k \in I : f[k] = Body(f, k)
  <2>1. Recursive(I, V, rank, step)
    <3> HIDE DEF step, rank, I, V
    <3>1. QED BY <1>1, <1>3, <1>4 DEF Recursive
  <2>2. PICK f \in [I -> V] : \A k \in I : f[k] = step[<<k, f>>]
    <3>1. V # {}
      BY <1>1
    <3> HIDE DEF step, rank, I, V
    <3>2. QED BY <2>1, <3>1, Recursion
  <2>3. QED BY <2>2
<1>6. f = [i \in I |-> Body(f, i)]
  <2> HIDE DEF Body, I, V
  <2>1. QED BY <1>5
<1>7. H = [i \in I |-> Body(H, i)]
  <2> HIDE DEF Body, I, V
  <2>1. QED BY <1>6
<1>8. FlattenSeq(ss) = H[Len(ss)]
  BY Zenon DEF FlattenSeq
<1>9. \A i \in I : H[i] = IF i = 1 THEN ss[i] ELSE H[i - 1] \o ss[i]
  <2> HIDE DEF H
  <2>1. QED BY <1>7
<1>10. \A i \in I : H[i] \in V
  <2> HIDE DEF H
  <2> DEFINE Bad == {i \in I : H[i] \notin V}
  <2>1. SUFFICES ASSUME Bad # {} PROVE FALSE
    OBVIOUS
  <2>2. PICK k \in Bad : \A j \in Bad : k <= j
    <3>1. Bad \in SUBSET Nat
      OBVIOUS
    <3> HIDE DEF Bad
    <3>2. QED BY <2>1, <3>1, LeastNat
  <2>3. k \in I /\ H[k] \notin V /\ ss[k] \in V
    OBVIOUS
  <2>4. k # 1 /\ k - 1 \in I
    BY <1>1, <1>9, <2>3
  <2>5. H[k - 1] \in V
    BY <2>2, <2>4
  <2>6. H[k - 1] \o ss[k] \in V
    BY <2>3, <2>5
  <2>7. QED
    BY <1>9, <2>3, <2>4, <2>6
<1>11. H \in [I -> V]
  <2> HIDE DEF H, V
  <2>1. QED BY <1>7, <1>10
<1>12. QED
  <2> HIDE DEF H
  <2>1. QED BY <1>8, <1>9, <1>11

(* Lists one behind another show every element of every list once.         *)
LEMMA FlattenSpreads ==
  ASSUME NEW S, NEW ss \in Seq(Seq(S))
  PROVE  FlattenSeq(ss) \in Seq(S) /\ Spread(FlattenSeq(ss), Parts(ss), PartAt(ss))
<1> DEFINE n == Len(ss)
           F == PartAt(ss)
           P(k) == {p \in Parts(ss) : p[1] = k}
           Q(k) == {p \in Parts(ss) : p[1] <= k}
<1>1. n \in Nat /\ DOMAIN ss = 1 .. n /\ \A k \in 1 .. n : ss[k] \in Seq(S)
  OBVIOUS
<1>2. ASSUME NEW p \in Parts(ss) PROVE p[1] \in 1 .. n
  BY <1>1 DEF Parts
<1>3. CASE n = 0
  <2>1. ss = <<>> /\ FlattenSeq(ss) = ss
    BY <1>3 DEF FlattenSeq
  <2>2. Parts(ss) = {}
    BY <1>1, <1>2, <1>3
  <2>3. <<>> \in Seq(S) /\ DOMAIN <<>> = {}
    OBVIOUS
  <2>4. OneToOne(<<>>, {}, {})
    BY DEF OneToOne
  <2>5. Spread(<<>>, {}, F)
    BY <2>3, <2>4 DEF Spread
  <2>6. QED BY <2>1, <2>2, <2>3, <2>5
<1>4. CASE n # 0
  <2>1. PICK f \in [1 .. n -> Seq(S)] :
            /\ \A i \in 1 .. n : f[i] = IF i = 1 THEN ss[i] ELSE f[i - 1] \o ss[i]
            /\ FlattenSeq(ss) = f[n]
    BY <1>4, FlattenIs
  <2>2. \A k \in 1 .. n : Spread(ss[k], P(k), F)
    <3> HIDE DEF n, F
    <3>1. QED BY <1>1, PartSpreads DEF F
  <2>3. Q(1) = P(1)
    BY <1>1, <1>2
  <2>4. \A k \in 2 .. n : Q(k) = Q(k - 1) \cup P(k) /\ Q(k - 1) \cap P(k) = {}
    BY <1>1, <1>2
  <2>5. Q(n) = Parts(ss)
    BY <1>1, <1>2
  <2> HIDE DEF n, F, P, Q
  <2> DEFINE Bad == {k \in 1 .. n : ~Spread(f[k], Q(k), F)}
  <2>6. Bad = {}
    <3>1. SUFFICES ASSUME Bad # {} PROVE FALSE
      OBVIOUS
    <3>2. PICK k \in Bad : \A j \in Bad : k <= j
      <4>1. Bad \in SUBSET Nat
        <5>1. \A k \in 1 .. n : k \in Nat
          BY <1>1
        <5>2. QED BY <5>1, Zenon
      <4> HIDE DEF Bad
      <4>2. QED BY <3>1, <4>1, LeastNat
    <3>3. k \in 1 .. n /\ ~Spread(f[k], Q(k), F) /\ ss[k] \in Seq(S)
      <4>1. k \in 1 .. n /\ ~Spread(f[k], Q(k), F)
        BY Zenon
      <4>2. QED BY <1>1, <4>1
    <3>4. k # 1
      <4>1. 1 \in 1 .. n => f[1] = ss[1] /\ Spread(ss[1], P(1), F)
        BY <2>1, <2>2
      <4>2. 1 \in 1 .. n => Spread(f[1], Q(1), F)
        BY <2>3, <4>1, Zenon
      <4>3. QED BY <3>3, <4>2, Zenon
    <3>5. k - 1 \in 1 .. n /\ k \in 2 .. n
      BY <1>1, <3>3, <3>4
    <3>6. Spread(f[k - 1], Q(k - 1), F) /\ f[k - 1] \in Seq(S)
      BY <2>1, <3>2, <3>5
    <3>7. Spread(f[k - 1] \o ss[k], Q(k - 1) \cup P(k), F)
      BY <2>2, <2>4, <3>3, <3>5, <3>6, SpreadBehind
    <3>8. f[k] = f[k - 1] \o ss[k] /\ Q(k) = Q(k - 1) \cup P(k)
      BY <2>1, <2>4, <3>3, <3>4, <3>5
    <3>9. QED
      BY <3>3, <3>7, <3>8, Zenon
  <2>7. n \in 1 .. n
    BY <1>1, <1>4
  <2>8. QED
    BY <2>1, <2>5, <2>6, <2>7 DEF F
<1>5. QED
  BY <1>3, <1>4

(* When the lists show what F has at places of their own, all of them, one *)
(* behind another, show what it has at all those places.                   *)
LEMMA FlattenOver ==
  ASSUME NEW S, NEW ss \in Seq(Seq(S)), NEW D, NEW E, NEW F,
         \A k \in DOMAIN ss : Spread(ss[k], D[k], F),
         \A k, l \in DOMAIN ss : \A d \in D[k] : d \in D[l] => k = l,
         \A k \in DOMAIN ss : D[k] \subseteq E,
         \A d \in E : \E k \in DOMAIN ss : d \in D[k]
  PROVE  Spread(FlattenSeq(ss), E, F)
<1> DEFINE Shows(k, h) == OneToOne(h, DOMAIN ss[k], D[k]) /\ \A i \in DOMAIN ss[k] : ss[k][i] = F[h[i]]
           f == [k \in DOMAIN ss |-> CHOOSE h : Shows(k, h)]
           g == [p \in Parts(ss) |-> f[p[1]][p[2]]]
<1>1. ASSUME NEW k \in DOMAIN ss PROVE Shows(k, f[k])
  <2>1. \E h : Shows(k, h)
    BY DEF Spread
  <2> HIDE DEF Shows
  <2>2. QED BY <2>1
<1>2. ASSUME NEW k \in DOMAIN ss
      PROVE  /\ \A i \in DOMAIN ss[k] : f[k][i] \in D[k] /\ ss[k][i] = F[f[k][i]]
             /\ \A i, j \in DOMAIN ss[k] : f[k][i] = f[k][j] => i = j
             /\ \A d \in D[k] : \E i \in DOMAIN ss[k] : f[k][i] = d
  <2> HIDE DEF f
  <2>1. QED BY <1>1 DEF OneToOne
<1> HIDE DEF f
<1>3. ASSUME NEW k \in DOMAIN ss, NEW i \in DOMAIN ss[k]
      PROVE  <<k, i>> \in Parts(ss) /\ g[<<k, i>>] = f[k][i]
  <2>1. i \in Nat
    OBVIOUS
  <2>2. <<k, i>> \in Parts(ss)
    BY <2>1 DEF Parts
  <2>3. QED BY <2>2
<1>4. ASSUME NEW p \in Parts(ss)
      PROVE  /\ p[1] \in DOMAIN ss /\ p[2] \in DOMAIN ss[p[1]] /\ p = <<p[1], p[2]>>
             /\ g[p] = f[p[1]][p[2]]
             /\ g[p] \in D[p[1]] /\ g[p] \in E
             /\ PartAt(ss)[p] = F[g[p]]
  <2>1. p[1] \in DOMAIN ss /\ p[2] \in DOMAIN ss[p[1]] /\ p = <<p[1], p[2]>>
    BY DEF Parts
  <2>2. g[p] = f[p[1]][p[2]] /\ PartAt(ss)[p] = ss[p[1]][p[2]]
    BY DEF PartAt
  <2>3. QED
    BY <1>2, <2>1, <2>2
<1>5. ASSUME NEW p \in Parts(ss), NEW r \in Parts(ss), g[p] = g[r] PROVE p = r
  <2>1. p[1] = r[1]
    BY <1>4, <1>5
  <2>2. p[2] = r[2]
    BY <1>2, <1>4, <1>5, <2>1
  <2>3. QED
    BY <1>4, <2>1, <2>2
<1>6. ASSUME NEW d \in E PROVE \E p \in Parts(ss) : g[p] = d
  <2>1. PICK k \in DOMAIN ss : d \in D[k]
    OBVIOUS
  <2>2. PICK i \in DOMAIN ss[k] : f[k][i] = d
    BY <1>2, <2>1
  <2>3. <<k, i>> \in Parts(ss) /\ g[<<k, i>>] = d
    BY <1>3, <2>2
  <2> HIDE DEF g
  <2>4. QED BY <2>3
<1>7. OneToOne(g, Parts(ss), E)
  <2>1. g \in [Parts(ss) -> E]
    BY <1>4
  <2> HIDE DEF g
  <2>2. QED BY <1>5, <1>6, <2>1 DEF OneToOne
<1> HIDE DEF g
<1>8. Spread(FlattenSeq(ss), Parts(ss), PartAt(ss))
  BY FlattenSpreads
<1>9. QED
  BY <1>4, <1>7, <1>8, SpreadRenamed

----------------------------------------------------------------------------
(* Rows and statements keep their form.                                    *)

AllKeys == {k \in Tables \X Columns : k[2] \in ColumnsOf[k[1]]}
CombinedRow == {r \in UNION {[K -> Value] : K \in SUBSET AllKeys} :
                   \A k \in DOMAIN r : r[k] \in InColumn(k[2])}

LEMMA CombinedRowIs ==
  ASSUME NEW r
  PROVE  r \in CombinedRow <=> /\ r = [k \in DOMAIN r |-> r[k]]
                               /\ \A k \in DOMAIN r : k \in AllKeys /\ r[k] \in InColumn(k[2])
<1>1. ASSUME r \in CombinedRow
      PROVE  /\ r = [k \in DOMAIN r |-> r[k]]
             /\ \A k \in DOMAIN r : k \in AllKeys /\ r[k] \in InColumn(k[2])
  BY <1>1 DEF CombinedRow
<1>2. ASSUME r = [k \in DOMAIN r |-> r[k]],
             \A k \in DOMAIN r : k \in AllKeys /\ r[k] \in InColumn(k[2])
      PROVE  r \in CombinedRow
  <2>1. DOMAIN r \in SUBSET AllKeys /\ \A k \in DOMAIN r : r[k] \in Value
    BY <1>2 DEF InColumn
  <2>2. r \in [DOMAIN r -> Value]
    BY <1>2, <2>1
  <2>3. QED
    BY <1>2, <2>1, <2>2 DEF CombinedRow
<1>3. QED
  BY <1>1, <1>2

LEMMA StoredRowIs ==
  ASSUME NEW t \in Tables, NEW r \in StoredRow(t)
  PROVE  /\ r = [c \in DOMAIN r |-> r[c]]
         /\ \A c \in DOMAIN r : c \in ColumnsOf[t] /\ c \in Columns
                                /\ r[c] \in InColumn(c) /\ r[c] \in Value
<1>1. ColumnsOf[t] \in SUBSET Columns
  BY QueryAssumption
<1>2. QED
  BY <1>1 DEF StoredRow

LEMMA Qualified ==
  ASSUME NEW t \in Tables, NEW r \in StoredRow(t)
  PROVE  /\ qualify_row(t, r) \in CombinedRow
         /\ DOMAIN qualify_row(t, r) = {<<t, c>> : c \in DOMAIN r}
         /\ \A c \in DOMAIN r : qualify_row(t, r)[<<t, c>>] = r[c]
<1> DEFINE u == qualify_row(t, r)
           K == {<<t, c>> : c \in DOMAIN r}
<1>1. u = [k \in K |-> r[k[2]]]
  BY DEF qualify_row
<1>2. \A c \in DOMAIN r : <<t, c>> \in K /\ u[<<t, c>>] = r[c]
  BY <1>1
<1>3. DOMAIN u = K
  BY <1>1
<1>4. \A k \in K : k \in AllKeys /\ u[k] \in InColumn(k[2])
  BY <1>2, StoredRowIs DEF AllKeys
<1>5. u = [k \in DOMAIN u |-> u[k]]
  BY <1>1
<1> HIDE DEF u, K
<1>6. u \in CombinedRow
  BY <1>3, <1>4, <1>5, CombinedRowIs
<1>7. QED
  BY <1>2, <1>3, <1>6 DEF u, K

LEMMA NullRowIs ==
  ASSUME NEW t \in Tables
  PROVE  NullRow(t) \in CombinedRow
<1>1. \A c \in ColumnsOf[t] : c \in Columns /\ Null \in InColumn(c)
  BY QueryAssumption DEF InColumn, Value
<1>2. NullRow(t) = [k \in {<<t, c>> : c \in ColumnsOf[t]} |-> Null]
  BY DEF NullRow
<1>3. \A k \in DOMAIN NullRow(t) : k \in AllKeys /\ NullRow(t)[k] \in InColumn(k[2])
  BY <1>1, <1>2 DEF AllKeys
<1>4. QED
  BY <1>2, <1>3, CombinedRowIs

LEMMA WithIs ==
  ASSUME NEW r \in CombinedRow, NEW u \in CombinedRow
  PROVE  With(r, u) \in CombinedRow
<1> DEFINE w == With(r, u)
<1>1. w = [k \in (DOMAIN r) \cup (DOMAIN u) |-> IF k \in DOMAIN u THEN u[k] ELSE r[k]]
  BY DEF With
<1>2. \A k \in DOMAIN w : k \in AllKeys /\ w[k] \in InColumn(k[2])
  BY <1>1, CombinedRowIs
<1>3. w = [k \in DOMAIN w |-> w[k]]
  BY <1>1
<1> HIDE DEF w
<1>4. w \in CombinedRow
  BY <1>2, <1>3, CombinedRowIs
<1>5. QED BY <1>4 DEF w

LEMMA Parsed ==
  ASSUME NEW q, Statement(q)
  PROVE  /\ Statement(parse_order_by(q))
         /\ Len(q.joins) \in Nat /\ DOMAIN q.joins = 1 .. Len(q.joins)
         /\ Len(q.group_by) \in Nat /\ DOMAIN q.group_by = 1 .. Len(q.group_by)
         /\ Len(q.order_by) \in Nat /\ DOMAIN q.order_by = 1 .. Len(q.order_by)
         /\ Len(q.columns) \in Nat /\ DOMAIN q.columns = 1 .. Len(q.columns)
<1> DEFINE Changed(c) == IF c.item.agg = "" THEN [c EXCEPT !.item.ref.table = ""] ELSE c
           by == [i \in DOMAIN q.order_by |-> Changed(q.order_by[i])]
           p == parse_order_by(q)
<1>1. /\ q = [table |-> q.table, columns |-> q.columns, joins |-> q.joins, where |-> q.where,
              group_by |-> q.group_by, having |-> q.having, order_by |-> q.order_by,
              limit |-> q.limit]
      /\ q.where \in Exprs \cup {NoWhere}
      /\ q.limit = NoLimit \/ q.limit \in 0 .. 2 * MaxInt + 1
  BY DEF Statement
<1>2. /\ q.columns \in Seq(Range(q.columns)) /\ q.joins \in Seq(Range(q.joins))
      /\ q.group_by \in Seq(Range(q.group_by)) /\ q.order_by \in Seq(Range(q.order_by))
  BY DEF Statement
<1>3. /\ Len(q.joins) \in Nat /\ DOMAIN q.joins = 1 .. Len(q.joins)
      /\ Len(q.group_by) \in Nat /\ DOMAIN q.group_by = 1 .. Len(q.group_by)
      /\ Len(q.order_by) \in Nat /\ DOMAIN q.order_by = 1 .. Len(q.order_by)
      /\ Len(q.columns) \in Nat /\ DOMAIN q.columns = 1 .. Len(q.columns)
  BY <1>2, ListPlaces
<1>4. by \in Seq(Range(by))
  <2>1. by = [i \in 1 .. Len(q.order_by) |-> by[i]]
    BY <1>3
  <2> HIDE DEF by
  <2>2. \A i \in 1 .. Len(q.order_by) : by[i] \in Range(by)
    BY <2>1 DEF Range
  <2>3. QED BY <1>3, <2>1, <2>2
<1>5. p = [q EXCEPT !.order_by = by]
  BY DEF parse_order_by
<1>6. p = [table |-> q.table, columns |-> q.columns, joins |-> q.joins, where |-> q.where,
           group_by |-> q.group_by, having |-> q.having, order_by |-> by,
           limit |-> q.limit]
  <2> HIDE DEF by, p
  <2>1. QED BY <1>1, <1>5
<1>7. Statement(p)
  <2> HIDE DEF by, p
  <2>1. QED BY <1>1, <1>2, <1>4, <1>6 DEF Statement
<1>8. QED
  BY <1>3, <1>7

----------------------------------------------------------------------------
(* What a reference finds in a row.                                        *)

LEMMA FirstKeyIs ==
  ASSUME NEW r \in CombinedRow, NEW ref, Keys(r, ref) # {}
  PROVE  /\ FirstKey(r, ref) \in Keys(r, ref)
         /\ FirstKey(r, ref) \in DOMAIN r /\ FirstKey(r, ref) \in AllKeys
         /\ FirstKey(r, ref)[2] = ref.column
         /\ \A l \in Keys(r, ref) : Place[FirstKey(r, ref)[1]] <= Place[l[1]]
<1> DEFINE rank == [k \in DOMAIN r |-> Place[k[1]]]
           T == Keys(r, ref)
<1>1. T \in SUBSET DOMAIN r /\ T # {}
  BY DEF Keys
<1>2. rank \in [DOMAIN r -> Nat]
  <2>1. \A k \in DOMAIN r : Place[k[1]] \in Nat
    <3>1. \A t \in Tables : Place[t] \in Nat
      BY QueryAssumption
    <3>2. \A k \in DOMAIN r : k[1] \in Tables
      BY CombinedRowIs DEF AllKeys
    <3>3. QED BY <3>1, <3>2
  <2>2. QED BY <2>1
<1>3. \E x \in T : \A y \in T : rank[x] <= rank[y]
  <2> HIDE DEF rank, T
  <2>1. QED BY <1>1, <1>2, LeastRank
<1>4. \E k \in Keys(r, ref) : \A l \in Keys(r, ref) : Place[k[1]] <= Place[l[1]]
  BY <1>1, <1>3
<1>5. /\ FirstKey(r, ref) \in Keys(r, ref)
      /\ \A l \in Keys(r, ref) : Place[FirstKey(r, ref)[1]] <= Place[l[1]]
  BY <1>4, Zenon DEF FirstKey
<1>6. QED
  BY <1>5, CombinedRowIs DEF Keys

LEMMA LookupType ==
  ASSUME NEW r \in CombinedRow, NEW ref
  PROVE  lookup_ref(r, ref) = Missing \/ lookup_ref(r, ref) \in InColumn(ref.column)
<1>1. CASE Keys(r, ref) = {}
  BY <1>1 DEF lookup_ref
<1>2. CASE Keys(r, ref) # {}
  BY <1>2, FirstKeyIs, CombinedRowIs DEF lookup_ref
<1>3. QED
  BY <1>1, <1>2

LEMMA PairIs == ASSUME NEW A, NEW B, NEW l \in A \X B PROVE l = <<l[1], l[2]>>
  OBVIOUS

(* A key with the table named is found where it is.                        *)
LEMMA LookupQualified ==
  ASSUME NEW r \in CombinedRow, NEW t, NEW ref, ref.table = t, t # ""
  PROVE  lookup_ref(r, ref) = IF <<t, ref.column>> \in DOMAIN r THEN r[<<t, ref.column>>]
                                                                ELSE Missing
<1> DEFINE k == <<t, ref.column>>
<1>1. \A l \in DOMAIN r : l = <<l[1], l[2]>>
  <2>1. \A l \in Tables \X Columns : l = <<l[1], l[2]>>
    BY PairIs, Zenon
  <2>2. \A l \in AllKeys : l = <<l[1], l[2]>>
    BY <2>1 DEF AllKeys
  <2> HIDE DEF k
  <2>3. QED BY <2>2, CombinedRowIs
<1>2. Keys(r, ref) = IF k \in DOMAIN r THEN {k} ELSE {}
  <2>1. ASSUME NEW l PROVE l \in Keys(r, ref) <=> l \in DOMAIN r /\ l = k
    <3>1. l \in Keys(r, ref) <=> l \in DOMAIN r /\ l[2] = ref.column /\ t \in {"", l[1]}
      BY DEF Keys
    <3>2. l \in DOMAIN r => (l = k <=> l[2] = ref.column /\ l[1] = t)
      BY <1>1
    <3>3. QED BY <3>1, <3>2
  <2> HIDE DEF k
  <2>2. QED BY <2>1
<1>3. k \in DOMAIN r => FirstKey(r, ref) = k
  <2> HIDE DEF k
  <2>1. QED BY <1>2, FirstKeyIs
<1>4. QED
  BY <1>2, <1>3 DEF lookup_ref

(* A stored row as Where sees it, and its columns in a combined row.       *)
Whole(r) == [c \in Columns |-> IF c \in DOMAIN r THEN r[c] ELSE Missing]

LEMMA FlatIsWhole ==
  ASSUME NEW t \in Tables, NEW r \in StoredRow(t)
  PROVE  Flat(qualify_row(t, r)) = Whole(r)
<1> DEFINE u == qualify_row(t, r)
<1>1. /\ u \in CombinedRow
      /\ DOMAIN u = {<<t, c>> : c \in DOMAIN r}
      /\ \A c \in DOMAIN r : u[<<t, c>>] = r[c]
  BY Qualified
<1> HIDE DEF u
<1>2. ASSUME NEW c \in Columns
      PROVE  lookup_ref(u, Bare(c)) = IF c \in DOMAIN r THEN r[c] ELSE Missing
  <2>1. Bare(c).table = "" /\ Bare(c).column = c
    BY DEF Bare
  <2>2. Keys(u, Bare(c)) = IF c \in DOMAIN r THEN {<<t, c>>} ELSE {}
    <3>1. ASSUME NEW l PROVE l \in Keys(u, Bare(c)) <=> l \in DOMAIN u /\ l[2] = c
      BY <2>1 DEF Keys
    <3>2. \A l : l \in DOMAIN u /\ l[2] = c <=> c \in DOMAIN r /\ l = <<t, c>>
      BY <1>1
    <3>3. \A l : l \in Keys(u, Bare(c)) <=> c \in DOMAIN r /\ l = <<t, c>>
      BY <3>1, <3>2, Zenon
    <3>4. QED BY <3>3
  <2>3. c \in DOMAIN r => FirstKey(u, Bare(c)) = <<t, c>>
    BY <1>1, <2>2, FirstKeyIs
  <2>4. CASE c \in DOMAIN r
    <3>1. Keys(u, Bare(c)) # {}
      BY <2>2, <2>4
    <3>2. QED BY <1>1, <2>3, <2>4, <3>1 DEF lookup_ref
  <2>5. CASE c \notin DOMAIN r
    BY <2>2, <2>5 DEF lookup_ref
  <2>6. QED
    BY <2>4, <2>5
<1>3. Flat(u) = [c \in Columns |-> lookup_ref(u, Bare(c))]
  BY DEF Flat
<1>4. QED
  BY <1>2, <1>3 DEF Whole, u

----------------------------------------------------------------------------
(* The scan of a table.                                                    *)

LEMMA StoredTable ==
  ASSUME store \in Contents, NEW t \in Tables
  PROVE  /\ store[t] \in Seq(StoredRow(t)) /\ Len(store[t]) \in Nat
         /\ DOMAIN store[t] = 1 .. Len(store[t])
         /\ \A i \in DOMAIN store[t] : store[t][i] \in StoredRow(t)
<1>1. store[t] \in Seq(StoredRow(t))
  BY QueryAssumption
<1>2. QED
  BY <1>1, ListPlaces

(* An index may leave rows out, but none that the WHERE selects.           *)
LEMMA ReadIs ==
  ASSUME store \in Contents, NEW t \in Tables, NEW where \in Exprs \cup {NoWhere}
  PROVE  \E P \in SUBSET (DOMAIN store[t]) :
             /\ ReadRows(t, where) = Picked(store[t], P)
             /\ where = NoWhere => P = DOMAIN store[t]
             /\ \A i \in DOMAIN store[t] : Matches(where, Whole(store[t][i])) => i \in P
<1> DEFINE base == store[t]
           ids == DOMAIN base
           whole == [i \in ids |-> Whole(base[i])]
           Stored(i, c) == IF c \in DOMAIN base[i] THEN base[i][c] ELSE Missing
           entries == {[column |-> c, value |-> Filed(Stored(i, c)), id |-> i] :
                           c \in IndexedOf[t], i \in ids}
           P == scan_rows(ids, entries, IndexedOf[t], where)
<1>1. ReadRows(t, where) = Picked(base, P)
  BY DEF ReadRows
<1>2. IndexedOf[t] \in SUBSET Columns
  BY QueryAssumption
<1>3. ASSUME NEW c \in IndexedOf[t], NEW i \in ids
      PROVE  [column |-> c, value |-> Filed(whole[i][c]), id |-> i] \in entries
  <2>1. whole[i][c] = Stored(i, c)
    BY <1>2 DEF Whole
  <2>2. QED BY <2>1
<1>4. where = NoWhere => P = ids
  BY DEF scan_rows
<1> HIDE DEF entries
<1>5. P \subseteq ids /\ \A i \in ids : Matches(where, whole[i]) => i \in P
  <2> HIDE DEF ids, whole, P
  <2>1. QED BY <1>2, <1>3, ScanFindsAll DEF P
<1>6. \A i \in ids : whole[i] = Whole(base[i])
  OBVIOUS
<1> HIDE DEF P, whole
<1>7. QED
  BY <1>1, <1>4, <1>5, <1>6

----------------------------------------------------------------------------
(* Types.                                                                  *)

TypeInv == /\ store \in Contents
           /\ Statement(query)
           /\ stage \in {"scan", "join", "order", "project", "group", "compute", "done"}
           /\ joined \in 0 .. Len(query.joins)
           /\ rows \in Seq(CombinedRow)
           /\ groups \in Seq(Seq(CombinedRow))
           /\ stage \notin {"scan", "done"} => TablesIn(query) \subseteq Tables
           /\ answer \in {Unanswered, Refused} \/ answer[1] \in {"rows", "plan"}

LEMMA TypeInvImpliesTypeOK == TypeInv => TypeOK
<1> SUFFICES ASSUME TypeInv PROVE TypeOK
  OBVIOUS
<1>1. \A i \in DOMAIN rows : rows[i] \in CombinedRow
  BY DEF TypeInv
<1>2. ASSUME NEW i \in DOMAIN rows, NEW k \in DOMAIN rows[i]
      PROVE  k[2] \in ColumnsOf[k[1]] /\ rows[i][k] \in Value
  BY <1>1, CombinedRowIs DEF AllKeys, InColumn
<1>3. QED
  BY <1>2 DEF TypeInv, TypeOK

LEMMA JoinTables ==
  ASSUME Statement(query), TablesIn(query) \subseteq Tables
  PROVE  query.table \in Tables /\ \A i \in DOMAIN query.joins : query.joins[i].table \in Tables
BY DEF TablesIn

LEMMA ReadType ==
  ASSUME store \in Contents, NEW t \in Tables, NEW where \in Exprs \cup {NoWhere}
  PROVE  [i \in DOMAIN ReadRows(t, where) |-> qualify_row(t, ReadRows(t, where)[i])]
             \in Seq(CombinedRow)
<1>1. PICK P \in SUBSET (DOMAIN store[t]) : ReadRows(t, where) = Picked(store[t], P)
  BY ReadIs
<1>2. /\ Len(store[t]) \in Nat /\ P \in SUBSET (1 .. Len(store[t]))
      /\ \A i \in P : store[t][i] \in StoredRow(t)
  BY StoredTable
<1> DEFINE read == ReadRows(t, where)
           base == store[t]
           R    == StoredRow(t)
<1>3. read \in Seq(R)
  <2>1. Len(base) \in Nat /\ P \in SUBSET (1 .. Len(base)) /\ \A i \in P : base[i] \in R
    BY <1>2
  <2> HIDE DEF base, R
  <2>2. Picked(base, P) \in Seq(R)
    BY <2>1, PickedType
  <2>3. QED
    BY <1>1, <2>2 DEF base
<1> HIDE DEF read
<1>4. Len(read) \in Nat /\ DOMAIN read = 1 .. Len(read)
      /\ \A i \in DOMAIN read : read[i] \in StoredRow(t)
  BY <1>3, ListPlaces
<1>5. \A i \in DOMAIN read : qualify_row(t, read[i]) \in CombinedRow
  BY <1>4, Qualified
<1>6. [i \in DOMAIN read |-> qualify_row(t, read[i])] \in Seq(CombinedRow)
  BY <1>4, <1>5
<1>7. QED
  BY <1>6 DEF read

(* The places of the partners of a row.                                    *)
Places(left_row, join) ==
    {j \in DOMAIN store[join.table] :
        /\ lookup_ref(left_row, join.left) # Missing
        /\ lookup_ref(left_row, join.left) =
               lookup_ref(qualify_row(join.table, store[join.table][j]), join.right)}

Qualifying(t) == [j \in DOMAIN store[t] |-> qualify_row(t, store[t][j])]

LEMMA PartnersAre ==
  ASSUME store \in Contents, NEW join, join.table \in Tables, NEW r
  PROVE  /\ Partners(r, join) = Picked(Qualifying(join.table), Places(r, join))
         /\ Places(r, join) \in SUBSET (1 .. Len(store[join.table]))
         /\ Len(store[join.table]) \in Nat
         /\ \A j \in DOMAIN store[join.table] : Qualifying(join.table)[j] \in CombinedRow
         /\ Partners(r, join) \in Seq(CombinedRow)
         /\ Len(Partners(r, join)) = Cardinality(Places(r, join))
<1> DEFINE t == join.table
<1>1. /\ Len(store[t]) \in Nat /\ DOMAIN store[t] = 1 .. Len(store[t])
      /\ \A j \in DOMAIN store[t] : store[t][j] \in StoredRow(t)
  BY StoredTable
<1>2. Partners(r, join) = Picked(Qualifying(t), Places(r, join))
  BY DEF Partners, Places, Qualifying
<1>3. Places(r, join) \in SUBSET (1 .. Len(store[t]))
  BY <1>1 DEF Places
<1>4. \A j \in DOMAIN store[t] : Qualifying(t)[j] \in CombinedRow
  BY <1>1, Qualified DEF Qualifying
<1> HIDE DEF t
<1>5. /\ Picked(Qualifying(t), Places(r, join)) \in Seq(CombinedRow)
      /\ Len(Picked(Qualifying(t), Places(r, join))) = Cardinality(Places(r, join))
  BY <1>1, <1>3, <1>4, PickedType
<1>6. QED
  BY <1>1, <1>2, <1>3, <1>4, <1>5 DEF t

(* What a JOIN makes of one row, and of all.                               *)
Merged(join, left_row) ==
    IF Partners(left_row, join) = <<>> /\ join.type = "left"
    THEN <<With(left_row, NullRow(join.table))>>
    ELSE [i \in DOMAIN Partners(left_row, join) |-> With(left_row, Partners(left_row, join)[i])]

LEMMA MergedType ==
  ASSUME store \in Contents, NEW join, join.table \in Tables, NEW r \in CombinedRow
  PROVE  Merged(join, r) \in Seq(CombinedRow)
<1> DEFINE found == Partners(r, join)
<1>1. found \in Seq(CombinedRow)
  BY PartnersAre
<1>2. With(r, NullRow(join.table)) \in CombinedRow
  BY NullRowIs, WithIs
<1> HIDE DEF found
<1>3. /\ Len(found) \in Nat /\ DOMAIN found = 1 .. Len(found)
      /\ \A i \in DOMAIN found : With(r, found[i]) \in CombinedRow
  BY <1>1, ListPlaces, WithIs
<1>4. [i \in DOMAIN found |-> With(r, found[i])] \in Seq(CombinedRow)
  BY <1>3
<1>5. QED
  BY <1>2, <1>4 DEF Merged, found

LEMMA JoinIs ==
  ASSUME TypeInv, Join
  PROVE  LET join == query.joins[joined + 1]
             merged == [i \in DOMAIN rows |-> Merged(join, rows[i])]
         IN  /\ join.table \in Tables /\ joined + 1 \in DOMAIN query.joins
             /\ merged \in Seq(Seq(CombinedRow)) /\ Len(merged) = Len(rows)
             /\ rows' = FlattenSeq(merged)
             /\ rows' \in Seq(CombinedRow)
             /\ Spread(rows', Parts(merged), PartAt(merged))
<1> DEFINE join == query.joins[joined + 1]
           merged == [i \in DOMAIN rows |-> Merged(join, rows[i])]
<1>1. /\ store \in Contents /\ Statement(query) /\ rows \in Seq(CombinedRow)
      /\ TablesIn(query) \subseteq Tables /\ joined \in 0 .. Len(query.joins)
      /\ joined < Len(query.joins)
  BY DEF TypeInv, Join
<1>2. joined + 1 \in DOMAIN query.joins
  BY <1>1, Parsed
<1>3. join.table \in Tables
  BY <1>1, <1>2, JoinTables
<1>4. rows' = FlattenSeq(merged)
  BY DEF Join, Merged
<1> HIDE DEF join
<1>5. /\ Len(rows) \in Nat /\ DOMAIN rows = 1 .. Len(rows)
      /\ \A i \in DOMAIN rows : rows[i] \in CombinedRow
  BY <1>1, ListPlaces
<1>6. \A i \in DOMAIN rows : Merged(join, rows[i]) \in Seq(CombinedRow)
  BY <1>1, <1>3, <1>5, MergedType
<1>7. merged \in Seq(Seq(CombinedRow)) /\ Len(merged) = Len(rows)
  BY <1>5, <1>6
<1> HIDE DEF merged
<1>8. FlattenSeq(merged) \in Seq(CombinedRow)
      /\ Spread(FlattenSeq(merged), Parts(merged), PartAt(merged))
  BY <1>7, FlattenSpreads
<1>9. QED
  BY <1>2, <1>3, <1>4, <1>7, <1>8 DEF join, merged

----------------------------------------------------------------------------
(* Every step keeps the types.                                             *)

LEMMA AskTypes ==
  ASSUME TypeInv, NEW q \in Queries, Ask(q) \/ Explain(q)
  PROVE  TypeInv'
<1>1. Statement(q)
  BY QueryAssumption
<1>2. /\ store' = store /\ query' = parse_order_by(q)
      /\ stage' \in {"scan", "done"}
      /\ joined' = 0 /\ rows' = <<>> /\ groups' = <<>>
  BY DEF Ask, Explain, TypeInv
<1>3. Statement(query')
  BY <1>1, <1>2, Parsed
<1>4. joined' \in 0 .. Len(query'.joins)
  BY <1>2, <1>3, Parsed
<1>5. rows' \in Seq(CombinedRow) /\ groups' \in Seq(Seq(CombinedRow))
  BY <1>2
<1>6. answer' \in {Unanswered, Refused} \/ answer'[1] \in {"rows", "plan"}
  <2>1. CASE Ask(q)
    BY <2>1 DEF Ask
  <2>2. CASE Explain(q)
    <3>1. answer' = exec_explain(query')
      BY <2>2 DEF Explain
    <3>2. \A lines : Plan(lines)[1] = "plan"
      BY DEF Plan
    <3>3. QED BY <3>1, <3>2 DEF exec_explain
  <2>3. QED BY <2>1, <2>2
<1>7. QED
  BY <1>2, <1>3, <1>4, <1>5, <1>6 DEF TypeInv

LEMMA ScanTypes ==
  ASSUME TypeInv, Scan
  PROVE  TypeInv'
<1> DEFINE t == query.table
           w == index_where(query)
           read == ReadRows(t, w)
<1>1. /\ store \in Contents /\ Statement(query) /\ TablesIn(query) \subseteq Tables
      /\ store' = store /\ query' = query /\ stage' = "join" /\ joined' = joined
      /\ groups' = groups /\ answer' = answer
      /\ rows' = [i \in DOMAIN read |-> qualify_row(t, read[i])]
  BY DEF Scan, TypeInv
<1>2. t \in Tables
  BY <1>1, JoinTables
<1>3. w \in Exprs \cup {NoWhere}
  BY <1>1 DEF index_where, Statement
<1> HIDE DEF t, w
<1>4. rows' \in Seq(CombinedRow)
  BY <1>1, <1>2, <1>3, ReadType
<1>5. QED
  BY <1>1, <1>4 DEF TypeInv

LEMMA JoinTypes ==
  ASSUME TypeInv, Join
  PROVE  TypeInv'
<1>1. /\ store' = store /\ query' = query /\ stage' = stage /\ joined' = joined + 1
      /\ groups' = groups /\ answer' = answer /\ joined < Len(query.joins)
      /\ Statement(query)
  BY DEF Join, TypeInv
<1>2. rows' \in Seq(CombinedRow)
  BY JoinIs
<1>3. joined' \in 0 .. Len(query'.joins)
  <2>1. Len(query.joins) \in Nat /\ joined \in 0 .. Len(query.joins)
    BY <1>1, Parsed DEF TypeInv
  <2>2. QED BY <1>1, <2>1
<1>4. QED
  BY <1>1, <1>2, <1>3 DEF TypeInv

LEMMA PickedRows ==
  ASSUME NEW S, NEW s \in Seq(S), NEW P, P \subseteq DOMAIN s
  PROVE  Picked(s, P) \in Seq(S) /\ Len(Picked(s, P)) = Cardinality(P)
<1>1. Len(s) \in Nat /\ P \in SUBSET (1 .. Len(s)) /\ \A i \in P : s[i] \in S
  OBVIOUS
<1>2. QED
  BY <1>1, PickedType

LEMMA FilterTypes ==
  ASSUME TypeInv, Filter
  PROVE  TypeInv'
<1> DEFINE P == {i \in DOMAIN rows : Matches(query.where, Flat(rows[i]))}
<1>1. /\ store' = store /\ query' = query /\ joined' = joined /\ groups' = groups
      /\ answer' = answer /\ stage' \in {"group", "order"} /\ stage = "join"
      /\ rows' = Picked(rows, P) /\ rows \in Seq(CombinedRow)
  BY DEF Filter, TypeInv
<1>2. P \subseteq DOMAIN rows
  OBVIOUS
<1> HIDE DEF P
<1>3. rows' \in Seq(CombinedRow)
  BY <1>1, <1>2, PickedRows
<1>4. QED
  BY <1>1, <1>3 DEF TypeInv

LEMMA OrderIs ==
  ASSUME TypeInv, Order
  PROVE  \E p \in SetToSeqs(DOMAIN rows) :
             /\ rows' = [i \in DOMAIN rows |-> rows[p[i]]]
             /\ p \in [DOMAIN rows -> DOMAIN rows]
             /\ \A j \in DOMAIN rows : \E i \in DOMAIN rows : p[i] = j
             /\ TotalOrder(rows, CompareRows) =>
                    \A m, n \in DOMAIN rows : m < n =>
                        \/ CompareRows(rows[p[m]], rows[p[n]]) < 0
                        \/ CompareRows(rows[p[m]], rows[p[n]]) = 0 /\ p[m] < p[n]
<1> DEFINE Before(i, j) == \/ CompareRows(rows[i], rows[j]) < 0
                           \/ (CompareRows(rows[i], rows[j]) = 0 /\ i < j)
           InTurn(p) == \A m, n \in DOMAIN p : m < n => Before(p[m], p[n])
<1>1. PICK p \in SetToSeqs(DOMAIN rows) :
          /\ rows' = [i \in DOMAIN rows |-> rows[p[i]]]
          /\ TotalOrder(rows, CompareRows) => InTurn(p)
  BY DEF Order, SortedBy
<1>2. Len(rows) \in Nat /\ DOMAIN rows = 1 .. Len(rows)
  BY ListPlaces DEF TypeInv
<1>3. /\ p \in [DOMAIN rows -> DOMAIN rows]
      /\ \A j \in DOMAIN rows : \E i \in DOMAIN rows : p[i] = j
  <2> DEFINE n == Len(rows)
  <2>1. n \in Nat /\ p \in SetToSeqs(1 .. n)
    BY <1>2
  <2> HIDE DEF n, InTurn
  <2>2. p \in [1 .. n -> 1 .. n] /\ \A j \in 1 .. n : \E i \in 1 .. n : p[i] = j
    BY <2>1, PermutesAll
  <2>3. QED BY <1>2, <2>2 DEF n
<1>4. DOMAIN p = DOMAIN rows
  BY <1>3
<1>5. QED
  BY <1>1, <1>3, <1>4

LEMMA OrderTypes ==
  ASSUME TypeInv, Order
  PROVE  TypeInv'
<1>1. /\ store' = store /\ query' = query /\ joined' = joined /\ groups' = groups
      /\ answer' = answer /\ stage' = "project" /\ stage = "order"
      /\ rows \in Seq(CombinedRow)
  BY DEF Order, TypeInv
<1>2. Len(rows) \in Nat /\ DOMAIN rows = 1 .. Len(rows)
      /\ \A i \in DOMAIN rows : rows[i] \in CombinedRow
  BY <1>1, ListPlaces
<1>3. PICK p \in [DOMAIN rows -> DOMAIN rows] : rows' = [i \in DOMAIN rows |-> rows[p[i]]]
  BY OrderIs
<1>4. rows' \in Seq(CombinedRow)
  BY <1>2, <1>3
<1>5. QED
  BY <1>1, <1>4 DEF TypeInv

----------------------------------------------------------------------------
(* The groups.                                                             *)

LEMMA PlacesOfGroups ==
  ASSUME rows \in Seq(CombinedRow)
  PROVE  /\ Lists(InOrder(FirstSeen), Cardinality(FirstSeen), FirstSeen)
         /\ FirstSeen \in SUBSET (1 .. Len(rows)) /\ Cardinality(FirstSeen) \in Nat
         /\ \A i : SameGroup(i) \in SUBSET (1 .. Len(rows))
         /\ Len(rows) \in Nat /\ DOMAIN rows = 1 .. Len(rows)
<1>1. Len(rows) \in Nat /\ DOMAIN rows = 1 .. Len(rows)
  BY ListPlaces
<1>2. FirstSeen \in SUBSET (1 .. Len(rows)) /\ \A i : SameGroup(i) \in SUBSET (1 .. Len(rows))
  BY <1>1 DEF FirstSeen, SameGroup
<1>3. QED
  BY <1>1, <1>2, InOrderLists, PlacesFinite DEF Lists

LEMMA GroupTypes ==
  ASSUME TypeInv, Group
  PROVE  TypeInv'
<1>1. /\ store' = store /\ query' = query /\ joined' = joined /\ rows' = rows
      /\ answer' = answer /\ stage' = "compute" /\ stage = "group"
      /\ rows \in Seq(CombinedRow)
      /\ groups' = IF query.group_by = <<>> THEN <<rows>>
                   ELSE [g \in 1 .. Cardinality(FirstSeen) |->
                            Picked(rows, SameGroup(InOrder(FirstSeen)[g]))]
  BY DEF Group, TypeInv
<1>2. \A i : Picked(rows, SameGroup(i)) \in Seq(CombinedRow)
  BY <1>1, PlacesOfGroups, PickedRows
<1>3. Cardinality(FirstSeen) \in Nat
  BY <1>1, PlacesOfGroups
<1>4. groups' \in Seq(Seq(CombinedRow))
  BY <1>1, <1>2, <1>3
<1>5. QED
  BY <1>1, <1>4 DEF TypeInv

(* The steps that end a statement.                                         *)
Ending == \/ NoSuchTable \/ AggregateUngrouped \/ SortPanics \/ Project
          \/ Invalid \/ NotComputable \/ Compute

LEMMA EndingIs ==
  ASSUME Ending
  PROVE  /\ stage' = "done"
         /\ UNCHANGED <<store, query, joined, rows, groups>>
         /\ answer' = Refused \/ \E out : answer' = Shown(out)
<1>1. CASE Refuse
  BY <1>1 DEF Refuse
<1>2. CASE Project
  BY <1>2 DEF Project
<1>3. CASE Compute
  BY <1>3 DEF Compute
<1>4. QED
  BY <1>1, <1>2, <1>3
     DEF Ending, NoSuchTable, AggregateUngrouped, SortPanics, Invalid, NotComputable

LEMMA EndingTypes ==
  ASSUME TypeInv, Ending
  PROVE  TypeInv'
<1>1. \A out : Shown(out)[1] = "rows"
  BY DEF Shown
<1>2. QED
  BY <1>1, EndingIs DEF TypeInv

LEMMA InitTypes == Init => TypeInv
<1> SUFFICES ASSUME Init PROVE TypeInv
  OBVIOUS
<1>1. query \in Queries
  BY QueryAssumption DEF Init
<1>2. Statement(query)
  BY <1>1, QueryAssumption
<1>3. joined \in 0 .. Len(query.joins)
  BY <1>2, Parsed DEF Init
<1>4. rows \in Seq(CombinedRow) /\ groups \in Seq(Seq(CombinedRow))
  BY DEF Init
<1>5. QED
  BY <1>2, <1>3, <1>4 DEF Init, TypeInv

LEMMA TypesKept == TypeInv /\ [Next]_vars => TypeInv'
<1> SUFFICES ASSUME TypeInv, [Next]_vars PROVE TypeInv'
  OBVIOUS
<1>1. CASE \E q \in Queries : Ask(q) \/ Explain(q)
  BY <1>1, AskTypes
<1>2. CASE Scan
  BY <1>2, ScanTypes
<1>3. CASE Join
  BY <1>3, JoinTypes
<1>4. CASE Filter
  BY <1>4, FilterTypes
<1>5. CASE Order
  BY <1>5, OrderTypes
<1>6. CASE Group
  BY <1>6, GroupTypes
<1>7. CASE Ending
  BY <1>7, EndingTypes
<1>8. CASE UNCHANGED vars
  BY <1>8 DEF TypeInv, vars
<1>9. QED
  BY <1>1, <1>2, <1>3, <1>4, <1>5, <1>6, <1>7, <1>8 DEF Next, Ending

(* Every row in the work of a SELECT has only columns of its tables, with  *)
(* a value of the column's type or NULL, through scans, JOINs, sorting and *)
(* grouping, however many (exec_select, executor/mod.rs:241-340).          *)
THEOREM TypeCorrect == Spec => []TypeOK
<1>1. Spec => []TypeInv
  BY InitTypes, TypesKept, PTL DEF Spec
<1>2. QED
  BY <1>1, TypeInvImpliesTypeOK, PTL

LEMMA ListsOnce ==
  ASSUME NEW f, NEW n, NEW P \in SUBSET Nat, Lists(f, n, P), NEW i \in 1 .. n, NEW j \in 1 .. n,
         f[i] = f[j]
  PROVE  i = j
<1>1. n \in Nat /\ f[i] \in Nat /\ f[j] \in Nat
  BY DEF Lists
<1>2. ~(f[i] < f[j]) /\ ~(f[j] < f[i])
  BY <1>1
<1>3. ~(i < j) /\ ~(j < i)
  BY <1>2 DEF Lists
<1>4. QED
  BY <1>1, <1>3

----------------------------------------------------------------------------
(* A list in parts.                                                        *)

(* When every place is in one of the sets, what is picked at each of them, *)
(* one set behind another, is the list in another order.                   *)
LEMMA PartsAtOnce ==
  ASSUME NEW S, NEW s \in Seq(S), NEW c \in Nat, NEW G,
         \A g \in 1 .. c : G[g] \subseteq DOMAIN s,
         \A g, h \in 1 .. c : \A j \in G[g] : j \in G[h] => g = h,
         \A j \in DOMAIN s : \E g \in 1 .. c : j \in G[g],
         NEW ss \in Seq(Seq(S)), DOMAIN ss = 1 .. c, \A g \in 1 .. c : ss[g] = Picked(s, G[g])
  PROVE  Spread(FlattenSeq(ss), DOMAIN s, s)
<1> DEFINE n == Len(s)
<1>1. n \in Nat /\ DOMAIN s = 1 .. n
  BY ListPlaces
<1> HIDE DEF n
<1>2. ASSUME NEW g \in 1 .. c PROVE Spread(ss[g], G[g], s)
  <2> DEFINE P == G[g]
  <2>1. P \in SUBSET (1 .. n) /\ ss[g] = Picked(s, P)
    BY <1>1
  <2> HIDE DEF P
  <2>2. Spread(Picked(s, P), P, s)
    BY <1>1, <2>1, PickedSpreads
  <2>3. QED BY <2>1, <2>2 DEF P
<1>3. QED
  BY <1>2, FlattenOver

(* The groups are listed by their first rows, which have different keys.   *)
LEMMA GroupHeads ==
  ASSUME rows \in Seq(CombinedRow)
  PROVE  LET c == Cardinality(FirstSeen)
             f == InOrder(FirstSeen)
         IN  /\ \A g \in 1 .. c : /\ f[g] \in DOMAIN rows /\ f[g] \in Nat
                                  /\ f[g] \in SameGroup(f[g])
                                  /\ \A j \in SameGroup(f[g]) : f[g] <= j
             /\ \A g, h \in 1 .. c : g < h => f[g] < f[h]
             /\ \A g, h \in 1 .. c : GroupKey(rows[f[g]]) = GroupKey(rows[f[h]]) => g = h
             /\ \A j \in DOMAIN rows : \E g \in 1 .. c : j \in SameGroup(f[g])
<1> DEFINE c == Cardinality(FirstSeen)
           f == InOrder(FirstSeen)
           K(i) == GroupKey(rows[i])
<1>1. /\ Lists(f, c, FirstSeen) /\ FirstSeen \in SUBSET (1 .. Len(rows))
      /\ Len(rows) \in Nat /\ DOMAIN rows = 1 .. Len(rows)
  BY PlacesOfGroups
<1>2. \A i : i \in FirstSeen <=> i \in DOMAIN rows /\ \A j \in 1 .. i - 1 : K(j) # K(i)
  BY DEF FirstSeen
<1>3. \A i, j : j \in SameGroup(i) <=> j \in DOMAIN rows /\ K(j) = K(i)
  BY DEF SameGroup
<1> HIDE DEF c, f, K
<1>4. ASSUME NEW i \in FirstSeen, NEW j \in DOMAIN rows, K(j) = K(i) PROVE i <= j
  <2>1. i \in Nat /\ j \in 1 .. Len(rows)
    BY <1>1
  <2>2. j \notin 1 .. i - 1
    BY <1>2, <1>4
  <2>3. QED BY <1>1, <2>1, <2>2
<1>5. \A g \in 1 .. c : f[g] \in FirstSeen
  BY <1>1 DEF Lists
<1>6. ASSUME NEW g \in 1 .. c
      PROVE  /\ f[g] \in DOMAIN rows /\ f[g] \in Nat
             /\ f[g] \in SameGroup(f[g])
             /\ \A j \in SameGroup(f[g]) : f[g] <= j
  <2>1. f[g] \in FirstSeen /\ f[g] \in DOMAIN rows /\ f[g] \in Nat
    <3>1. f[g] \in FirstSeen
      BY <1>5
    <3>2. \A i \in FirstSeen : i \in DOMAIN rows
      BY <1>2
    <3>3. \A i \in DOMAIN rows : i \in Nat
      BY <1>1
    <3>4. QED BY <3>1, <3>2, <3>3
  <2>2. f[g] \in SameGroup(f[g])
    BY <1>3, <2>1, Zenon
  <2>3. ASSUME NEW j \in SameGroup(f[g]) PROVE f[g] <= j
    BY <1>3, <1>4, <2>1
  <2>4. QED BY <2>1, <2>2, <2>3
<1>7. ASSUME NEW g \in 1 .. c, NEW h \in 1 .. c, K(f[g]) = K(f[h]) PROVE g = h
  <2>1. f[g] <= f[h] /\ f[h] <= f[g] /\ f[g] \in Nat /\ f[h] \in Nat
    BY <1>4, <1>5, <1>6, <1>7
  <2>2. f[g] = f[h]
    BY <2>1
  <2>3. QED
    BY <1>1, <2>2, ListsOnce
<1>8. ASSUME NEW j \in DOMAIN rows PROVE \E g \in 1 .. c : j \in SameGroup(f[g])
  <2> DEFINE T == {i \in DOMAIN rows : K(i) = K(j)}
  <2>1. T \in SUBSET Nat /\ T # {}
    BY <1>1
  <2> HIDE DEF T
  <2>2. PICK i \in T : \A k \in T : i <= k
    BY <2>1, LeastNat
  <2>3. i \in DOMAIN rows /\ K(i) = K(j)
    BY DEF T
  <2>4. i \in FirstSeen
    <3>1. SUFFICES ASSUME NEW k \in 1 .. i - 1, K(k) = K(i) PROVE FALSE
      BY <1>2, <2>3
    <3>2. k \in DOMAIN rows /\ k < i
      BY <1>1, <2>3
    <3>3. k \in T
      BY <2>3, <3>1, <3>2 DEF T
    <3>4. QED BY <1>1, <2>2, <2>3, <3>2, <3>3
  <2>5. PICK g \in 1 .. c : f[g] = i
    BY <1>1, <2>4 DEF Lists
  <2>6. QED
    BY <1>3, <2>3, <2>5
<1>9. \A g, h \in 1 .. c : g < h => f[g] < f[h]
  BY <1>1 DEF Lists
<1>10. QED
  BY <1>6, <1>7, <1>8, <1>9 DEF c, f, K

(* What Group makes of the rows.                                           *)
GroupsOf == IF query.group_by = <<>> THEN <<rows>>
            ELSE [g \in 1 .. Cardinality(FirstSeen) |->
                     Picked(rows, SameGroup(InOrder(FirstSeen)[g]))]

LEMMA GroupsSpread ==
  ASSUME rows \in Seq(CombinedRow)
  PROVE  GroupsOf \in Seq(Seq(CombinedRow)) /\ Spread(FlattenSeq(GroupsOf), DOMAIN rows, rows)
<1>1. CASE query.group_by = <<>>
  <2> DEFINE G == <<DOMAIN rows>>
             P == InOrder(DOMAIN rows)
             ss == <<rows>>
             h == [p \in Parts(ss) |-> p[2]]
  <2>1. GroupsOf = ss
    BY <1>1 DEF GroupsOf
  <2>2. ss \in Seq(Seq(CombinedRow))
    OBVIOUS
  <2>3. \A j \in DOMAIN rows : j \in Nat
    OBVIOUS
  <2>4. ASSUME NEW p \in Parts(ss)
        PROVE  p[2] \in DOMAIN rows /\ p = <<1, p[2]>> /\ PartAt(ss)[p] = rows[p[2]]
    BY DEF Parts, PartAt
  <2>5. \A j \in DOMAIN rows : <<1, j>> \in Parts(ss)
    BY <2>3 DEF Parts
  <2> HIDE DEF ss
  <2>6. OneToOne(h, Parts(ss), DOMAIN rows)
    BY <2>4, <2>5 DEF OneToOne
  <2>7. \A p \in Parts(ss) : PartAt(ss)[p] = rows[h[p]]
    BY <2>4
  <2> HIDE DEF h
  <2>8. Spread(FlattenSeq(ss), Parts(ss), PartAt(ss))
    BY <2>2, FlattenSpreads
  <2>9. QED
    BY <2>1, <2>2, <2>6, <2>7, <2>8, SpreadRenamed
<1>2. CASE query.group_by # <<>>
  <2> DEFINE c == Cardinality(FirstSeen)
             f == InOrder(FirstSeen)
             G == [g \in 1 .. c |-> SameGroup(f[g])]
             ss == [g \in 1 .. c |-> Picked(rows, G[g])]
  <2>1. GroupsOf = ss
    BY <1>2 DEF GroupsOf
  <2>2. c \in Nat /\ \A i : SameGroup(i) \subseteq DOMAIN rows
    BY PlacesOfGroups
  <2>3. /\ \A g, h \in 1 .. c : GroupKey(rows[f[g]]) = GroupKey(rows[f[h]]) => g = h
        /\ \A j \in DOMAIN rows : \E g \in 1 .. c : j \in SameGroup(f[g])
    BY GroupHeads
  <2>4. \A i, j : j \in SameGroup(i) => GroupKey(rows[j]) = GroupKey(rows[i])
    BY DEF SameGroup
  <2> HIDE DEF c, f
  <2>5. /\ \A g \in 1 .. c : G[g] \subseteq DOMAIN rows
        /\ \A g, h \in 1 .. c : \A j \in G[g] : j \in G[h] => g = h
        /\ \A j \in DOMAIN rows : \E g \in 1 .. c : j \in G[g]
    BY <2>2, <2>3, <2>4
  <2> HIDE DEF G, ss
  <2>6. ss = [g \in 1 .. c |-> Picked(rows, G[g])]
    BY DEF ss
  <2>7. ss \in Seq(Seq(CombinedRow)) /\ DOMAIN ss = 1 .. c
    <3>1. \A g \in 1 .. c : Picked(rows, G[g]) \in Seq(CombinedRow)
      BY <2>5, PickedRows
    <3>2. QED BY <2>2, <2>6, <3>1
  <2>8. Spread(FlattenSeq(ss), DOMAIN rows, rows)
    <3>1. \A g \in 1 .. c : ss[g] = Picked(rows, G[g])
      BY <2>6
    <3>2. QED BY <2>2, <2>5, <2>7, <3>1, PartsAtOnce
  <2>9. QED
    BY <2>1, <2>7, <2>8
<1>3. QED
  BY <1>1, <1>2

(* A group starts with its first row and holds the rows of its key.        *)
LEMMA GroupIs ==
  ASSUME rows \in Seq(CombinedRow), query.group_by # <<>>,
         NEW g \in 1 .. Cardinality(FirstSeen)
  PROVE  LET i == InOrder(FirstSeen)[g]
             group == GroupsOf[g]
         IN  /\ group \in Seq(CombinedRow) /\ group # <<>>
             /\ Head(group) = rows[i]
             /\ \A r \in Range(group) : GroupKey(r) = GroupKey(rows[i])
             /\ Min({j \in DOMAIN rows : rows[j] = Head(group)}) = i
<1> DEFINE i == InOrder(FirstSeen)[g]
           P == SameGroup(i)
           n == Cardinality(P)
           q == InOrder(P)
           group == GroupsOf[g]
<1>1. group = Picked(rows, P)
  BY DEF GroupsOf
<1>2. group = [k \in 1 .. n |-> rows[q[k]]]
  BY <1>1 DEF Picked
<1>3. /\ i \in DOMAIN rows /\ i \in Nat /\ i \in P
      /\ \A j \in P : i <= j
  BY GroupHeads
<1>4. /\ P \subseteq DOMAIN rows /\ Lists(q, n, P) /\ \A j \in P : j \in Nat
  BY PlacesOfGroups, InOrderLists
<1>5. \A j : j \in P <=> j \in DOMAIN rows /\ GroupKey(rows[j]) = GroupKey(rows[i])
  BY DEF SameGroup
<1> HIDE DEF i, P, n, q, group
<1>6. group \in Seq(CombinedRow) /\ Len(group) = n
  BY <1>1, <1>4, PickedRows DEF n
<1>7. \A k \in 1 .. n : q[k] \in P
  BY <1>4 DEF Lists
<1>8. 1 \in 1 .. n /\ q[1] = i
  <2>1. PICK k \in 1 .. n : q[k] = i
    BY <1>3, <1>4 DEF Lists
  <2>2. n \in Nat /\ 1 \in 1 .. n
    BY <1>4, <2>1 DEF Lists
  <2>3. i <= q[1] /\ q[1] \in Nat
    BY <1>3, <1>4, <1>7, <2>2
  <2>4. ~(1 < k)
    BY <1>3, <1>4, <2>1, <2>2, <2>3 DEF Lists
  <2>5. QED BY <2>1, <2>2, <2>4
<1>9. group # <<>> /\ Head(group) = rows[i]
  <2>1. DOMAIN group = 1 .. n /\ group[1] = rows[i]
    BY <1>2, <1>8
  <2>2. QED BY <1>6, <1>8, <2>1
<1>10. ASSUME NEW r \in Range(group) PROVE GroupKey(r) = GroupKey(rows[i])
  <2>1. PICK k \in DOMAIN group : r = group[k]
    BY DEF Range
  <2>2. k \in 1 .. n /\ r = rows[q[k]]
    BY <1>2, <2>1
  <2>3. QED BY <1>5, <1>7, <2>2, Zenon
<1>11. Min({j \in DOMAIN rows : rows[j] = Head(group)}) = i
  <2> DEFINE T == {j \in DOMAIN rows : rows[j] = rows[i]}
  <2>1. i \in T /\ \A j \in T : i <= j /\ j \in Nat
    BY <1>3, <1>4, <1>5
  <2> HIDE DEF T
  <2>2. Min(T) \in T /\ \A j \in T : Min(T) <= j
    BY <2>1 DEF Min
  <2>3. Min(T) = i
    BY <1>3, <2>1, <2>2
  <2>4. QED BY <1>9, <2>3 DEF T
<1>12. QED
  BY <1>6, <1>9, <1>10, <1>11 DEF i, group

LEMMA GroupsOfPartition ==
  ASSUME rows \in Seq(CombinedRow), groups = GroupsOf
  PROVE  GroupsPartition
<1> DEFINE Agree(r1, r2) == \A i \in DOMAIN query.group_by :
               Filed(lookup_ref(r1, query.group_by[i])) = Filed(lookup_ref(r2, query.group_by[i]))
           First(g) == Min({i \in DOMAIN rows : rows[i] = Head(groups[g])})
           flat == FlattenSeq(groups)
           f == InOrder(FirstSeen)
           c == Cardinality(FirstSeen)
<1>1. \A row : Count(flat, row) = Count(rows, row)
  <2>1. flat \in Seq(CombinedRow) /\ Spread(flat, DOMAIN rows, rows)
    BY GroupsSpread, FlattenSpreads
  <2> HIDE DEF flat
  <2>2. \A row : Count(flat, row) = Cardinality({i \in DOMAIN rows : rows[i] = row})
    BY <2>1, SpreadCounts
  <2>3. QED BY <2>2 DEF Count
<1>2. \A r1, r2 : Agree(r1, r2) <=> GroupKey(r1) = GroupKey(r2)
  <2>1. ASSUME NEW r1, NEW r2 PROVE Agree(r1, r2) <=> GroupKey(r1) = GroupKey(r2)
    <3>1. Agree(r1, r2) => GroupKey(r1) = GroupKey(r2)
      BY DEF GroupKey
    <3>2. ASSUME GroupKey(r1) = GroupKey(r2), NEW i \in DOMAIN query.group_by
          PROVE  Filed(lookup_ref(r1, query.group_by[i]))
                     = Filed(lookup_ref(r2, query.group_by[i]))
      <4>1. /\ GroupKey(r1)[i] = Filed(lookup_ref(r1, query.group_by[i]))
            /\ GroupKey(r2)[i] = Filed(lookup_ref(r2, query.group_by[i]))
        BY DEF GroupKey
      <4>2. QED BY <3>2, <4>1
    <3>3. QED BY <3>1, <3>2
  <2>2. QED BY <2>1
<1>3. ASSUME query.group_by # <<>>, NEW g \in DOMAIN groups, NEW h \in DOMAIN groups
      PROVE  /\ groups[g] # <<>>
             /\ g < h => First(g) < First(h)
             /\ \A r1 \in Range(groups[g]), r2 \in Range(groups[h]) :
                    Agree(r1, r2) <=> g = h
  <2>1. g \in 1 .. c /\ h \in 1 .. c
    BY <1>3 DEF GroupsOf
  <2>2. /\ g < h => f[g] < f[h]
        /\ GroupKey(rows[f[g]]) = GroupKey(rows[f[h]]) => g = h
    BY <2>1, GroupHeads
  <2>3. /\ groups[g] # <<>> /\ First(g) = f[g]
        /\ \A r \in Range(groups[g]) : GroupKey(r) = GroupKey(rows[f[g]])
    BY <1>3, <2>1, GroupIs
  <2>4. /\ First(h) = f[h]
        /\ \A r \in Range(groups[h]) : GroupKey(r) = GroupKey(rows[f[h]])
    BY <1>3, <2>1, GroupIs
  <2> HIDE DEF Agree, First, f, c
  <2>5. \A r1 \in Range(groups[g]), r2 \in Range(groups[h]) : Agree(r1, r2) <=> g = h
    BY <1>2, <2>2, <2>3, <2>4
  <2>6. QED BY <2>2, <2>3, <2>4, <2>5
<1> HIDE DEF Agree, First
<1>4. QED
  BY <1>1, <1>3 DEF GroupsPartition, Agree, First, flat

GroupsInv == TypeInv /\ (stage = "compute" => groups = GroupsOf)

LEMMA GroupsKept == GroupsInv /\ [Next]_vars => GroupsInv'
<1> SUFFICES ASSUME GroupsInv, [Next]_vars PROVE GroupsInv'
  OBVIOUS
<1>1. TypeInv'
  BY TypesKept DEF GroupsInv
<1>2. ASSUME stage' = "compute" PROVE groups' = GroupsOf'
  <2>1. CASE Group
    <3>1. /\ rows' = rows /\ query' = query
          /\ groups' = IF query.group_by = <<>> THEN <<rows>>
                       ELSE [g \in 1 .. Cardinality(FirstSeen) |->
                                Picked(rows, SameGroup(InOrder(FirstSeen)[g]))]
      BY <2>1 DEF Group
    <3>2. GroupsOf' = GroupsOf
      BY <3>1 DEF GroupsOf, FirstSeen, SameGroup, GroupKey
    <3>3. QED BY <3>1, <3>2 DEF GroupsOf
  <2>2. CASE UNCHANGED vars
    <3>1. stage = "compute" /\ groups' = groups /\ rows' = rows /\ query' = query
      BY <1>2, <2>2 DEF vars
    <3>2. GroupsOf' = GroupsOf
      BY <3>1 DEF GroupsOf, FirstSeen, SameGroup, GroupKey
    <3>3. QED BY <3>1, <3>2 DEF GroupsInv
  <2>3. CASE Ending
    BY <1>2, <2>3, EndingIs
  <2>4. CASE \/ \E q \in Queries : Ask(q) \/ Explain(q)
             \/ Scan \/ Join \/ Filter \/ Order
    BY <1>2, <2>4 DEF Ask, Explain, Scan, Join, Filter, Order
  <2>5. QED
    BY <2>1, <2>2, <2>3, <2>4 DEF Next, Ending
<1>3. QED
  BY <1>1, <1>2 DEF GroupsInv

(* However many rows there are and whatever they are grouped by: GROUP BY  *)
(* puts every row into exactly one group, rows share a group exactly when  *)
(* they agree on the grouping columns, and the groups are in first-seen    *)
(* order (exec_grouped, executor/mod.rs:1221-1241).                        *)
THEOREM GroupsCorrect == Spec => []GroupsPartition
<1>1. Init => GroupsInv
  BY InitTypes DEF Init, GroupsInv
<1>2. Spec => []GroupsInv
  BY <1>1, GroupsKept, PTL DEF Spec
<1>3. GroupsInv => GroupsPartition
  <2>1. stage # "compute" => GroupsPartition
    BY DEF GroupsPartition
  <2>2. QED
    BY <2>1, GroupsOfPartition DEF GroupsInv, TypeInv
<1>4. QED
  BY <1>2, <1>3, PTL

----------------------------------------------------------------------------
(* The rows of a SELECT are the pairs it asks for.                         *)

(* The names RowsComplete gives to the parts of a statement with at most   *)
(* one JOIN.                                                               *)
OneJoin == \A i \in DOMAIN query.joins :
               /\ i = 1
               /\ query.joins[1].left.table = query.table
               /\ query.joins[1].right.table = query.joins[1].table
               /\ query.joins[1].table # query.table

On(i, j) == LET join == query.joins[1]
                base == store[query.table]
                other == store[join.table]
            IN  /\ join.left.column \in DOMAIN base[i]
                /\ join.right.column \in DOMAIN other[j]
                /\ base[i][join.left.column] = other[j][join.right.column]

Alone(i) == /\ query.joins[1].type = "left"
            /\ ~\E j \in DOMAIN store[query.joins[1].table] : On(i, j)

Pairs == IF query.joins = <<>> THEN {<<i, 0>> : i \in DOMAIN store[query.table]}
         ELSE {p \in (DOMAIN store[query.table]) \X (DOMAIN store[query.joins[1].table]) :
                   On(p[1], p[2])}
              \cup {<<i, 0>> : i \in {k \in DOMAIN store[query.table] : Alone(k)}}

Combined(p) == With(qualify_row(query.table, store[query.table][p[1]]),
                    CASE query.joins = <<>> -> <<>>
                      [] p[2] # 0 -> qualify_row(query.joins[1].table,
                                                 store[query.joins[1].table][p[2]])
                      [] OTHER -> NullRow(query.joins[1].table))

CombinedAt == [p \in Pairs |-> Combined(p)]
Expected == {p \in Pairs : Matches(query.where, Flat(Combined(p)))}

LEMMA ExpectedComplete ==
  ASSUME rows \in Seq(CombinedRow), Spread(rows, Expected, CombinedAt)
  PROVE  RowsComplete
<1>1. \A row : Count(rows, row) = Cardinality({p \in Expected : CombinedAt[p] = row})
  BY SpreadCounts
<1>2. ASSUME NEW row
      PROVE  {p \in Expected : CombinedAt[p] = row} = {p \in Expected : Combined(p) = row}
  <2>1. \A p \in Expected : CombinedAt[p] = Combined(p)
    BY DEF Expected, CombinedAt
  <2>2. QED BY <2>1
<1>3. \A row : Count(rows, row) = Cardinality({p \in Expected : Combined(p) = row})
  BY <1>1, <1>2
<1>4. QED
  BY <1>3, Zenon DEF RowsComplete, Expected, Pairs, Combined, On, Alone

(* A scan shows the rows it picks, and picks all that WHERE selects.       *)
LEMMA ScanSpreads ==
  ASSUME TypeInv, Scan
  PROVE  \E P \in SUBSET (DOMAIN store[query.table]) :
             /\ Spread(rows', P, Qualifying(query.table))
             /\ index_where(query) = NoWhere => P = DOMAIN store[query.table]
             /\ \A i \in DOMAIN store[query.table] :
                    Matches(index_where(query), Flat(Qualifying(query.table)[i])) => i \in P
<1> DEFINE t == query.table
           w == index_where(query)
           base == store[t]
           read == ReadRows(t, w)
<1>1. /\ store \in Contents /\ t \in Tables /\ w \in Exprs \cup {NoWhere}
      /\ rows' = [i \in DOMAIN read |-> qualify_row(t, read[i])]
  BY JoinTables DEF TypeInv, Scan, index_where, Statement
<1> HIDE DEF w
<1>2. PICK P \in SUBSET (DOMAIN base) :
          /\ read = Picked(base, P)
          /\ w = NoWhere => P = DOMAIN base
          /\ \A i \in DOMAIN base : Matches(w, Whole(base[i])) => i \in P
  <2> HIDE DEF t
  <2>1. QED BY <1>1, ReadIs
<1>3. /\ Len(base) \in Nat /\ DOMAIN base = 1 .. Len(base)
      /\ \A i \in DOMAIN base : base[i] \in StoredRow(t)
  <2> HIDE DEF t
  <2>1. QED BY <1>1, StoredTable
<1>4. \A i \in DOMAIN base : Flat(Qualifying(t)[i]) = Whole(base[i])
  <2>1. \A i \in DOMAIN base : Qualifying(t)[i] = qualify_row(t, base[i])
    BY DEF Qualifying
  <2> HIDE DEF t, base
  <2>2. QED BY <1>1, <1>3, <2>1, FlatIsWhole
<1>5. Spread(rows', P, Qualifying(t))
  <2>1. Spread(read, P, base)
    <3> DEFINE n == Len(base)
    <3>1. n \in Nat /\ P \in SUBSET (1 .. n)
      BY <1>3
    <3> HIDE DEF read, base, n
    <3>2. Spread(Picked(base, P), P, base)
      BY <3>1, PickedSpreads
    <3>3. QED BY <1>2, <3>2
  <2>2. PICK h : OneToOne(h, DOMAIN read, P) /\ \A i \in DOMAIN read : read[i] = base[h[i]]
    BY <2>1 DEF Spread
  <2> HIDE DEF read
  <2>3. DOMAIN rows' = DOMAIN read
    BY <1>1
  <2>4. \A i \in DOMAIN read : h[i] \in DOMAIN base
    BY <2>2 DEF OneToOne
  <2>5. \A i \in DOMAIN rows' : rows'[i] = Qualifying(t)[h[i]]
    BY <1>1, <2>2, <2>3, <2>4 DEF Qualifying
  <2>6. QED
    BY <2>2, <2>3, <2>5 DEF Spread
<1>6. QED
  BY <1>2, <1>4, <1>5 DEF w

(* What Filter leaves of rows that spread.                                 *)
LEMMA FilterSpreads ==
  ASSUME TypeInv, Filter, NEW D, NEW F, Spread(rows, D, F)
  PROVE  /\ Spread(rows', {d \in D : Matches(query.where, Flat(F[d]))}, F)
         /\ \A d \in D : F[d] \in CombinedRow
<1> DEFINE Holds(r) == Matches(query.where, Flat(r))
           P == {i \in DOMAIN rows : Holds(rows[i])}
           E == {d \in D : Holds(F[d])}
<1>1. /\ rows' = Picked(rows, P) /\ rows \in Seq(CombinedRow)
  BY DEF Filter, TypeInv
<1>2. \A i \in DOMAIN rows : rows[i] \in CombinedRow
  BY <1>1
<1>3. \A d \in D : F[d] \in CombinedRow
  <2>1. PICK h : OneToOne(h, DOMAIN rows, D) /\ \A i \in DOMAIN rows : rows[i] = F[h[i]]
    BY DEF Spread
  <2>2. \A d \in D : \E i \in DOMAIN rows : h[i] = d
    BY <2>1 DEF OneToOne
  <2>3. QED BY <1>2, <2>1, <2>2
<1> HIDE DEF Holds
<1>4. /\ P \in SUBSET (DOMAIN rows) /\ E \in SUBSET D
      /\ \A i \in DOMAIN rows, d \in D : rows[i] = F[d] => (i \in P <=> d \in E)
  OBVIOUS
<1> HIDE DEF P, E
<1>5. Spread(Picked(rows, P), E, F)
  BY <1>1, <1>4, SpreadPicked
<1>6. QED
  BY <1>1, <1>3, <1>5 DEF Holds, E

(* What a reference that names its table finds in a row of the table.      *)
LEMMA OwnColumn ==
  ASSUME NEW t \in Tables, NEW r \in StoredRow(t), NEW ref, ref.table = t
  PROVE  /\ ref.column \in DOMAIN r => /\ lookup_ref(qualify_row(t, r), ref) = r[ref.column]
                                       /\ r[ref.column] # Missing
         /\ ref.column \notin DOMAIN r => lookup_ref(qualify_row(t, r), ref) = Missing
<1> DEFINE u == qualify_row(t, r)
           c == ref.column
<1>1. /\ u \in CombinedRow /\ \A l : l \in DOMAIN u <=> \E d \in DOMAIN r : l = <<t, d>>
      /\ \A d \in DOMAIN r : u[<<t, d>>] = r[d]
  <2>1. u \in CombinedRow /\ DOMAIN u = {<<t, d>> : d \in DOMAIN r}
        /\ \A d \in DOMAIN r : u[<<t, d>>] = r[d]
    BY Qualified
  <2> HIDE DEF u
  <2>2. \A l : l \in DOMAIN u <=> \E d \in DOMAIN r : l = <<t, d>>
    BY <2>1
  <2>3. QED BY <2>1, <2>2
<1>2. t # ""
  BY QueryAssumption
<1> HIDE DEF u
<1>3. lookup_ref(u, ref) = IF <<t, c>> \in DOMAIN u THEN u[<<t, c>>] ELSE Missing
  BY <1>1, <1>2, LookupQualified
<1> HIDE DEF c
<1>4. <<t, c>> \in DOMAIN u <=> c \in DOMAIN r
  BY <1>1
<1>5. c \in DOMAIN r => r[c] # Missing
  <2>1. c \in DOMAIN r => r[c] \in Value
    BY StoredRowIs
  <2>2. Missing \notin Value
    BY DEF Missing, Value, Null
  <2>3. QED BY <2>1, <2>2
<1>6. QED
  BY <1>1, <1>3, <1>4, <1>5 DEF u, c

LEMMA PlacesOn ==
  ASSUME store \in Contents, query.table \in Tables, query.joins[1].table \in Tables,
         query.joins[1].left.table = query.table,
         query.joins[1].right.table = query.joins[1].table,
         NEW i \in DOMAIN store[query.table], NEW j
  PROVE  j \in Places(Qualifying(query.table)[i], query.joins[1])
             <=> j \in DOMAIN store[query.joins[1].table] /\ On(i, j)
<1> DEFINE t == query.table
           join == query.joins[1]
           base == store[t]
           other == store[join.table]
           r == Qualifying(t)[i]
           Beside == qualify_row(join.table, other[j])
<1>1. /\ base[i] \in StoredRow(t) /\ (j \in DOMAIN other => other[j] \in StoredRow(join.table))
  BY StoredTable
<1>2. r = qualify_row(t, base[i])
  BY DEF Qualifying
<1>3. j \in Places(r, join) <=> /\ j \in DOMAIN other
                                /\ lookup_ref(r, join.left) # Missing
                                /\ lookup_ref(r, join.left) = lookup_ref(Beside, join.right)
  BY DEF Places
<1>4. On(i, j) <=> /\ join.left.column \in DOMAIN base[i]
                   /\ join.right.column \in DOMAIN other[j]
                   /\ base[i][join.left.column] = other[j][join.right.column]
  BY DEF On
<1> DEFINE left == join.left
           right == join.right
           jt == join.table
<1>5. t \in Tables /\ jt \in Tables /\ left.table = t /\ right.table = jt
  OBVIOUS
<1> HIDE DEF t, left, right, jt
<1>6. /\ left.column \in DOMAIN base[i] => /\ lookup_ref(r, left) = base[i][left.column]
                                           /\ base[i][left.column] # Missing
      /\ left.column \notin DOMAIN base[i] => lookup_ref(r, left) = Missing
  <2> HIDE DEF base, r
  <2>1. QED BY <1>1, <1>2, <1>5, OwnColumn
<1>7. j \in DOMAIN other =>
          /\ right.column \in DOMAIN other[j] => /\ lookup_ref(Beside, right) = other[j][right.column]
                                                 /\ other[j][right.column] # Missing
          /\ right.column \notin DOMAIN other[j] => lookup_ref(Beside, right) = Missing
  <2>1. Beside = qualify_row(jt, other[j]) /\ (j \in DOMAIN other => other[j] \in StoredRow(jt))
    BY <1>1 DEF jt
  <2> HIDE DEF other, Beside
  <2>2. QED BY <1>5, <2>1, OwnColumn
<1> HIDE DEF base, other, r, Beside
<1>8. j \in Places(r, join) <=> j \in DOMAIN other /\ On(i, j)
  BY <1>3, <1>4, <1>6, <1>7 DEF left, right
<1>9. QED
  BY <1>8 DEF t, r, other

(* A base row beside each of its partners, or beside NULLs.                *)
LEMMA MergedSpreads ==
  ASSUME store \in Contents, OneJoin, query.table \in Tables, query.joins # <<>>,
         1 \in DOMAIN query.joins, query.joins[1].table \in Tables,
         NEW i \in DOMAIN store[query.table]
  PROVE  Spread(Merged(query.joins[1], Qualifying(query.table)[i]),
                {p \in Pairs : p[1] = i}, CombinedAt)
<1> DEFINE t == query.table
           join == query.joins[1]
           r == Qualifying(t)[i]
           N == NullRow(join.table)
           Q == Qualifying(join.table)
           P == Places(r, join)
           found == Partners(r, join)
           D == {p \in Pairs : p[1] = i}
           other == store[join.table]
<1>1. \A j : j \in P <=> j \in DOMAIN other /\ On(i, j)
  BY PlacesOn DEF OneJoin
<1>2. Pairs = {p \in (DOMAIN store[t]) \X (DOMAIN other) : On(p[1], p[2])}
              \cup {<<k, 0>> : k \in {l \in DOMAIN store[t] : Alone(l)}}
  BY DEF Pairs
<1>3. Alone(i) <=> join.type = "left" /\ ~\E j \in DOMAIN other : On(i, j)
  BY DEF Alone
<1>4. \A j \in DOMAIN other : j \in Nat /\ j # 0
  BY StoredTable
<1>5. /\ \A j \in DOMAIN other : On(i, j) => <<i, j>> \in D
      /\ Alone(i) => <<i, 0>> \in D
      /\ \A p \in D : \/ p[2] \in DOMAIN other /\ On(i, p[2]) /\ p = <<i, p[2]>>
                      \/ Alone(i) /\ p = <<i, 0>>
  BY <1>2
<1>6. /\ \A j \in DOMAIN other : On(i, j) => CombinedAt[<<i, j>>] = With(r, Q[j])
      /\ Alone(i) => CombinedAt[<<i, 0>>] = With(r, N)
  <2>1. \A j : Combined(<<i, j>>) = With(r, IF j # 0 THEN qualify_row(join.table, other[j]) ELSE N)
    BY DEF Combined, Qualifying
  <2>2. \A j \in DOMAIN other : Q[j] = qualify_row(join.table, other[j])
    BY DEF Qualifying
  <2>3. \A p \in D : CombinedAt[p] = Combined(p)
    BY DEF CombinedAt
  <2> HIDE DEF D, r, Q, N, other
  <2>4. QED BY <1>4, <1>5, <2>1, <2>2, <2>3
<1>7. /\ found = Picked(Q, P) /\ P \in SUBSET (1 .. Len(other)) /\ Len(other) \in Nat
      /\ Len(found) = Cardinality(P) /\ found \in Seq(CombinedRow)
  BY PartnersAre
<1>8. Spread(found, P, Q)
  <2> DEFINE n == Len(other)
  <2>1. n \in Nat /\ P \in SUBSET (1 .. n) /\ found = Picked(Q, P)
    BY <1>7
  <2> HIDE DEF n, P, Q, found
  <2>2. QED BY <2>1, PickedSpreads
<1>9. PICK h : OneToOne(h, DOMAIN found, P) /\ \A m \in DOMAIN found : found[m] = Q[h[m]]
  BY <1>8 DEF Spread
<1>10. found = <<>> <=> P = {}
  <2> HIDE DEF found, P, Q
  <2>1. found = <<>> => P = {}
    BY <1>9 DEF OneToOne
  <2>2. P = {} => DOMAIN found = {}
    BY <1>9 DEF OneToOne
  <2>3. found \in Seq(CombinedRow)
    BY <1>7
  <2>4. DOMAIN found = {} => found = <<>>
    BY <2>3
  <2>5. QED BY <2>1, <2>2, <2>4
<1> DEFINE merged == Merged(join, r)
<1>11. merged = IF found = <<>> /\ join.type = "left" THEN <<With(r, N)>>
                ELSE [m \in DOMAIN found |-> With(r, found[m])]
  BY DEF Merged
<1> HIDE DEF merged, found, P, Q, N, r, D, other, join
<1>12. CASE found = <<>> /\ join.type = "left"
  <2> DEFINE g == [m \in {1} |-> <<i, 0>>]
  <2>1. Alone(i) /\ D = {<<i, 0>>}
    BY <1>1, <1>3, <1>5, <1>10, <1>12
  <2>2. DOMAIN merged = {1} /\ merged[1] = With(r, N)
    BY <1>11, <1>12
  <2>3. OneToOne(g, DOMAIN merged, D)
    BY <2>1, <2>2 DEF OneToOne
  <2>4. \A m \in DOMAIN merged : merged[m] = CombinedAt[g[m]]
    BY <1>6, <2>1, <2>2
  <2> HIDE DEF g
  <2>5. Spread(merged, D, CombinedAt)
    BY <2>3, <2>4 DEF Spread
  <2>6. QED BY <2>5 DEF merged, D, r, join
<1>13. CASE ~(found = <<>> /\ join.type = "left")
  <2> DEFINE g == [m \in DOMAIN found |-> <<i, h[m]>>]
  <2>1. ~Alone(i)
    BY <1>1, <1>3, <1>10, <1>13
  <2>2. DOMAIN merged = DOMAIN found /\ \A m \in DOMAIN found : merged[m] = With(r, found[m])
    BY <1>11, <1>13
  <2>3. \A m \in DOMAIN found : /\ h[m] \in P /\ <<i, h[m]>> \in D
                                /\ CombinedAt[<<i, h[m]>>] = With(r, Q[h[m]])
    <3>1. \A m \in DOMAIN found : h[m] \in P
      BY <1>9 DEF OneToOne
    <3>2. QED BY <1>1, <1>5, <1>6, <3>1
  <2>4. \A p \in D : \E m \in DOMAIN found : p = <<i, h[m]>>
    <3>1. \A p \in D : p[2] \in P /\ p = <<i, p[2]>>
      BY <1>1, <1>5, <2>1
    <3>2. \A j \in P : \E m \in DOMAIN found : h[m] = j
      BY <1>9 DEF OneToOne
    <3>3. QED BY <3>1, <3>2
  <2>5. OneToOne(g, DOMAIN merged, D)
    <3>1. \A m, n \in DOMAIN found : h[m] = h[n] => m = n
      BY <1>9 DEF OneToOne
    <3>2. QED BY <2>2, <2>3, <2>4, <3>1 DEF OneToOne
  <2>6. \A m \in DOMAIN merged : merged[m] = CombinedAt[g[m]]
    BY <1>9, <2>2, <2>3
  <2> HIDE DEF g
  <2>7. Spread(merged, D, CombinedAt)
    BY <2>5, <2>6 DEF Spread
  <2>8. QED BY <2>7 DEF merged, D, r, join
<1>14. QED
  BY <1>12, <1>13

LEMMA JoinSpreads ==
  ASSUME TypeInv, Join, OneJoin, joined = 0,
         Spread(rows, DOMAIN store[query.table], Qualifying(query.table))
  PROVE  Spread(rows', Pairs, CombinedAt)
<1> DEFINE t == query.table
           join == query.joins[1]
           base == store[t]
           Q == Qualifying(t)
           merged == [k \in DOMAIN rows |-> Merged(join, rows[k])]
           D(i) == {p \in Pairs : p[1] = i}
<1>1. /\ store \in Contents /\ t \in Tables /\ join.table \in Tables
      /\ 1 \in DOMAIN query.joins /\ query.joins # <<>>
      /\ rows' = FlattenSeq(merged) /\ merged \in Seq(Seq(CombinedRow))
  <2>1. joined + 1 = 1
    OBVIOUS
  <2>2. query.joins # <<>>
    BY DEF Join
  <2>3. store \in Contents /\ t \in Tables
    BY JoinTables DEF TypeInv, Join
  <2>4. QED BY <2>1, <2>2, <2>3, JoinIs
<1>2. PICK h : OneToOne(h, DOMAIN rows, DOMAIN base) /\ \A k \in DOMAIN rows : rows[k] = Q[h[k]]
  BY DEF Spread
<1>3. /\ \A k \in DOMAIN rows : h[k] \in DOMAIN base
      /\ \A k, l \in DOMAIN rows : h[k] = h[l] => k = l
      /\ \A i \in DOMAIN base : \E k \in DOMAIN rows : h[k] = i
  BY <1>2 DEF OneToOne
<1>4. \A p \in Pairs : p[1] \in DOMAIN base
  BY DEF Pairs
<1>5. \A i \in DOMAIN base : Spread(Merged(join, Q[i]), D(i), CombinedAt)
  BY <1>1, MergedSpreads
<1>6. \A k \in DOMAIN rows : merged[k] = Merged(join, Q[h[k]])
  BY <1>2
<1>7. DOMAIN merged = DOMAIN rows
  OBVIOUS
<1> DEFINE E == [k \in DOMAIN rows |-> D(h[k])]
<1>8. \A k \in DOMAIN merged : E[k] = D(h[k])
  OBVIOUS
<1>9. \A i : \A p : p \in D(i) <=> p \in Pairs /\ p[1] = i
  OBVIOUS
<1> HIDE DEF t, join, base, Q, merged, D, E
<1>10. \A k \in DOMAIN merged : Spread(merged[k], E[k], CombinedAt)
  BY <1>3, <1>5, <1>6, <1>7, <1>8
<1>11. /\ \A k, l \in DOMAIN merged : \A d \in E[k] : d \in E[l] => k = l
       /\ \A k \in DOMAIN merged : E[k] \subseteq Pairs
       /\ \A d \in Pairs : \E k \in DOMAIN merged : d \in E[k]
  BY <1>3, <1>4, <1>7, <1>8, <1>9
<1>12. Spread(FlattenSeq(merged), Pairs, CombinedAt)
  BY <1>1, <1>10, <1>11, FlattenOver
<1>13. QED
  BY <1>1, <1>12

(* Without a JOIN a pair is a base row beside nothing.                     *)
LEMMA NoJoinPairs ==
  ASSUME store \in Contents, query.table \in Tables, query.joins = <<>>
  PROVE  /\ \A p : p \in Pairs <=> \E i \in DOMAIN store[query.table] : p = <<i, 0>>
         /\ \A i \in DOMAIN store[query.table] :
                CombinedAt[<<i, 0>>] = Qualifying(query.table)[i]
<1> DEFINE t == query.table
           base == store[t]
<1>1. \A p : p \in Pairs <=> \E i \in DOMAIN base : p = <<i, 0>>
  BY DEF Pairs
<1>2. ASSUME NEW i \in DOMAIN base PROVE CombinedAt[<<i, 0>>] = Qualifying(t)[i]
  <2> DEFINE u == qualify_row(t, base[i])
  <2>1. CombinedAt[<<i, 0>>] = Combined(<<i, 0>>)
    BY <1>1 DEF CombinedAt
  <2>2. Combined(<<i, 0>>) = With(u, <<>>)
    BY DEF Combined
  <2>3. u = [k \in DOMAIN u |-> u[k]]
    BY DEF qualify_row
  <2> HIDE DEF u
  <2>4. With(u, <<>>) = [k \in DOMAIN u |-> u[k]]
    BY DEF With
  <2>5. Qualifying(t)[i] = u
    BY DEF Qualifying, u
  <2>6. QED BY <2>1, <2>2, <2>3, <2>4, <2>5
<1>3. QED
  BY <1>1, <1>2

(* The rows of a base table that Filter keeps are those WHERE selects,     *)
(* whatever the scan left out.                                             *)
LEMMA FilterAlone ==
  ASSUME TypeInv, Filter, query.joins = <<>>,
         NEW P \in SUBSET (DOMAIN store[query.table]),
         Spread(rows, P, Qualifying(query.table)),
         \A i \in DOMAIN store[query.table] :
             Matches(query.where, Flat(Qualifying(query.table)[i])) => i \in P
  PROVE  Spread(rows', Expected, CombinedAt)
<1> DEFINE t == query.table
           base == store[t]
           F == Qualifying(t)
           E == {i \in P : Matches(query.where, Flat(F[i]))}
           g == [i \in E |-> <<i, 0>>]
<1>1. Spread(rows', E, F)
  BY FilterSpreads
<1>2. /\ \A p : p \in Pairs <=> \E i \in DOMAIN base : p = <<i, 0>>
      /\ \A i \in DOMAIN base : CombinedAt[<<i, 0>>] = F[i]
  BY JoinTables, NoJoinPairs DEF TypeInv, Filter
<1>3. \A i \in DOMAIN base : Combined(<<i, 0>>) = F[i]
  BY <1>2 DEF CombinedAt
<1>4. \A p : p \in Expected <=> p \in Pairs /\ Matches(query.where, Flat(Combined(p)))
  BY DEF Expected
<1>5. \A i : i \in E <=> i \in DOMAIN base /\ Matches(query.where, Flat(F[i]))
  OBVIOUS
<1> HIDE DEF base, F, E
<1>6. OneToOne(g, E, Expected)
  <2>1. \A i \in E : <<i, 0>> \in Expected
    BY <1>2, <1>3, <1>4, <1>5
  <2>2. \A p \in Expected : \E i \in E : p = <<i, 0>>
    BY <1>2, <1>3, <1>4, <1>5
  <2>3. QED BY <2>1, <2>2 DEF OneToOne
<1>7. \A i \in E : F[i] = CombinedAt[g[i]]
  BY <1>2, <1>5
<1> HIDE DEF g
<1>8. Spread(rows', Expected, CombinedAt)
  BY <1>1, <1>6, <1>7, SpreadRenamed
<1>9. QED BY <1>8

LEMMA FilterJoined ==
  ASSUME TypeInv, Filter, Spread(rows, Pairs, CombinedAt)
  PROVE  Spread(rows', Expected, CombinedAt)
<1> DEFINE E == {p \in Pairs : Matches(query.where, Flat(CombinedAt[p]))}
<1>1. Spread(rows', E, CombinedAt)
  BY FilterSpreads
<1>2. E = Expected
  <2>1. \A p \in Pairs : CombinedAt[p] = Combined(p)
    BY DEF CombinedAt
  <2>2. QED BY <2>1 DEF Expected
<1> HIDE DEF E
<1>3. QED BY <1>1, <1>2

(* What the rows are at each stage of a statement with at most one JOIN.   *)
Completing ==
    OneJoin =>
        /\ stage = "join" /\ joined = 0 =>
               \E P \in SUBSET (DOMAIN store[query.table]) :
                   /\ Spread(rows, P, Qualifying(query.table))
                   /\ index_where(query) = NoWhere => P = DOMAIN store[query.table]
                   /\ \A i \in DOMAIN store[query.table] :
                          Matches(index_where(query), Flat(Qualifying(query.table)[i])) => i \in P
        /\ stage = "join" /\ joined = 1 => Spread(rows, Pairs, CombinedAt)
        /\ stage \in {"order", "project", "group"} => Spread(rows, Expected, CombinedAt)

CompleteInv == TypeInv /\ (stage = "scan" => joined = 0) /\ Completing

LEMMA SameStatement ==
  ASSUME UNCHANGED <<store, query>>
  PROVE  /\ OneJoin' = OneJoin /\ Pairs' = Pairs
         /\ CombinedAt' = CombinedAt /\ Expected' = Expected
         /\ Qualifying(query.table)' = Qualifying(query.table)
         /\ index_where(query)' = index_where(query)
<1>1. OneJoin' = OneJoin
  BY DEF OneJoin
<1>2. Pairs' = Pairs
  BY DEF Pairs, On, Alone
<1>3. CombinedAt' = CombinedAt
  BY <1>2 DEF CombinedAt, Combined
<1>4. Expected' = Expected
  BY <1>2 DEF Expected, Combined
<1>5. Qualifying(query.table)' = Qualifying(query.table)
  BY DEF Qualifying
<1>6. index_where(query)' = index_where(query)
  BY DEF index_where
<1>7. QED BY <1>1, <1>2, <1>3, <1>4, <1>5, <1>6

LEMMA ScanCompletes ==
  ASSUME CompleteInv, Scan
  PROVE  Completing'
<1>1. UNCHANGED <<store, query>> /\ stage' = "join" /\ joined' = 0
  BY DEF Scan, CompleteInv
<1>2. PICK P \in SUBSET (DOMAIN store[query.table]) :
          /\ Spread(rows', P, Qualifying(query.table))
          /\ index_where(query) = NoWhere => P = DOMAIN store[query.table]
          /\ \A i \in DOMAIN store[query.table] :
                 Matches(index_where(query), Flat(Qualifying(query.table)[i])) => i \in P
  BY ScanSpreads DEF CompleteInv
<1>3. \A D, F : Spread(rows, D, F)' <=> Spread(rows', D', F')
  BY DEF Spread
<1>4. QED
  BY <1>1, <1>2, SameStatement DEF Completing

LEMMA JoinCompletes ==
  ASSUME CompleteInv, Join
  PROVE  Completing'
<1>1. UNCHANGED <<store, query>> /\ stage' = "join" /\ joined' = joined + 1 /\ stage = "join"
      /\ joined \in Nat /\ joined < Len(query.joins)
  BY Parsed DEF Join, CompleteInv, TypeInv
<1>2. CASE ~OneJoin
  BY <1>1, <1>2, SameStatement DEF Completing
<1>3. CASE OneJoin /\ joined = 0
  <2>1. index_where(query) = NoWhere
    <3>1. query.joins # <<>>
      BY <1>1
    <3>2. QED BY <3>1 DEF index_where
  <2>2. Spread(rows, DOMAIN store[query.table], Qualifying(query.table))
    BY <1>1, <1>3, <2>1 DEF CompleteInv, Completing
  <2>3. Spread(rows', Pairs, CombinedAt)
    BY <1>3, <2>2, JoinSpreads DEF CompleteInv
  <2>4. QED
    BY <1>1, <1>3, <2>3, SameStatement DEF Completing
<1>4. CASE joined # 0
  <2>1. joined' # 0 /\ joined' # 1
    BY <1>1, <1>4
  <2>2. QED
    BY <1>1, <2>1 DEF Completing
<1>5. QED
  BY <1>2, <1>3, <1>4

LEMMA FilterCompletes ==
  ASSUME CompleteInv, Filter
  PROVE  Completing'
<1>1. UNCHANGED <<store, query>> /\ stage' \in {"order", "group"} /\ stage = "join"
      /\ joined = Len(query.joins)
      /\ Len(query.joins) \in Nat /\ DOMAIN query.joins = 1 .. Len(query.joins)
      /\ query.joins \in Seq(Range(query.joins))
  BY Parsed DEF Filter, CompleteInv, TypeInv, Statement
<1>2. SUFFICES ASSUME OneJoin PROVE Spread(rows', Expected, CombinedAt)
  BY <1>1, SameStatement DEF Completing
<1>3. CASE joined = 0
  <2>1. query.joins = <<>>
    <3>1. \A S : \A s \in Seq(S) : Len(s) = 0 => s = <<>>
      OBVIOUS
    <3>2. QED BY <1>1, <1>3, <3>1
  <2>2. index_where(query) = query.where
    BY <2>1 DEF index_where
  <2>3. QED
    BY <1>1, <1>2, <1>3, <2>1, <2>2, FilterAlone DEF CompleteInv, Completing
<1>4. CASE joined # 0
  <2>1. joined = 1
    <3>1. joined \in DOMAIN query.joins
      BY <1>1, <1>4
    <3>2. QED BY <1>2, <3>1 DEF OneJoin
  <2>2. QED
    BY <1>1, <1>2, <2>1, FilterJoined DEF CompleteInv, Completing
<1>5. QED
  BY <1>3, <1>4

LEMMA OrderCompletes ==
  ASSUME CompleteInv, Order
  PROVE  Completing'
<1>1. UNCHANGED <<store, query>> /\ stage' = "project" /\ stage = "order"
      /\ TypeInv /\ rows \in Seq(CombinedRow)
  BY DEF Order, CompleteInv, TypeInv
<1>2. PICK p \in SetToSeqs(DOMAIN rows) : rows' = [i \in DOMAIN rows |-> rows[p[i]]]
  BY <1>1, OrderIs
<1>3. SUFFICES ASSUME OneJoin PROVE Spread(rows', Expected, CombinedAt)
  BY <1>1, SameStatement DEF Completing
<1>4. Spread(rows, Expected, CombinedAt)
  BY <1>1, <1>3 DEF CompleteInv, Completing
<1>5. Spread([i \in DOMAIN rows |-> rows[p[i]]], Expected, CombinedAt)
  BY <1>1, <1>4, SpreadSorted
<1>6. QED
  BY <1>2, <1>5

LEMMA CompletingKept == CompleteInv /\ [Next]_vars => CompleteInv'
<1> SUFFICES ASSUME CompleteInv, [Next]_vars PROVE CompleteInv'
  OBVIOUS
<1>1. TypeInv'
  BY TypesKept DEF CompleteInv
<1>2. ASSUME Group \/ UNCHANGED vars PROVE Completing'
  <2>1. UNCHANGED <<store, query, joined, rows>> /\ (stage' = stage \/ stage' = "compute")
    BY <1>2 DEF Group, vars
  <2>2. QED
    BY <2>1, SameStatement DEF CompleteInv, Completing
<1>3. ASSUME (\E q \in Queries : Ask(q) \/ Explain(q)) \/ Ending PROVE Completing'
  <2>1. stage' \in {"scan", "done"}
    BY <1>3, EndingIs DEF Ask, Explain
  <2>2. QED BY <2>1 DEF Completing
<1>4. Completing'
  BY <1>2, <1>3, ScanCompletes, JoinCompletes, FilterCompletes, OrderCompletes
     DEF Next, Ending
<1>5. stage' = "scan" => joined' = 0
  <2>1. ASSUME \E q \in Queries : Ask(q) \/ Explain(q) PROVE joined' = 0
    BY <2>1 DEF Ask, Explain
  <2>2. CASE Scan \/ Join \/ Filter \/ Order \/ Group
    BY <2>2 DEF Scan, Join, Filter, Order, Group
  <2>3. CASE Ending
    BY <2>3, EndingIs
  <2>4. CASE UNCHANGED vars
    BY <2>4 DEF vars, CompleteInv
  <2>5. QED
    BY <2>1, <2>2, <2>3, <2>4 DEF Next, Ending
<1>6. QED
  BY <1>1, <1>4, <1>5 DEF CompleteInv

(* However many rows are stored and wherever an index narrows the scan: a  *)
(* SELECT without a JOIN works on the rows WHERE selects, each once, and   *)
(* one with a JOIN on the pairs that ON and WHERE select, each once, with  *)
(* NULLs beside a base row without a partner in a LEFT JOIN; sorting loses *)
(* none (exec_select, executor/mod.rs:241-340).                            *)
THEOREM RowsAreComplete == Spec => []RowsComplete
<1>1. Init => CompleteInv
  BY InitTypes DEF Init, CompleteInv, Completing
<1>2. Spec => []CompleteInv
  BY <1>1, CompletingKept, PTL DEF Spec
<1>3. CompleteInv => RowsComplete
  <2> SUFFICES ASSUME CompleteInv PROVE RowsComplete
    OBVIOUS
  <2>1. CASE stage \in {"order", "project", "group"} /\ OneJoin
    BY <2>1, ExpectedComplete DEF CompleteInv, Completing, TypeInv
  <2>2. CASE ~(stage \in {"order", "project", "group"} /\ OneJoin)
    BY <2>2, Zenon DEF RowsComplete, OneJoin
  <2>3. QED BY <2>1, <2>2
<1>4. QED
  BY <1>2, <1>3, PTL

----------------------------------------------------------------------------
(* ORDER BY.                                                               *)

(* Keys of one column, neither NULL nor too large for a float, are in the  *)
(* order of these numbers.                                                 *)
Sortables(c) == {v \in InColumn(c) \cup {Missing} : v # Null /\ v[2] \in -Exact .. Exact}
Standing(v) == IF v = Missing THEN -Exact - 1 ELSE v[2]

LEMMA StandingIs ==
  ASSUME NEW c, NEW v \in Sortables(c), NEW w \in Sortables(c)
  PROVE  /\ Standing(v) \in Int
         /\ v = w <=> Standing(v) = Standing(w)
         /\ (v # w /\ (v = Missing \/ (w # Missing /\ v[2] < w[2])))
                <=> Standing(v) < Standing(w)
         /\ compare_json_values(v, w) = Sign(Standing(v), Standing(w))
<1> DEFINE type == IF ColType[c] = "INTEGER" THEN "int" ELSE "text"
<1>1. Exact \in Nat
  BY QueryAssumption
<1>2. ASSUME NEW x \in Sortables(c)
      PROVE  /\ x[2] \in Int /\ -Exact <= x[2] /\ x[2] <= Exact
             /\ x # Missing => x[1] = type /\ x = <<type, x[2]>>
  <2>1. x[2] \in -Exact .. Exact /\ x # Null /\ (x \in InColumn(c) \/ x = Missing)
    BY DEF Sortables
  <2>2. x # Missing => x \in Value /\ x[1] = type
    BY <2>1 DEF InColumn
  <2>3. x \in Value => x = <<x[1], x[2]>>
    BY DEF Value, Null
  <2>4. QED BY <1>1, <2>1, <2>2, <2>3
<1>3. type \in {"int", "text"}
  OBVIOUS
<1> HIDE DEF type
<1>4. as_f64(v[2]) = v[2] /\ as_f64(w[2]) = w[2]
  BY <1>1, <1>2 DEF as_f64
<1>5. /\ Standing(v) \in Int
      /\ v = w <=> Standing(v) = Standing(w)
      /\ (v # w /\ (v = Missing \/ (w # Missing /\ v[2] < w[2])))
             <=> Standing(v) < Standing(w)
  BY <1>1, <1>2 DEF Standing
<1>6. compare_json_values(v, w) = Sign(Standing(v), Standing(w))
  <2>1. CASE v = Missing /\ w = Missing
    BY <1>1, <2>1 DEF compare_json_values, Standing, Sign, Missing
  <2>2. CASE v = Missing /\ w # Missing
    <3>1. Standing(v) < Standing(w)
      BY <1>5, <2>2
    <3>2. v[1] = "missing"
      BY <2>2 DEF Missing
    <3>3. compare_json_values(v, w) = -1
      BY <2>2, <3>2 DEF compare_json_values
    <3>4. QED BY <3>1, <3>3 DEF Sign
  <2>3. CASE v # Missing /\ w = Missing
    <3>1. Standing(w) < Standing(v) /\ Standing(v) \in Int /\ Standing(w) \in Int
      BY <1>1, <1>2, <2>3 DEF Standing
    <3>2. w[1] = "missing"
      BY <2>3 DEF Missing
    <3>3. compare_json_values(v, w) = 1
      BY <2>3, <3>2 DEF compare_json_values
    <3>4. QED BY <3>1, <3>3 DEF Sign
  <2>4. CASE v # Missing /\ w # Missing
    <3>1. v[1] = type /\ w[1] = type
      BY <1>2, <2>4
    <3>2. compare_json_values(v, w) = Sign(v[2], w[2])
      <4>1. CASE type = "int"
        <5>1. compare_json_values(v, w) = Sign(as_f64(v[2]), as_f64(w[2]))
          BY <2>4, <3>1, <4>1 DEF compare_json_values
        <5>2. QED BY <1>4, <5>1
      <4>2. CASE type = "text"
        BY <2>4, <3>1, <4>2 DEF compare_json_values
      <4>3. QED BY <1>3, <4>1, <4>2
    <3>3. QED BY <2>4, <3>2 DEF Standing
  <2>5. QED
    BY <2>1, <2>2, <2>3, <2>4
<1>7. QED
  BY <1>5, <1>6

(* Lists of m numbers in the order of their first difference.              *)
LexLess(m, u, v) == \E n \in 1 .. m : u[n] < v[n] /\ \A k \in 1 .. n - 1 : u[k] = v[k]

(* The first difference decides.                                           *)
LEMMA FirstDifference ==
  ASSUME NEW m \in Nat, NEW u \in [1 .. m -> Int], NEW v \in [1 .. m -> Int],
         NEW n \in 1 .. m, u[n] # v[n], \A k \in 1 .. n - 1 : u[k] = v[k]
  PROVE  /\ LexLess(m, u, v) <=> u[n] < v[n]
         /\ LexLess(m, v, u) <=> v[n] < u[n]
<1>1. ASSUME NEW a \in [1 .. m -> Int], NEW b \in [1 .. m -> Int],
             a[n] # b[n], \A k \in 1 .. n - 1 : a[k] = b[k]
      PROVE  LexLess(m, a, b) <=> a[n] < b[n]
  <2>1. a[n] < b[n] => LexLess(m, a, b)
    BY <1>1 DEF LexLess
  <2>2. ASSUME LexLess(m, a, b) PROVE a[n] < b[n]
    <3>1. PICK l \in 1 .. m : a[l] < b[l] /\ \A k \in 1 .. l - 1 : a[k] = b[k]
      BY <2>2 DEF LexLess
    <3>2. l \in Nat /\ n \in Nat /\ 1 <= l /\ 1 <= n
      OBVIOUS
    <3>3. a[l] # b[l]
      BY <3>1
    <3>4. ~(l < n)
      BY <1>1, <3>2, <3>3
    <3>5. ~(n < l)
      BY <1>1, <3>1, <3>2
    <3>6. l = n
      BY <3>2, <3>4, <3>5
    <3>7. QED BY <3>1, <3>6
  <2>3. QED BY <2>1, <2>2
<1>2. LexLess(m, u, v) <=> u[n] < v[n]
  BY <1>1
<1>3. LexLess(m, v, u) <=> v[n] < u[n]
  BY <1>1
<1>4. QED BY <1>2, <1>3

LEMMA LexTotal ==
  ASSUME NEW m \in Nat, NEW u \in [1 .. m -> Int], NEW v \in [1 .. m -> Int], u # v
  PROVE  \E n \in 1 .. m : u[n] # v[n] /\ \A k \in 1 .. n - 1 : u[k] = v[k]
<1> DEFINE T == {n \in 1 .. m : u[n] # v[n]}
<1>1. T \in SUBSET Nat
  OBVIOUS
<1>2. T # {}
  OBVIOUS
<1>3. \A n : n \in T <=> n \in 1 .. m /\ u[n] # v[n]
  OBVIOUS
<1> HIDE DEF T
<1>4. PICK n \in T : \A k \in T : n <= k
  BY <1>1, <1>2, LeastNat
<1>5. n \in 1 .. m /\ u[n] # v[n]
  BY <1>3
<1>6. ASSUME NEW k \in 1 .. n - 1 PROVE u[k] = v[k]
  <2>1. k \in 1 .. m /\ k < n /\ n \in Nat /\ k \in Nat
    BY <1>5
  <2>2. k \notin T
    BY <1>4, <2>1
  <2>3. QED BY <1>3, <2>1, <2>2
<1>7. QED
  BY <1>5, <1>6

LEMMA LexTransitive ==
  ASSUME NEW m \in Nat, NEW u \in [1 .. m -> Int], NEW v \in [1 .. m -> Int],
         NEW w \in [1 .. m -> Int], ~LexLess(m, v, u), ~LexLess(m, w, v)
  PROVE  ~LexLess(m, w, u)
<1>1. CASE u = v \/ v = w
  BY <1>1
<1>2. CASE u # v /\ v # w
  <2>1. PICK n \in 1 .. m : u[n] # v[n] /\ \A k \in 1 .. n - 1 : u[k] = v[k]
    BY <1>2, LexTotal
  <2>2. PICK l \in 1 .. m : v[l] # w[l] /\ \A k \in 1 .. l - 1 : v[k] = w[k]
    BY <1>2, LexTotal
  <2>3. /\ n \in Nat /\ l \in Nat /\ 1 <= n /\ 1 <= l
        /\ \A k \in 1 .. m : u[k] \in Int /\ v[k] \in Int /\ w[k] \in Int
    OBVIOUS
  <2>4. u[n] < v[n]
    <3>1. ~(v[n] < u[n])
      BY <2>1, FirstDifference
    <3>2. QED BY <2>1, <2>3, <3>1
  <2>5. v[l] < w[l]
    <3>1. ~(w[l] < v[l])
      BY <2>2, FirstDifference
    <3>2. QED BY <2>2, <2>3, <3>1
  <2> DEFINE f == IF n < l THEN n ELSE l
  <2>6. f \in 1 .. m /\ f <= n /\ f <= l /\ (f = n \/ f = l)
    BY <2>3
  <2>7. \A k \in 1 .. f - 1 : k \in 1 .. n - 1 /\ k \in 1 .. l - 1
    BY <2>3, <2>6
  <2>8. u[f] <= v[f] /\ v[f] <= w[f] /\ u[f] < w[f]
    <3>1. f < n => u[f] = v[f]
      BY <2>1, <2>3, <2>6
    <3>2. f < l => v[f] = w[f]
      BY <2>2, <2>3, <2>6
    <3> HIDE DEF f
    <3>3. f = n => u[f] < v[f]
      BY <2>4
    <3>4. f = l => v[f] < w[f]
      BY <2>5
    <3>5. (f < n \/ f = n) /\ (f < l \/ f = l)
      BY <2>3, <2>6
    <3>6. QED BY <2>3, <2>6, <3>1, <3>2, <3>3, <3>4, <3>5
  <2>9. \A k \in 1 .. f - 1 : u[k] = w[k]
    BY <2>1, <2>2, <2>7
  <2> HIDE DEF f
  <2>10. u[f] # w[f] /\ ~(w[f] < u[f])
    BY <2>3, <2>6, <2>8
  <2>11. QED
    BY <2>6, <2>9, <2>10, FirstDifference
<1>3. QED
  BY <1>1, <1>2

LEMMA LexOneWay ==
  ASSUME NEW m \in Nat, NEW u \in [1 .. m -> Int], NEW v \in [1 .. m -> Int], LexLess(m, u, v)
  PROVE  ~LexLess(m, v, u)
<1>1. PICK n \in 1 .. m : u[n] < v[n] /\ \A k \in 1 .. n - 1 : u[k] = v[k]
  BY DEF LexLess
<1>2. u[n] # v[n] /\ ~(v[n] < u[n])
  BY <1>1
<1>3. QED
  BY <1>1, <1>2, FirstDifference

(* The keys of a row as numbers, turned round for DESC.                    *)
KeyOf(by, row, n) == lookup_ref(row, by[n].item.ref)
PlainRow(by, row) == \A n \in DOMAIN by : /\ KeyOf(by, row, n) # Null
                                          /\ KeyOf(by, row, n)[2] \in -Exact .. Exact
Turned(by, row) == [n \in DOMAIN by |-> IF by[n].desc THEN -Standing(KeyOf(by, row, n))
                                                      ELSE Standing(KeyOf(by, row, n))]

LEMMA TurnedIs ==
  ASSUME NEW by, NEW a \in CombinedRow, NEW b \in CombinedRow,
         PlainRow(by, a), PlainRow(by, b), NEW n \in DOMAIN by
  PROVE  LET v == KeyOf(by, a, n)
             w == KeyOf(by, b, n)
             x == Turned(by, a)[n]
             y == Turned(by, b)[n]
             c == compare_json_values(v, w)
         IN  /\ x \in Int /\ y \in Int
             /\ v = w <=> x = y
             /\ (v # w /\ (v = Missing \/ (w # Missing /\ v[2] < w[2])))
                    <=> IF by[n].desc THEN y < x ELSE x < y
             /\ (w # v /\ (w = Missing \/ (v # Missing /\ w[2] < v[2])))
                    <=> IF by[n].desc THEN x < y ELSE y < x
             /\ c = 0 <=> x = y
             /\ (IF by[n].desc THEN -c ELSE c) = Sign(x, y)
<1> DEFINE ref == by[n].item.ref
           v == KeyOf(by, a, n)
           w == KeyOf(by, b, n)
           x == Turned(by, a)[n]
           y == Turned(by, b)[n]
           col == ref.column
<1>1. v \in Sortables(col) /\ w \in Sortables(col)
  <2>1. v = lookup_ref(a, ref) /\ w = lookup_ref(b, ref)
    BY DEF KeyOf
  <2>2. /\ v # Null /\ v[2] \in -Exact .. Exact
        /\ w # Null /\ w[2] \in -Exact .. Exact
    BY DEF PlainRow
  <2> HIDE DEF v, w, ref
  <2>3. (v = Missing \/ v \in InColumn(col)) /\ (w = Missing \/ w \in InColumn(col))
    BY <2>1, LookupType
  <2>4. QED BY <2>2, <2>3 DEF Sortables
<1>2. /\ x = IF by[n].desc THEN -Standing(v) ELSE Standing(v)
      /\ y = IF by[n].desc THEN -Standing(w) ELSE Standing(w)
  BY DEF Turned
<1> HIDE DEF v, w, x, y, col
<1>3. /\ Standing(v) \in Int /\ Standing(w) \in Int
      /\ v = w <=> Standing(v) = Standing(w)
      /\ (v # w /\ (v = Missing \/ (w # Missing /\ v[2] < w[2]))) <=> Standing(v) < Standing(w)
      /\ (w # v /\ (w = Missing \/ (v # Missing /\ w[2] < v[2]))) <=> Standing(w) < Standing(v)
      /\ compare_json_values(v, w) = Sign(Standing(v), Standing(w))
  BY <1>1, StandingIs
<1>4. CASE by[n].desc
  BY <1>2, <1>3, <1>4 DEF v, w, x, y, Sign
<1>5. CASE ~by[n].desc
  BY <1>2, <1>3, <1>5 DEF v, w, x, y, Sign
<1>6. QED
  BY <1>4, <1>5

LEMMA TurnedType ==
  ASSUME NEW by, NEW m, DOMAIN by = 1 .. m, NEW a \in CombinedRow, PlainRow(by, a)
  PROVE  Turned(by, a) \in [1 .. m -> Int]
<1>1. \A n \in DOMAIN by : Turned(by, a)[n] \in Int
  BY TurnedIs
<1>2. DOMAIN Turned(by, a) = 1 .. m /\ Turned(by, a) = [n \in DOMAIN by |-> Turned(by, a)[n]]
  BY DEF Turned
<1>3. QED
  BY <1>1, <1>2

LEMMA CompareRowsIs ==
  ASSUME NEW m \in Nat, DOMAIN query.order_by = 1 .. m,
         NEW a \in CombinedRow, NEW b \in CombinedRow,
         PlainRow(query.order_by, a), PlainRow(query.order_by, b)
  PROVE  LET u == Turned(query.order_by, a)
             v == Turned(query.order_by, b)
         IN  /\ CompareRows(a, b) < 0 <=> LexLess(m, u, v)
             /\ CompareRows(a, b) <= 0 <=> ~LexLess(m, v, u)
<1> DEFINE by == query.order_by
           u == Turned(by, a)
           v == Turned(by, b)
           C(n) == compare_json_values(KeyOf(by, a, n), KeyOf(by, b, n))
           D == {n \in DOMAIN by : C(n) # 0}
           f == Min(D)
<1>1. CompareRows(a, b) = IF D = {} THEN 0 ELSE IF by[f].desc THEN -C(f) ELSE C(f)
  BY DEF CompareRows, by_clauses, KeyOf
<1>2. u \in [1 .. m -> Int] /\ v \in [1 .. m -> Int]
  BY TurnedType
<1>3. \A n \in 1 .. m : /\ C(n) = 0 <=> u[n] = v[n]
                        /\ (IF by[n].desc THEN -C(n) ELSE C(n)) = Sign(u[n], v[n])
  BY TurnedIs
<1>4. \A n : n \in D <=> n \in 1 .. m /\ u[n] # v[n]
  BY <1>3
<1> HIDE DEF D, C, u, v, by
<1>5. CASE D = {}
  <2>1. \A n \in 1 .. m : u[n] = v[n] /\ u[n] \in Int
    BY <1>2, <1>4, <1>5
  <2>2. ~LexLess(m, u, v) /\ ~LexLess(m, v, u)
    BY <2>1 DEF LexLess
  <2>3. CompareRows(a, b) = 0
    BY <1>1, <1>5
  <2>4. QED BY <2>2, <2>3 DEF u, v, by
<1>6. CASE D # {}
  <2>1. f \in D /\ \A n \in D : f <= n
    <3>1. D \in SUBSET Nat
      BY <1>4
    <3>2. \E n \in D : \A k \in D : n <= k
      BY <1>6, <3>1, LeastNat
    <3>3. QED BY <3>2, Zenon DEF Min
  <2> HIDE DEF f
  <2>2. f \in 1 .. m /\ u[f] # v[f]
    BY <1>4, <2>1
  <2>3. ASSUME NEW k \in 1 .. f - 1 PROVE u[k] = v[k]
    <3>1. k \in 1 .. m /\ k \in Nat /\ f \in Nat /\ k < f
      BY <2>2
    <3>2. k \notin D
      BY <2>1, <3>1
    <3>3. QED BY <1>4, <3>1, <3>2
  <2>4. /\ LexLess(m, u, v) <=> u[f] < v[f]
        /\ LexLess(m, v, u) <=> v[f] < u[f]
    BY <1>2, <2>2, <2>3, FirstDifference
  <2>5. CompareRows(a, b) = Sign(u[f], v[f])
    BY <1>1, <1>3, <1>6, <2>2
  <2>6. u[f] \in Int /\ v[f] \in Int
    BY <1>2, <2>2
  <2>7. /\ CompareRows(a, b) < 0 <=> u[f] < v[f]
        /\ CompareRows(a, b) <= 0 <=> ~(v[f] < u[f])
    BY <2>5, <2>6 DEF Sign
  <2>8. QED BY <2>4, <2>7 DEF u, v, by
<1>7. QED
  BY <1>5, <1>6

(* Rows that can be sorted are a total order, and Order puts them into it. *)
LEMMA OrderSorts ==
  ASSUME TypeInv, Order, \A i \in DOMAIN rows' : PlainRow(query.order_by, rows'[i])
  PROVE  \A i, j \in DOMAIN rows' : i < j =>
             ~LexLess(Len(query.order_by), Turned(query.order_by, rows'[j]),
                                           Turned(query.order_by, rows'[i]))
<1> DEFINE by == query.order_by
           m == Len(by)
           T(r) == Turned(by, r)
<1>1. m \in Nat /\ DOMAIN by = 1 .. m
  BY Parsed DEF TypeInv
<1>2. PICK p \in SetToSeqs(DOMAIN rows) :
          /\ rows' = [i \in DOMAIN rows |-> rows[p[i]]]
          /\ p \in [DOMAIN rows -> DOMAIN rows]
          /\ \A j \in DOMAIN rows : \E i \in DOMAIN rows : p[i] = j
          /\ TotalOrder(rows, CompareRows) =>
                 \A i, j \in DOMAIN rows : i < j =>
                     \/ CompareRows(rows[p[i]], rows[p[j]]) < 0
                     \/ CompareRows(rows[p[i]], rows[p[j]]) = 0 /\ p[i] < p[j]
  BY OrderIs
<1>3. rows \in Seq(CombinedRow) /\ \A i \in DOMAIN rows : rows[i] \in CombinedRow
  BY ListPlaces DEF TypeInv
<1>4. \A i \in DOMAIN rows : PlainRow(by, rows[i])
  BY <1>2
<1> HIDE DEF m, by, T
<1>5. \A i, j \in DOMAIN rows :
          /\ T(rows[i]) \in [1 .. m -> Int]
          /\ CompareRows(rows[i], rows[j]) < 0 <=> LexLess(m, T(rows[i]), T(rows[j]))
          /\ CompareRows(rows[i], rows[j]) <= 0 <=> ~LexLess(m, T(rows[j]), T(rows[i]))
  BY <1>1, <1>3, <1>4, TurnedType, CompareRowsIs DEF by, T
<1>6. TotalOrder(rows, CompareRows)
  <2>1. SUFFICES ASSUME NEW i \in DOMAIN rows, NEW j \in DOMAIN rows, NEW k \in DOMAIN rows,
                        CompareRows(rows[i], rows[j]) <= 0, CompareRows(rows[j], rows[k]) <= 0
                 PROVE  CompareRows(rows[i], rows[k]) <= 0
    BY DEF TotalOrder
  <2>2. ~LexLess(m, T(rows[j]), T(rows[i])) /\ ~LexLess(m, T(rows[k]), T(rows[j]))
    BY <1>5, <2>1
  <2>3. ~LexLess(m, T(rows[k]), T(rows[i]))
    BY <1>1, <1>5, <2>2, LexTransitive
  <2>4. QED BY <1>5, <2>3
<1>7. ASSUME NEW i \in DOMAIN rows', NEW j \in DOMAIN rows', i < j
      PROVE  ~LexLess(m, T(rows'[j]), T(rows'[i]))
  <2>1. /\ i \in DOMAIN rows /\ j \in DOMAIN rows
        /\ rows'[i] = rows[p[i]] /\ rows'[j] = rows[p[j]]
        /\ p[i] \in DOMAIN rows /\ p[j] \in DOMAIN rows
    BY <1>2
  <2>2. \/ CompareRows(rows[p[i]], rows[p[j]]) < 0
        \/ CompareRows(rows[p[i]], rows[p[j]]) = 0
    BY <1>2, <1>6, <1>7, <2>1
  <2>3. CASE CompareRows(rows[p[i]], rows[p[j]]) = 0
    BY <1>5, <2>1, <2>3
  <2>4. CASE CompareRows(rows[p[i]], rows[p[j]]) < 0
    <3>1. LexLess(m, T(rows[p[i]]), T(rows[p[j]]))
      BY <1>5, <2>1, <2>4
    <3>2. ~LexLess(m, T(rows[p[j]]), T(rows[p[i]]))
      BY <1>1, <1>5, <2>1, <3>1, LexOneWay
    <3>3. QED BY <2>1, <3>2
  <2>5. QED BY <2>2, <2>3, <2>4
<1>8. QED
  BY <1>7 DEF m, by, T

SortedInv ==
    /\ TypeInv
    /\ stage = "project" /\ (\A i \in DOMAIN rows : PlainRow(query.order_by, rows[i])) =>
           \A i, j \in DOMAIN rows : i < j =>
               ~LexLess(Len(query.order_by), Turned(query.order_by, rows[j]),
                                             Turned(query.order_by, rows[i]))

LEMMA SortedKept == SortedInv /\ [Next]_vars => SortedInv'
<1> SUFFICES ASSUME SortedInv, [Next]_vars PROVE SortedInv'
  OBVIOUS
<1>1. TypeInv'
  BY TypesKept DEF SortedInv
<1>2. CASE Order
  <2>1. query' = query
    BY <1>2 DEF Order
  <2>2. TypeInv
    BY DEF SortedInv
  <2>3. QED
    BY <1>1, <1>2, <2>1, <2>2, OrderSorts DEF SortedInv
<1>3. CASE UNCHANGED vars
  BY <1>1, <1>3 DEF vars, SortedInv
<1>4. ASSUME \/ \E q \in Queries : Ask(q) \/ Explain(q)
             \/ Scan \/ Join \/ Filter \/ Group \/ Ending
      PROVE  stage' # "project"
  BY <1>4, EndingIs DEF Ask, Explain, Scan, Join, Filter, Group, SortedInv
<1>5. QED
  BY <1>1, <1>2, <1>3, <1>4 DEF Next, Ending, SortedInv

LEMMA SortedAsWritten == SortedInv => RowsSorted
<1> SUFFICES ASSUME SortedInv PROVE RowsSorted
  OBVIOUS
<1> DEFINE by == query.order_by
           Key(i, n) == lookup_ref(rows[i], by[n].item.ref)
           Below(v, w) == v # w /\ (v = Missing \/ (w # Missing /\ v[2] < w[2]))
           Precedes(i, j) ==
               \E n \in DOMAIN by :
                   /\ \A m \in 1 .. n - 1 : Key(i, m) = Key(j, m)
                   /\ IF by[n].desc THEN Below(Key(j, n), Key(i, n))
                                    ELSE Below(Key(i, n), Key(j, n))
           Plain == \A i \in DOMAIN rows, n \in DOMAIN by :
                        Key(i, n) # Null /\ Key(i, n)[2] \in -Exact .. Exact
           T(i) == Turned(by, rows[i])
<1>1. SUFFICES ASSUME stage = "project", Plain, NEW i \in DOMAIN rows, NEW j \in DOMAIN rows,
                      i < j, Precedes(j, i)
               PROVE  FALSE
  BY Zenon DEF RowsSorted
<1>2. /\ Len(by) \in Nat /\ DOMAIN by = 1 .. Len(by)
      /\ \A k \in DOMAIN rows : rows[k] \in CombinedRow
  BY Parsed, ListPlaces DEF SortedInv, TypeInv
<1>3. \A k \in DOMAIN rows : PlainRow(by, rows[k])
  BY <1>1 DEF PlainRow, KeyOf
<1>4. ~LexLess(Len(by), T(j), T(i))
  BY <1>1, <1>3 DEF SortedInv
<1>5. PICK n \in DOMAIN by :
          /\ \A m \in 1 .. n - 1 : Key(j, m) = Key(i, m)
          /\ IF by[n].desc THEN Below(Key(i, n), Key(j, n)) ELSE Below(Key(j, n), Key(i, n))
  BY <1>1
<1>6. ASSUME NEW m \in DOMAIN by
      PROVE  /\ Key(j, m) = Key(i, m) => T(j)[m] = T(i)[m]
             /\ (IF by[m].desc THEN Below(Key(i, m), Key(j, m)) ELSE Below(Key(j, m), Key(i, m)))
                    => T(j)[m] < T(i)[m]
  <2>1. Key(j, m) = KeyOf(by, rows[j], m) /\ Key(i, m) = KeyOf(by, rows[i], m)
    BY DEF KeyOf
  <2> DEFINE v == Key(j, m)
             w == Key(i, m)
             x == T(j)[m]
             y == T(i)[m]
  <2>2. /\ v = w <=> x = y
        /\ (v # w /\ (v = Missing \/ (w # Missing /\ v[2] < w[2])))
               <=> IF by[m].desc THEN y < x ELSE x < y
        /\ (w # v /\ (w = Missing \/ (v # Missing /\ w[2] < v[2])))
               <=> IF by[m].desc THEN x < y ELSE y < x
    BY <1>2, <1>3, <2>1, TurnedIs
  <2> HIDE DEF v, w, x, y
  <2>3. /\ v = w => x = y
        /\ (IF by[m].desc THEN Below(w, v) ELSE Below(v, w)) => x < y
    BY <2>2
  <2>4. QED BY <2>3 DEF v, w, x, y
<1> HIDE DEF Key, Below, T
<1>7. T(j)[n] < T(i)[n]
  BY <1>5, <1>6
<1>8. \A m \in 1 .. n - 1 : T(j)[m] = T(i)[m]
  <2>1. \A m \in 1 .. n - 1 : m \in DOMAIN by
    BY <1>2
  <2>2. QED BY <1>5, <1>6, <2>1
<1>9. LexLess(Len(by), T(j), T(i))
  BY <1>2, <1>7, <1>8 DEF LexLess
<1>10. QED
  BY <1>4, <1>9

(* However many rows and clauses: as long as no NULL is sorted and numbers *)
(* are exact as floats, the comparator is a total order and ORDER BY sorts *)
(* by its clauses in turn, each in its own direction, a missing value      *)
(* first (exec_select, executor/mod.rs:324-338).                           *)
THEOREM RowsInOrder == Spec => []RowsSorted
<1>1. Init => SortedInv
  BY InitTypes DEF Init, SortedInv
<1>2. Spec => []SortedInv
  BY <1>1, SortedKept, PTL DEF Spec
<1>3. QED
  BY <1>2, SortedAsWritten, PTL

----------------------------------------------------------------------------
(* EXPLAIN.                                                                *)

(* The rows of a table that an access path names.                          *)
Reads(line, row) == line[1] = "index scan" =>
                        /\ line[3].column \in DOMAIN row
                        /\ compare(row[line[3].column], line[3].op, line[3].value)

(* A scan reads exactly those.                                             *)
LEMMA ScanAsPlanned ==
  ASSUME store \in Contents, NEW t \in Tables, NEW where \in Exprs \cup {NoWhere}
  PROVE  LET line == scan_line(t, IndexedOf[t], where)
         IN  /\ line[2] = t
             /\ ReadRows(t, where)
                    = Picked(store[t], {i \in DOMAIN store[t] : Reads(line, store[t][i])})
<1> DEFINE base == store[t]
           ids == DOMAIN base
           Stored(i, c) == IF c \in DOMAIN base[i] THEN base[i][c] ELSE Missing
           entries == {[column |-> c, value |-> Filed(Stored(i, c)), id |-> i] :
                           c \in IndexedOf[t], i \in ids}
           lookup == IF where = NoWhere THEN NoIndex ELSE choose_index(IndexedOf[t], where)
           line == scan_line(t, IndexedOf[t], where)
           P == {i \in ids : Reads(line, base[i])}
           S == scan_rows(ids, entries, IndexedOf[t], where)
<1>1. ReadRows(t, where) = Picked(base, S)
  BY DEF ReadRows
<1>2. S = IF lookup = NoIndex THEN ids ELSE index_candidate_keys(entries, lookup) \cap ids
  BY DEF scan_rows
<1>3. line = IF lookup = NoIndex THEN <<"full scan", t>> ELSE <<"index scan", t, lookup>>
  BY DEF scan_line
<1>4. \A i \in ids : base[i] \in StoredRow(t)
  BY StoredTable
<1>5. \A d : d \in entries <=> \E c \in IndexedOf[t], i \in ids :
                                   d = [column |-> c, value |-> Filed(Stored(i, c)), id |-> i]
  OBVIOUS
<1> HIDE DEF S, line, entries
<1>6. CASE lookup = NoIndex
  <2>1. S = ids /\ line[1] = "full scan" /\ line[2] = t
    BY <1>2, <1>3, <1>6
  <2>2. P = ids
    BY <2>1 DEF Reads
  <2>3. QED BY <1>1, <2>1, <2>2 DEF line
<1>7. CASE lookup # NoIndex
  <2>1. where \in Exprs /\ lookup = choose_index(IndexedOf[t], where)
    BY <1>7
  <2> HIDE DEF lookup
  <2>2. PICK k \in DOMAIN conjuncts[where] :
            /\ conjuncts[where][k].column \in IndexedOf[t] /\ conjuncts[where][k].value # Null
            /\ lookup = [column |-> conjuncts[where][k].column,
                         op |-> conjuncts[where][k].op, value |-> conjuncts[where][k].value]
    BY <1>7, <2>1, ChosenIndex
  <2> DEFINE e == conjuncts[where][k]
             c == lookup.column
  <2>3. e \in Exprs /\ e.kind = "cmp"
    BY <2>1, ConjunctsHold
  <2>4. c \in IndexedOf[t] /\ lookup.value # Null /\ lookup.value[1] # "null"
    BY <2>2, <2>3, WhereAssumption DEF Null
  <2>5. line[1] = "index scan" /\ line[2] = t /\ line[3] = lookup
    BY <1>3, <1>7
  <2> HIDE DEF e, c
  <2>6. ASSUME NEW i \in ids PROVE i \in S <=> i \in P
    <3> DEFINE v == Filed(Stored(i, c))
    <3>1. i \in S <=> \E d \in entries : /\ d.id = i /\ d.column = c
                                         /\ d.value[1] = lookup.value[1]
                                         /\ Ordered(lookup.op, d.value[2], lookup.value[2])
      BY <1>2, <1>7 DEF index_candidate_keys, c
    <3>2. \A d \in entries : d.id = i /\ d.column = c => d.value = v
      BY <1>5
    <3>3. \E d \in entries : d.id = i /\ d.column = c /\ d.value = v
      <4> DEFINE d == [column |-> c, value |-> v, id |-> i]
      <4>1. d \in entries
        BY <1>5, <2>4
      <4>2. d.id = i /\ d.column = c /\ d.value = v
        OBVIOUS
      <4> HIDE DEF d, v
      <4>3. QED BY <4>1, <4>2
    <3> HIDE DEF v, Stored
    <3>4. i \in S <=> /\ v[1] = lookup.value[1]
                      /\ Ordered(lookup.op, v[2], lookup.value[2])
      BY <3>1, <3>2, <3>3
    <3>5. i \in P <=> /\ c \in DOMAIN base[i]
                      /\ compare(base[i][c], lookup.op, lookup.value)
      BY <2>5 DEF Reads, c
    <3>6. CASE c \in DOMAIN base[i]
      <4>1. base[i][c] \in Value
        BY <1>4, <3>6, StoredRowIs
      <4>2. v = base[i][c] /\ v[1] \in {"int", "text", "null"}
        BY <3>6, <4>1 DEF v, Stored, Filed, Value, Missing, Null
      <4>3. compare(v, lookup.op, lookup.value) <=>
                v[1] = lookup.value[1] /\ Ordered(lookup.op, v[2], lookup.value[2])
        BY <2>4, <4>2 DEF compare
      <4>4. QED BY <3>4, <3>5, <3>6, <4>2, <4>3
    <3>7. CASE c \notin DOMAIN base[i]
      <4>1. v[1] = "null"
        BY <3>7 DEF v, Stored, Filed, Null
      <4>2. QED BY <2>4, <3>4, <3>5, <3>7, <4>1
    <3>8. QED BY <3>6, <3>7
  <2>7. S \subseteq ids /\ P \subseteq ids
    BY <1>2, <1>7
  <2> HIDE DEF P
  <2>8. S = P
    BY <2>6, <2>7
  <2>9. QED BY <1>1, <2>5, <2>8 DEF P, line
<1>8. QED
  BY <1>6, <1>7

(* The lines of a plan, and what a line of a kind says.                    *)
SaysOf(lines, what) == \E n \in DOMAIN lines : lines[n][1] = what

LEMMA Behind ==
  ASSUME NEW S, NEW s \in Seq(S), NEW t \in Seq(S)
  PROVE  /\ s \o t \in Seq(S)
         /\ \A i \in DOMAIN s : i \in DOMAIN (s \o t) /\ (s \o t)[i] = s[i]
         /\ \A i \in DOMAIN t : Len(s) + i \in DOMAIN (s \o t) /\ (s \o t)[Len(s) + i] = t[i]
         /\ \A what : SaysOf(s, what) \/ SaysOf(t, what) => SaysOf(s \o t, what)
<1> DEFINE u == s \o t
<1>1. /\ u \in Seq(S) /\ Len(s) \in Nat
      /\ \A i \in DOMAIN s : i \in DOMAIN u /\ u[i] = s[i]
      /\ \A i \in DOMAIN t : Len(s) + i \in DOMAIN u /\ u[Len(s) + i] = t[i]
  OBVIOUS
<1> HIDE DEF u
<1>2. \A what : SaysOf(s, what) \/ SaysOf(t, what) => SaysOf(u, what)
  BY <1>1 DEF SaysOf
<1>3. QED
  BY <1>1, <1>2 DEF u

(* A line that is there is the only one of its piece of the plan.          *)
LEMMA AloneSays ==
  ASSUME NEW S, NEW line \in S
  PROVE  <<line>> \in Seq(S) /\ <<>> \in Seq(S) /\ SaysOf(<<line>>, line[1])
<1>1. <<line>> \in Seq(S) /\ <<>> \in Seq(S)
  OBVIOUS
<1>2. 1 \in DOMAIN <<line>> /\ <<line>>[1] = line
  OBVIOUS
<1>3. QED
  BY <1>1, <1>2 DEF SaysOf

Aggregates(q) == \E i \in DOMAIN q.columns : q.columns[i].agg # ""

LEMMA PlanIs ==
  ASSUME NEW q, Statement(q), TablesIn(q) \subseteq Tables
  PROVE  LET plan == exec_explain(q)
         IN  /\ plan # Refused /\ plan[2][1] = first_line(q)
             /\ \A i \in DOMAIN q.joins : plan[2][i + 1] = <<"join", q.joins[i]>>
             /\ q.where # NoWhere => SaysOf(plan[2], "filter")
             /\ q.group_by # <<>> => SaysOf(plan[2], "group by")
             /\ q.group_by = <<>> /\ Aggregates(q) => SaysOf(plan[2], "aggregate")
             /\ q.having # NoHaving => SaysOf(plan[2], "having")
             /\ q.order_by # <<>> => SaysOf(plan[2], "sort by")
             /\ q.limit # NoLimit => SaysOf(plan[2], "limit")
<1> DEFINE Line(there, line) == IF there THEN <<line>> ELSE <<>>
           u1 == <<first_line(q)>>
           u2 == [i \in DOMAIN q.joins |-> <<"join", q.joins[i]>>]
           u3 == Line(q.where # NoWhere, <<"filter", q.where>>)
           u4 == Line(q.group_by # <<>>, <<"group by", q.group_by>>)
           u5 == Line(q.group_by = <<>> /\ Aggregates(q), <<"aggregate">>)
           u6 == Line(q.having # NoHaving, <<"having", q.having>>)
           u7 == Line(q.order_by # <<>>, <<"sort by", q.order_by>>)
           u8 == Line(q.limit # NoLimit, <<"limit", q.limit>>)
           w2 == u1 \o u2
           w3 == w2 \o u3
           w4 == w3 \o u4
           w5 == w4 \o u5
           w6 == w5 \o u6
           w7 == w6 \o u7
           w8 == w7 \o u8
           S == {first_line(q), <<"filter", q.where>>, <<"group by", q.group_by>>, <<"aggregate">>,
                 <<"having", q.having>>, <<"sort by", q.order_by>>, <<"limit", q.limit>>}
                \cup {<<"join", q.joins[i]>> : i \in DOMAIN q.joins}
           plan == exec_explain(q)
<1>1. plan = Plan(w8)
  BY Zenon DEF exec_explain, Aggregates
<1>2. plan # Refused /\ plan[2] = w8
  <2> HIDE DEF w8, plan
  <2>1. plan = <<"plan", w8>>
    BY <1>1 DEF Plan
  <2>2. QED BY <2>1 DEF Refused
<1>3. /\ Len(q.joins) \in Nat /\ DOMAIN q.joins = 1 .. Len(q.joins)
  BY Parsed
<1>4. u1 \in Seq(S) /\ u3 \in Seq(S) /\ u4 \in Seq(S) /\ u5 \in Seq(S)
      /\ u6 \in Seq(S) /\ u7 \in Seq(S) /\ u8 \in Seq(S)
  <2> HIDE DEF S
  <2>1. first_line(q) \in S /\ <<"filter", q.where>> \in S /\ <<"group by", q.group_by>> \in S
        /\ <<"aggregate">> \in S /\ <<"having", q.having>> \in S
        /\ <<"sort by", q.order_by>> \in S /\ <<"limit", q.limit>> \in S
    BY Zenon DEF S
  <2> HIDE DEF first_line
  <2>2. \A line \in S : <<line>> \in Seq(S) /\ <<>> \in Seq(S)
    BY AloneSays
  <2>3. u1 \in Seq(S)
    BY <2>1, <2>2
  <2>4. u3 \in Seq(S)
    BY <2>1, <2>2
  <2>5. u4 \in Seq(S)
    BY <2>1, <2>2
  <2>6. u5 \in Seq(S)
    BY <2>1, <2>2
  <2>7. u6 \in Seq(S)
    BY <2>1, <2>2
  <2>8. u7 \in Seq(S)
    BY <2>1, <2>2
  <2>9. u8 \in Seq(S)
    BY <2>1, <2>2
  <2>10. QED BY <2>3, <2>4, <2>5, <2>6, <2>7, <2>8, <2>9
<1>5. u2 \in Seq(S)
  <2>1. \A i \in DOMAIN q.joins : <<"join", q.joins[i]>> \in S
    OBVIOUS
  <2> HIDE DEF S
  <2>2. QED BY <1>3, <2>1
<1>6. /\ 1 \in DOMAIN w2 /\ w2[1] = first_line(q)
      /\ \A i \in DOMAIN q.joins : i + 1 \in DOMAIN w2 /\ w2[i + 1] = <<"join", q.joins[i]>>
  <2> HIDE DEF S
  <2>1. Len(u1) = 1 /\ u1[1] = first_line(q) /\ Len(u2) = Len(q.joins)
    BY <1>3
  <2>2. \A i \in DOMAIN q.joins : u2[i] = <<"join", q.joins[i]>>
    OBVIOUS
  <2> HIDE DEF u1, u2
  <2>3. /\ \A i \in DOMAIN u1 : i \in DOMAIN w2 /\ w2[i] = u1[i]
        /\ \A i \in DOMAIN u2 : Len(u1) + i \in DOMAIN w2 /\ w2[Len(u1) + i] = u2[i]
    <3>1. u1 \in Seq(S) /\ u2 \in Seq(S)
      BY <1>4, <1>5
    <3>2. QED BY <3>1
  <2>4. DOMAIN u1 = 1 .. 1 /\ DOMAIN u2 = DOMAIN q.joins
    BY DEF u1, u2
  <2> HIDE DEF w2
  <2>5. 1 \in DOMAIN w2 /\ w2[1] = first_line(q)
    BY <2>1, <2>3, <2>4
  <2>6. \A i \in DOMAIN q.joins : i + 1 \in DOMAIN w2 /\ w2[i + 1] = <<"join", q.joins[i]>>
    BY <1>3, <2>1, <2>2, <2>3, <2>4
  <2>7. QED BY <2>5, <2>6
<1>7. /\ q.where # NoWhere => SaysOf(u3, "filter")
      /\ q.group_by # <<>> => SaysOf(u4, "group by")
      /\ q.group_by = <<>> /\ Aggregates(q) => SaysOf(u5, "aggregate")
      /\ q.having # NoHaving => SaysOf(u6, "having")
      /\ q.order_by # <<>> => SaysOf(u7, "sort by")
      /\ q.limit # NoLimit => SaysOf(u8, "limit")
  <2>1. \A line : SaysOf(<<line>>, line[1])
    BY AloneSays
  <2>2. q.where # NoWhere => SaysOf(u3, "filter")
    BY <2>1
  <2>3. q.group_by # <<>> => SaysOf(u4, "group by")
    <3>1. SaysOf(<<<<"group by", q.group_by>>>>, <<"group by", q.group_by>>[1]) /\ <<"group by", q.group_by>>[1] = "group by"
      BY <2>1
    <3>2. ASSUME q.group_by # <<>> PROVE u4 = <<<<"group by", q.group_by>>>>
      BY <3>2
    <3>3. QED BY <3>1, <3>2
  <2>4. q.group_by = <<>> /\ Aggregates(q) => SaysOf(u5, "aggregate")
    <3>1. SaysOf(<<<<"aggregate">>>>, <<"aggregate">>[1]) /\ <<"aggregate">>[1] = "aggregate"
      BY <2>1
    <3>2. QED BY <3>1
  <2>5. q.having # NoHaving => SaysOf(u6, "having")
    BY <2>1
  <2>6. q.order_by # <<>> => SaysOf(u7, "sort by")
    <3>1. SaysOf(<<<<"sort by", q.order_by>>>>, <<"sort by", q.order_by>>[1]) /\ <<"sort by", q.order_by>>[1] = "sort by"
      BY <2>1
    <3>2. ASSUME q.order_by # <<>> PROVE u7 = <<<<"sort by", q.order_by>>>>
      BY <3>2
    <3>3. QED BY <3>1, <3>2
  <2>7. q.limit # NoLimit => SaysOf(u8, "limit")
    BY <2>1
  <2>8. QED BY <2>2, <2>3, <2>4, <2>5, <2>6, <2>7
<1> DEFINE Leads(s, t) == /\ t \in Seq(S)
                          /\ \A i \in DOMAIN s : i \in DOMAIN t /\ t[i] = s[i]
                          /\ \A what : SaysOf(s, what) => SaysOf(t, what)
<1> HIDE DEF S, u1, u2, u3, u4, u5, u6, u7, u8, plan
<1>8. w2 \in Seq(S)
  BY <1>4, <1>5, Behind
<1> HIDE DEF w2
<1>9. Leads(w2, w3) /\ \A what : SaysOf(u3, what) => SaysOf(w3, what)
  BY <1>4, <1>8, Behind, SMTT(30)
<1> HIDE DEF w3
<1>10. Leads(w3, w4) /\ \A what : SaysOf(u4, what) => SaysOf(w4, what)
  BY <1>4, <1>9, Behind
<1> HIDE DEF w4
<1>11. Leads(w4, w5) /\ \A what : SaysOf(u5, what) => SaysOf(w5, what)
  BY <1>4, <1>10, Behind
<1> HIDE DEF w5
<1>12. Leads(w5, w6) /\ \A what : SaysOf(u6, what) => SaysOf(w6, what)
  BY <1>4, <1>11, Behind
<1> HIDE DEF w6
<1>13. Leads(w6, w7) /\ \A what : SaysOf(u7, what) => SaysOf(w7, what)
  BY <1>4, <1>12, Behind
<1> HIDE DEF w7
<1>14. Leads(w7, w8) /\ \A what : SaysOf(u8, what) => SaysOf(w8, what)
  BY <1>4, <1>13, Behind, SMTT(30)
<1> HIDE DEF w8
<1>15. w8[1] = first_line(q) /\ \A i \in DOMAIN q.joins : w8[i + 1] = <<"join", q.joins[i]>>
  BY <1>6, <1>9, <1>10, <1>11, <1>12, <1>13, <1>14
<1>16. QED
  BY <1>2, <1>7, <1>9, <1>10, <1>11, <1>12, <1>13, <1>14, <1>15 DEF plan

(* Picking every place of a list leaves it as it is.                       *)
LEMMA PickedAll ==
  ASSUME NEW S, NEW s \in Seq(S)
  PROVE  Picked(s, DOMAIN s) = s
<1> DEFINE n == Len(s)
           f == [i \in 1 .. n |-> i]
<1>1. n \in Nat /\ DOMAIN s = 1 .. n /\ s = [i \in 1 .. n |-> s[i]]
  BY ListPlaces
<1> HIDE DEF n
<1>2. Lists(f, n, 1 .. n)
  BY <1>1 DEF Lists
<1> HIDE DEF f
<1>3. n = Cardinality(1 .. n) /\ f = InOrder(1 .. n)
  <2>1. 1 .. n \in SUBSET (1 .. n)
    OBVIOUS
  <2>2. QED BY <1>1, <1>2, <2>1, InOrderIs
<1>4. Picked(s, 1 .. n) = [i \in 1 .. n |-> s[f[i]]]
  <2>1. Picked(s, 1 .. n) = [i \in 1 .. Cardinality(1 .. n) |-> s[InOrder(1 .. n)[i]]]
    BY DEF Picked
  <2>2. QED BY <1>3, <2>1
<1>5. \A i \in 1 .. n : f[i] = i
  BY DEF f
<1>6. QED
  BY <1>1, <1>4, <1>5

(* The rows of a scan, each under its table's name, are picked among all.  *)
LEMMA QualifiedPicked ==
  ASSUME store \in Contents, NEW t \in Tables, NEW P \in SUBSET (DOMAIN store[t])
  PROVE  [i \in DOMAIN Picked(store[t], P) |-> qualify_row(t, Picked(store[t], P)[i])]
             = Picked(Qualifying(t), P)
<1> DEFINE base == store[t]
           read == Picked(base, P)
           n == Cardinality(P)
           f == InOrder(P)
           all == Qualifying(t)
<1>1. Len(base) \in Nat /\ P \in SUBSET (1 .. Len(base))
  BY StoredTable
<1>2. n \in Nat /\ f \in [1 .. n -> P]
  BY <1>1, InOrderLists DEF Lists
<1>3. \A j \in P : all[j] = qualify_row(t, base[j])
  BY DEF Qualifying
<1> HIDE DEF all, base, f, n
<1>4. read = [i \in 1 .. n |-> base[f[i]]] /\ Picked(all, P) = [i \in 1 .. n |-> all[f[i]]]
  BY DEF Picked, f, n
<1>5. \A i \in 1 .. n : all[f[i]] = qualify_row(t, base[f[i]])
  BY <1>2, <1>3
<1>6. DOMAIN read = 1 .. n /\ \A i \in 1 .. n : read[i] = base[f[i]]
  BY <1>4
<1> HIDE DEF read
<1>7. [i \in DOMAIN read |-> qualify_row(t, read[i])] = [i \in 1 .. n |-> all[f[i]]]
  BY <1>5, <1>6
<1>8. QED
  BY <1>4, <1>7 DEF read, all, base

LEMMA ScanPlanned ==
  ASSUME TypeInv, Scan
  PROVE  LET line == first_line(query)
         IN  /\ line[2] \in Tables
             /\ rows' = Picked(Qualifying(line[2]),
                               {i \in DOMAIN store[line[2]] : Reads(line, store[line[2]][i])})
<1> DEFINE t == query.table
           w == index_where(query)
           read == ReadRows(t, w)
           line == first_line(query)
           P == {i \in DOMAIN store[t] : Reads(line, store[t][i])}
<1>1. /\ store \in Contents /\ Statement(query) /\ TablesIn(query) \subseteq Tables
      /\ rows' = [i \in DOMAIN read |-> qualify_row(t, read[i])]
  BY DEF Scan, TypeInv
<1>2. t \in Tables
  BY <1>1, JoinTables
<1>3. w \in Exprs \cup {NoWhere}
  BY <1>1 DEF index_where, Statement
<1>4. line = scan_line(t, IndexedOf[t], w)
  BY DEF first_line, index_where, scan_line
<1> HIDE DEF t, w, line
<1>5. line[2] = t /\ read = Picked(store[t], P)
  BY <1>1, <1>2, <1>3, <1>4, ScanAsPlanned
<1>6. P \in SUBSET DOMAIN store[t]
  OBVIOUS
<1> HIDE DEF P, read
<1>7. rows' = Picked(Qualifying(t), P)
  BY <1>1, <1>2, <1>5, <1>6, QualifiedPicked
<1>8. QED
  BY <1>2, <1>5, <1>7 DEF P, line

LEMMA FilterPlanned ==
  ASSUME TypeInv, Filter, query.where = NoWhere
  PROVE  rows' = rows
<1> DEFINE P == {i \in DOMAIN rows : Matches(query.where, Flat(rows[i]))}
<1>1. rows' = Picked(rows, P) /\ rows \in Seq(CombinedRow)
  BY DEF Filter, TypeInv
<1>2. P = DOMAIN rows
  BY DEF Matches
<1> HIDE DEF P
<1>3. QED
  BY <1>1, <1>2, PickedAll

(* No clause tells two rows apart, so a stable sort keeps them all.        *)
LEMMA OrderPlanned ==
  ASSUME TypeInv, Order, query.order_by = <<>>
  PROVE  rows' = rows
<1> DEFINE n == Len(rows)
<1>1. rows \in Seq(CombinedRow) /\ n \in Nat /\ DOMAIN rows = 1 .. n
      /\ rows = [i \in 1 .. n |-> rows[i]]
  BY ListPlaces DEF TypeInv
<1>2. \A a, b : CompareRows(a, b) = 0
  BY DEF CompareRows, by_clauses
<1>3. TotalOrder(rows, CompareRows)
  BY <1>2 DEF TotalOrder
<1>4. PICK p \in SetToSeqs(DOMAIN rows) :
          /\ rows' = [i \in DOMAIN rows |-> rows[p[i]]]
          /\ p \in [DOMAIN rows -> DOMAIN rows]
          /\ \A j \in DOMAIN rows : \E i \in DOMAIN rows : p[i] = j
          /\ TotalOrder(rows, CompareRows) =>
                 \A i, j \in DOMAIN rows : i < j =>
                     \/ CompareRows(rows[p[i]], rows[p[j]]) < 0
                     \/ CompareRows(rows[p[i]], rows[p[j]]) = 0 /\ p[i] < p[j]
  BY OrderIs
<1>5. \A i, j \in DOMAIN rows : i < j => p[i] < p[j]
  BY <1>2, <1>3, <1>4
<1> HIDE DEF n
<1> DEFINE f == [i \in 1 .. n |-> i]
<1>6. Lists(p, n, 1 .. n)
  BY <1>1, <1>4, <1>5 DEF Lists
<1>7. Lists(f, n, 1 .. n)
  BY <1>1 DEF Lists
<1> HIDE DEF f
<1>8. p = f
  <2>1. 1 .. n \in SUBSET Nat
    OBVIOUS
  <2>2. QED BY <1>6, <1>7, <2>1, ListsUnique
<1>9. \A i \in 1 .. n : p[i] = i
  BY <1>8 DEF f
<1>10. QED
  BY <1>1, <1>4, <1>9

LEMMA GroupPlanned ==
  ASSUME TypeInv, Group, query.group_by = <<>>
  PROVE  Aggregates(query)
<1>1. Valid /\ Statement(query)
  BY DEF Group, TypeInv
<1>2. query.columns # <<>>
  BY <1>1 DEF Valid, Star
<1>3. query.columns \in Seq(Range(query.columns))
  BY <1>1 DEF Statement
<1>4. 1 \in DOMAIN query.columns
  BY <1>2, <1>3
<1>5. ~is_grouped_column(query.columns[1].ref, query.group_by)
  BY DEF is_grouped_column
<1>6. query.columns[1].agg # ""
  BY <1>1, <1>4, <1>5 DEF Valid
<1>7. QED
  BY <1>4, <1>6 DEF Aggregates

LEMMA ComputePlanned ==
  ASSUME TypeInv, Compute, query.having = NoHaving, query.limit = NoLimit
  PROVE  Len(answer'[2]) = Len(groups)
<1> DEFINE P == {g \in DOMAIN groups : eval_having(query.having, groups[g]) = "yes"}
           cells == [i \in DOMAIN Kept |-> Cells(Kept[i])]
<1>1. groups \in Seq(Seq(CombinedRow)) /\ Len(groups) \in Nat
      /\ DOMAIN groups = 1 .. Len(groups)
  <2>1. groups \in Seq(Seq(CombinedRow))
    BY DEF TypeInv
  <2>2. QED BY <2>1, ListPlaces
<1>2. P = DOMAIN groups
  BY DEF eval_having
<1>3. Kept = Picked(groups, P)
  BY DEF Kept
<1> HIDE DEF P
<1>4. Kept = groups
  BY <1>1, <1>2, <1>3, PickedAll
<1>5. PICK out \in SortedBy(cells, CompareCells) : answer' = Shown(Truncated(out, query.limit))
  BY DEF Compute
<1>6. answer'[2] = out
  BY <1>5 DEF Truncated, Shown
<1>7. DOMAIN out = DOMAIN cells
  BY <1>5 DEF SortedBy
<1>8. DOMAIN out = 1 .. Len(groups)
  BY <1>1, <1>4, <1>7
<1>9. \E p : out = [i \in DOMAIN cells |-> cells[p[i]]]
  BY <1>5 DEF SortedBy
<1>10. QED
  BY <1>1, <1>6, <1>8, <1>9

LEMMA ProjectPlanned ==
  ASSUME TypeInv, Project, query.limit = NoLimit
  PROVE  Len(answer'[2]) = Len(rows)
<1>1. Len(rows) \in Nat /\ DOMAIN rows = 1 .. Len(rows)
  BY ListPlaces DEF TypeInv
<1>2. Truncated(rows, query.limit) = rows
  BY DEF Truncated
<1>3. \E row : answer' = Shown([i \in DOMAIN rows |-> row[i]])
  <2> DEFINE keys == OutKeys(rows)
             Cell(r, k) == IF k \in DOMAIN r THEN r[k] ELSE Missing
             row == [i \in DOMAIN rows |-> [n \in DOMAIN keys |-> Cell(rows[i], keys[n])]]
  <2>1. answer' = Shown(row)
    BY <1>2 DEF Project
  <2>2. row = [i \in DOMAIN rows |-> row[i]]
    OBVIOUS
  <2> HIDE DEF row
  <2>3. QED BY <2>1, <2>2
<1>4. QED
  BY <1>1, <1>3 DEF Shown

(* Every step of a statement whose tables exist has its line in the plan.  *)
LEMMA StepsPlanned == TypeInv /\ Next => [AsPlanned]_vars
<1> SUFFICES ASSUME TypeInv, Next PROVE AsPlanned
  OBVIOUS
<1> DEFINE plan == exec_explain(query)
           line == first_line(query)
           Found == TablesIn(query) \subseteq Tables
<1>1. Statement(query) /\ joined \in 0 .. Len(query.joins)
      /\ (stage \notin {"scan", "done"} => Found)
  BY DEF TypeInv
<1>2. ASSUME Found
      PROVE  /\ plan # Refused /\ plan[2][1] = line
             /\ \A i \in DOMAIN query.joins : plan[2][i + 1] = <<"join", query.joins[i]>>
             /\ query.where # NoWhere => SaysOf(plan[2], "filter")
             /\ query.group_by # <<>> => SaysOf(plan[2], "group by")
             /\ query.group_by = <<>> /\ Aggregates(query) => SaysOf(plan[2], "aggregate")
             /\ query.having # NoHaving => SaysOf(plan[2], "having")
             /\ query.order_by # <<>> => SaysOf(plan[2], "sort by")
             /\ query.limit # NoLimit => SaysOf(plan[2], "limit")
  BY <1>1, <1>2, PlanIs
<1> HIDE DEF plan, line, Found
<1>3. ASSUME stage = "scan", stage' = "join"
      PROVE  /\ plan # Refused
             /\ rows' = LET t == plan[2][1][2]
                        IN  Picked(Qualifying(t), {i \in DOMAIN store[t] :
                                                       Reads(plan[2][1], store[t][i])})
  <2>1. Scan
    BY <1>3 DEF Next, Ask, Explain, NoSuchTable, Refuse, Join, Filter, AggregateUngrouped,
                SortPanics, Order, Project, Invalid, Group, NotComputable, Compute
  <2>2. Found
    BY <2>1 DEF Scan, Found
  <2>3. rows' = Picked(Qualifying(line[2]),
                       {i \in DOMAIN store[line[2]] : Reads(line, store[line[2]][i])})
    BY <2>1, ScanPlanned DEF line
  <2>4. plan # Refused /\ plan[2][1] = line
    BY <1>2, <2>2
  <2>5. QED BY <2>3, <2>4
<1>4. ASSUME stage # "done", joined' # joined
      PROVE  plan[2][joined + 2] = <<"join", query.joins[joined + 1]>>
  <2>1. Join
    BY <1>4 DEF Next, Ask, Explain, Scan, NoSuchTable, Refuse, Filter, AggregateUngrouped,
                SortPanics, Order, Project, Invalid, Group, NotComputable, Compute
  <2>2. Found
    BY <1>1, <2>1 DEF Join
  <2>3. joined \in Nat /\ joined + 1 \in DOMAIN query.joins
    BY <1>1, <2>1, JoinIs, Parsed
  <2>4. plan[2][(joined + 1) + 1] = <<"join", query.joins[joined + 1]>>
    BY <1>2, <2>2, <2>3
  <2>5. (joined + 1) + 1 = joined + 2
    BY <2>3
  <2>6. QED BY <2>4, <2>5
<1>5. ASSUME stage = "join", stage' # "join", rows' # rows PROVE SaysOf(plan[2], "filter")
  <2>1. Filter
    BY <1>5 DEF Next, Ask, Explain, Scan, NoSuchTable, Refuse, Join, AggregateUngrouped,
                SortPanics, Order, Project, Invalid, Group, NotComputable, Compute
  <2>2. query.where # NoWhere
    BY <1>5, <2>1, FilterPlanned
  <2>3. QED BY <1>1, <1>2, <1>5, <2>2
<1>6. ASSUME stage = "order", rows' # rows PROVE SaysOf(plan[2], "sort by")
  <2>1. Order
    BY <1>6 DEF Next, Ask, Explain, Scan, NoSuchTable, Refuse, Join, Filter, AggregateUngrouped,
                SortPanics, Project, Invalid, Group, NotComputable, Compute
  <2>2. query.order_by # <<>>
    BY <1>6, <2>1, OrderPlanned
  <2>3. QED BY <1>1, <1>2, <1>6, <2>2
<1>7. ASSUME stage = "group", stage' = "compute"
      PROVE  SaysOf(plan[2], "group by") \/ SaysOf(plan[2], "aggregate")
  <2>1. Group
    BY <1>7 DEF Next, Ask, Explain, Scan, NoSuchTable, Refuse, Join, Filter, AggregateUngrouped,
                SortPanics, Order, Project, Invalid, NotComputable, Compute
  <2>2. query.group_by = <<>> => Aggregates(query)
    BY <2>1, GroupPlanned
  <2>3. QED BY <1>1, <1>2, <1>7, <2>2
<1>8. ASSUME stage = "compute", answer' # Refused, Len(answer'[2]) # Len(groups)
      PROVE  SaysOf(plan[2], "having") \/ SaysOf(plan[2], "limit")
  <2>1. Compute
    BY <1>8 DEF Next, Ask, Explain, Scan, NoSuchTable, Refuse, Join, Filter, AggregateUngrouped,
                SortPanics, Order, Project, Invalid, Group, NotComputable
  <2>2. query.having # NoHaving \/ query.limit # NoLimit
    BY <1>8, <2>1, ComputePlanned
  <2>3. QED BY <1>1, <1>2, <1>8, <2>2
<1>9. ASSUME stage = "project", Len(answer'[2]) # Len(rows) PROVE SaysOf(plan[2], "limit")
  <2>1. Project
    BY <1>9 DEF Next, Ask, Explain, Scan, NoSuchTable, Refuse, Join, Filter, AggregateUngrouped,
                SortPanics, Order, Invalid, Group, NotComputable, Compute
  <2>2. query.limit # NoLimit
    BY <1>9, <2>1, ProjectPlanned
  <2>3. QED BY <1>1, <1>2, <1>9, <2>2
<1>10. QED
  BY <1>3, <1>4, <1>5, <1>6, <1>7, <1>8, <1>9, ZenonT(40)
     DEF AsPlanned, plan, SaysOf, Reads, Qualifying

(* Whatever the statement and however many rows: EXPLAIN and SELECT do not *)
(* drift apart.  A SELECT that finds its tables has a plan, the first line *)
(* of the plan is exactly what the scan reads, and no step joins, leaves   *)
(* out, orders or groups rows without a line for it (exec_explain,         *)
(* executor/mod.rs:533).                                                   *)
THEOREM PlanIsExecuted == Spec => PlanAsExecuted
<1>1. Spec => []TypeInv
  BY InitTypes, TypesKept, PTL DEF Spec
<1>2. TypeInv /\ [Next]_vars => [AsPlanned]_vars
  BY StepsPlanned
<1>3. QED
  BY <1>1, <1>2, PTL DEF Spec, PlanAsExecuted

----------------------------------------------------------------------------
(* What a fold over a list computes.                                       *)

LEMMA MaxIs ==
  ASSUME NEW n \in Nat, NEW T \in SUBSET (1 .. n), T # {}
  PROVE  Max(T) \in T /\ \A y \in T : y <= Max(T)
<1> DEFINE rank == [x \in 1 .. n |-> n - x]
<1>1. rank \in [1 .. n -> Nat]
  OBVIOUS
<1>2. PICK x \in T : \A y \in T : rank[x] <= rank[y]
  <2> DEFINE S == 1 .. n
  <2>1. rank \in [S -> Nat] /\ T \in SUBSET S
    BY <1>1
  <2> HIDE DEF S, rank
  <2>2. QED BY <2>1, LeastRank
<1>3. \A y \in T : x >= y
  <2>1. SUFFICES ASSUME NEW y \in T PROVE x >= y
    OBVIOUS
  <2>2. rank[x] = n - x /\ rank[y] = n - y /\ x \in Int /\ y \in Int
    OBVIOUS
  <2>3. rank[x] <= rank[y]
    BY <1>2
  <2> HIDE DEF rank
  <2>4. QED BY <2>2, <2>3
<1>4. Max(T) \in T /\ \A y \in T : Max(T) >= y
  BY <1>3, Zenon DEF Max
<1>5. QED
  BY <1>4

LEMMA FirstPlaces ==
  ASSUME NEW n \in Nat, NEW k \in 1 .. n
  PROVE  /\ 1 .. k \in SUBSET (1 .. n) /\ 1 .. k # {}
         /\ Max(1 .. k) = k /\ (1 .. k) \ {k} = 1 .. k - 1
<1>1. 1 .. k \in SUBSET (1 .. n) /\ 1 .. k # {} /\ (1 .. k) \ {k} = 1 .. k - 1
  OBVIOUS
<1>2. Max(1 .. k) \in 1 .. k /\ \A y \in 1 .. k : y <= Max(1 .. k)
  BY <1>1, MaxIs
<1>3. QED
  BY <1>1, <1>2

(* A fold over places from the last one down has a value.                  *)
FoldOf(V, base, n, next) ==
    \E f \in [SUBSET (1 .. n) -> V] : \A T \in SUBSET (1 .. n) :
        f[T] = IF T = {} THEN base ELSE next[<<f[T \ {Max(T)}], Max(T)>>]

LEMMA FoldExists ==
  ASSUME NEW V, NEW base \in V, NEW n \in Nat, NEW next \in [V \X (1 .. n) -> V]
  PROVE  FoldOf(V, base, n, next)
<1> DEFINE I == 1 .. n
           S == SUBSET I
           Body(f, T) == IF T = {} THEN base ELSE next[<<f[T \ {Max(T)}], Max(T)>>]
           step == [p \in S \X [S -> V] |-> Body(p[2], p[1])]
           rank == [T \in S |-> Cardinality(T)]
<1>1. rank \in [S -> Nat]
  <2>1. \A T \in S : Cardinality(T) \in Nat
    BY PlacesFinite
  <2>2. QED BY <2>1
<1>2. \A T \in S : T # {} => Max(T) \in T /\ T \ {Max(T)} \in S
  BY MaxIs
<1>3. \A T \in S : T # {} => rank[T \ {Max(T)}] < rank[T]
  <2>1. SUFFICES ASSUME NEW T \in S, T # {} PROVE rank[T \ {Max(T)}] < rank[T]
    OBVIOUS
  <2>2. IsFiniteSet(T) /\ Max(T) \in T
    BY <1>2, <2>1, PlacesFinite
  <2>3. Cardinality(T \ {Max(T)}) = Cardinality(T) - 1 /\ Cardinality(T) \in Nat
    BY <2>2, FS_RemoveElement, FS_CardinalityType
  <2>4. QED BY <1>2, <2>1, <2>3
<1>4. ASSUME NEW f \in [S -> V], NEW T \in S PROVE Body(f, T) \in V
  <2>1. CASE T = {}
    BY <2>1
  <2>2. CASE T # {}
    <3>1. f[T \ {Max(T)}] \in V /\ Max(T) \in 1 .. n
      BY <1>2, <2>2
    <3>2. QED BY <2>2, <3>1
  <2>3. QED BY <2>1, <2>2
<1>5. step \in [S \X [S -> V] -> V]
  <2> HIDE DEF Body, S
  <2>1. QED BY <1>4
<1>6. ASSUME NEW T \in S, NEW f \in [S -> V], NEW g \in [S -> V],
             \A U \in S : rank[U] < rank[T] => f[U] = g[U]
      PROVE  step[<<T, f>>] = step[<<T, g>>]
  <2>1. T # {} => f[T \ {Max(T)}] = g[T \ {Max(T)}]
    <3> HIDE DEF rank
    <3>1. QED BY <1>2, <1>3, <1>6
  <2>2. Body(f, T) = Body(g, T)
    BY <2>1
  <2> HIDE DEF Body, S
  <2>3. QED BY <2>2
<1>7. Recursive(S, V, rank, step) /\ V # {}
  <2> HIDE DEF step, rank, S
  <2>1. QED BY <1>1, <1>5, <1>6 DEF Recursive
<1>8. PICK f \in [S -> V] : \A T \in S : f[T] = step[<<T, f>>]
  <2> HIDE DEF step, rank, S
  <2>1. QED BY <1>7, Recursion
<1>9. \A T \in S : f[T] = Body(f, T)
  <2> HIDE DEF Body, S
  <2>1. QED BY <1>8
<1>10. QED
  BY <1>9 DEF FoldOf

(* The sums of the first elements of a list of integers.                   *)
Running(a) == CHOOSE f \in [Nat -> Int] :
                  /\ f[0] = 0
                  /\ \A k \in Nat \ {0} : f[k] = f[k - 1] + (IF k \in DOMAIN a THEN a[k] ELSE 0)
SumTo(a, k) == Running(a)[k]

LEMMA SumIs ==
  ASSUME NEW n \in Nat, NEW a \in [1 .. n -> Int]
  PROVE  /\ SumTo(a, 0) = 0
         /\ \A k \in 0 .. n : SumTo(a, k) \in Int
         /\ \A k \in 1 .. n : SumTo(a, k) = SumTo(a, k - 1) + a[k]
<1> DEFINE More(k) == IF k \in DOMAIN a THEN a[k] ELSE 0
           Body(f, k) == IF k = 0 THEN 0 ELSE f[k - 1] + More(k)
           step == [p \in Nat \X [Nat -> Int] |-> Body(p[2], p[1])]
           rank == [k \in Nat |-> k]
<1>1. \A k \in Nat : More(k) \in Int
  OBVIOUS
<1> HIDE DEF More
<1>2. ASSUME NEW f \in [Nat -> Int], NEW k \in Nat PROVE Body(f, k) \in Int
  <2>1. k # 0 => f[k - 1] \in Int
    OBVIOUS
  <2>2. QED BY <1>1, <2>1
<1>3. step \in [Nat \X [Nat -> Int] -> Int] /\ rank \in [Nat -> Nat]
  <2> HIDE DEF Body
  <2>1. QED BY <1>2
<1>4. ASSUME NEW k \in Nat, NEW f \in [Nat -> Int], NEW g \in [Nat -> Int],
             \A j \in Nat : rank[j] < rank[k] => f[j] = g[j]
      PROVE  step[<<k, f>>] = step[<<k, g>>]
  <2>1. k # 0 => f[k - 1] = g[k - 1]
    BY <1>4
  <2>2. Body(f, k) = Body(g, k)
    BY <2>1
  <2>3. QED BY <2>2
<1>5. PICK f \in [Nat -> Int] : \A k \in Nat : f[k] = Body(f, k)
  <2>1. Recursive(Nat, Int, rank, step)
    <3> HIDE DEF step, rank
    <3>1. QED BY <1>3, <1>4 DEF Recursive
  <2>2. PICK f \in [Nat -> Int] : \A k \in Nat : f[k] = step[<<k, f>>]
    <3> DEFINE S == Nat
               V == Int
    <3>1. V # {} /\ Recursive(S, V, rank, step)
      BY <2>1
    <3> HIDE DEF step, rank, S, V
    <3>2. \E f \in [S -> V] : \A k \in S : f[k] = step[<<k, f>>]
      BY <3>1, Recursion
    <3>3. QED BY <3>2 DEF S, V
  <2>3. QED BY <2>2
<1>6. f[0] = 0 /\ \A k \in Nat \ {0} : f[k] = f[k - 1] + More(k)
  BY <1>5
<1>7. /\ Running(a) \in [Nat -> Int] /\ Running(a)[0] = 0
      /\ \A k \in Nat \ {0} : Running(a)[k] = Running(a)[k - 1] + More(k)
  BY <1>6, Zenon DEF Running, More
<1>8. \A k \in 1 .. n : More(k) = a[k] /\ k \in Nat \ {0}
  BY DEF More
<1>9. QED
  BY <1>7, <1>8 DEF SumTo

LEMMA SumZero ==
  ASSUME NEW n \in Nat, NEW a \in [1 .. n -> Int], \A k \in 1 .. n : a[k] = 0
  PROVE  SumTo(a, n) = 0
<1> DEFINE T == {k \in 0 .. n : SumTo(a, k) = 0}
<1>1. 0 \in T
  BY SumIs
<1>2. ASSUME NEW k \in 1 .. n, k - 1 \in T PROVE k \in T
  <2>1. SumTo(a, k) = SumTo(a, k - 1) + a[k] /\ SumTo(a, k - 1) = 0
    BY <1>2, SumIs
  <2>2. QED BY <2>1
<1> HIDE DEF T
<1>3. n \in T
  BY <1>1, <1>2, Climb
<1>4. QED
  BY <1>3 DEF T

LEMMA SumOnes ==
  ASSUME NEW n \in Nat, NEW a \in [1 .. n -> Int], \A k \in 1 .. n : a[k] = 1
  PROVE  SumTo(a, n) = n
<1> DEFINE T == {k \in 0 .. n : SumTo(a, k) = k}
<1>1. 0 \in T
  BY SumIs
<1>2. ASSUME NEW k \in 1 .. n, k - 1 \in T PROVE k \in T
  <2>1. SumTo(a, k) = SumTo(a, k - 1) + a[k] /\ SumTo(a, k - 1) = k - 1
    BY <1>2, SumIs
  <2>2. QED BY <2>1
<1> HIDE DEF T
<1>3. n \in T
  BY <1>1, <1>2, Climb
<1>4. QED
  BY <1>3 DEF T

LEMMA SumPlus ==
  ASSUME NEW n \in Nat, NEW a \in [1 .. n -> Int], NEW b \in [1 .. n -> Int],
         NEW c \in [1 .. n -> Int], \A k \in 1 .. n : c[k] = a[k] + b[k]
  PROVE  SumTo(c, n) = SumTo(a, n) + SumTo(b, n)
<1> DEFINE T == {k \in 0 .. n : SumTo(c, k) = SumTo(a, k) + SumTo(b, k)}
<1>1. /\ SumTo(a, 0) = 0 /\ SumTo(b, 0) = 0 /\ SumTo(c, 0) = 0
      /\ \A k \in 0 .. n : SumTo(a, k) \in Int /\ SumTo(b, k) \in Int /\ SumTo(c, k) \in Int
      /\ \A k \in 1 .. n : /\ SumTo(a, k) = SumTo(a, k - 1) + a[k]
                           /\ SumTo(b, k) = SumTo(b, k - 1) + b[k]
                           /\ SumTo(c, k) = SumTo(c, k - 1) + c[k]
  BY SumIs
<1>2. 0 \in T
  BY <1>1
<1>3. ASSUME NEW k \in 1 .. n, k - 1 \in T PROVE k \in T
  <2>1. /\ SumTo(c, k - 1) = SumTo(a, k - 1) + SumTo(b, k - 1)
        /\ k - 1 \in 0 .. n /\ a[k] \in Int /\ b[k] \in Int
    BY <1>3
  <2>2. SumTo(c, k) = SumTo(a, k) + SumTo(b, k)
    BY <1>1, <2>1
  <2>3. QED BY <2>2
<1> HIDE DEF T
<1>4. n \in T
  BY <1>2, <1>3, Climb
<1>5. QED
  BY <1>4 DEF T

OnlyAt(a, n, x) == x \in 1 .. n /\ \A k \in 1 .. n : k # x => a[k] = 0

LEMMA SumSingle ==
  ASSUME NEW n \in Nat, NEW a \in [1 .. n -> Int], NEW x, OnlyAt(a, n, x)
  PROVE  SumTo(a, n) = a[x]
<1> USE DEF OnlyAt
<1> DEFINE T == {k \in 0 .. n : SumTo(a, k) = IF k < x THEN 0 ELSE a[x]}
<1>1. 0 \in T
  BY SumIs
<1>2. ASSUME NEW k \in 1 .. n, k - 1 \in T PROVE k \in T
  <2>1. SumTo(a, k) = SumTo(a, k - 1) + a[k] /\ a[k] \in Int /\ a[x] \in Int
    BY SumIs
  <2>2. SumTo(a, k - 1) = IF k - 1 < x THEN 0 ELSE a[x]
    BY <1>2
  <2>3. QED BY <2>1, <2>2
<1> HIDE DEF T
<1>3. n \in T
  BY <1>1, <1>2, Climb
<1>4. QED
  BY <1>3 DEF T

(* The sums of the parts of a list add up to its sum: h says which part an *)
(* element belongs to, 0 for none.                                         *)
LEMMA SumParts ==
  ASSUME NEW n \in Nat, NEW m \in Nat, NEW a \in [1 .. n -> Int], NEW h \in [1 .. n -> 0 .. m],
         \A i \in 1 .. n : h[i] = 0 => a[i] = 0, NEW b \in [1 .. m -> Int],
         \A g \in 1 .. m : b[g] = SumTo([i \in 1 .. n |-> IF h[i] = g THEN a[i] ELSE 0], n)
  PROVE  SumTo(b, m) = SumTo(a, n)
<1> DEFINE Low(g)  == [i \in 1 .. n |-> IF h[i] <= g THEN a[i] ELSE 0]
           Part(g) == [i \in 1 .. n |-> IF h[i] = g THEN a[i] ELSE 0]
           T == {g \in 0 .. m : SumTo(b, g) = SumTo(Low(g), n)}
<1>1. \A g : Low(g) \in [1 .. n -> Int] /\ Part(g) \in [1 .. n -> Int]
  OBVIOUS
<1>2. \A i \in 1 .. n : h[i] \in 0 .. m /\ a[i] \in Int
  OBVIOUS
<1>3. 0 \in T
  <2>1. \A i \in 1 .. n : Low(0)[i] = 0
    BY <1>2
  <2> HIDE DEF Low
  <2>2. SumTo(Low(0), n) = 0
    BY <1>1, <2>1, SumZero
  <2>3. QED BY <2>2, SumIs
<1>4. ASSUME NEW g \in 1 .. m, g - 1 \in T PROVE g \in T
  <2>1. \A i \in 1 .. n : Low(g)[i] = Low(g - 1)[i] + Part(g)[i]
    BY <1>2
  <2>2. b[g] = SumTo(Part(g), n)
    OBVIOUS
  <2> DEFINE below == Low(g - 1)
             upto  == Low(g)
             here  == Part(g)
  <2>3. SumTo(upto, n) = SumTo(below, n) + SumTo(here, n)
    <3>1. /\ below \in [1 .. n -> Int] /\ upto \in [1 .. n -> Int] /\ here \in [1 .. n -> Int]
          /\ \A i \in 1 .. n : upto[i] = below[i] + here[i]
      BY <1>1, <2>1
    <3> HIDE DEF below, upto, here
    <3>2. QED BY <3>1, SumPlus
  <2> HIDE DEF Low, Part
  <2>4. SumTo(b, g) = SumTo(b, g - 1) + b[g]
    BY SumIs
  <2>5. SumTo(b, g - 1) = SumTo(Low(g - 1), n)
    BY <1>4
  <2>6. QED BY <2>2, <2>3, <2>4, <2>5
<1>5. m \in T
  <2> HIDE DEF T
  <2>1. QED BY <1>3, <1>4, Climb
<1>6. Low(m) = a
  <2>1. \A i \in 1 .. n : h[i] <= m
    BY <1>2
  <2>2. a = [i \in 1 .. n |-> a[i]]
    OBVIOUS
  <2>3. QED BY <2>1, <2>2
<1> HIDE DEF Low
<1>7. QED
  BY <1>5, <1>6

(* f lists places of a, each once, and all where a is not 0.               *)
Renames(f, m, n, a) == /\ f \in [1 .. m -> 1 .. n]
                       /\ \A i, j \in 1 .. m : f[i] = f[j] => i = j
                       /\ \A x \in 1 .. n : a[x] # 0 => \E j \in 1 .. m : f[j] = x

(* Listing the elements that count in another order leaves the sum.        *)
LEMMA SumRenamed ==
  ASSUME NEW n \in Nat, NEW m \in Nat, NEW a \in [1 .. n -> Int], NEW f, Renames(f, m, n, a)
  PROVE  SumTo([j \in 1 .. m |-> a[f[j]]], m) = SumTo(a, n)
<1> DEFINE b == [j \in 1 .. m |-> a[f[j]]]
           h == [x \in 1 .. n |-> IF \E j \in 1 .. m : f[j] = x
                                  THEN CHOOSE j \in 1 .. m : f[j] = x ELSE 0]
           Part(g) == [x \in 1 .. n |-> IF h[x] = g THEN a[x] ELSE 0]
<1>1. b \in [1 .. m -> Int]
  BY DEF Renames
<1>2. \A x \in 1 .. n : \/ h[x] \in 1 .. m /\ f[h[x]] = x
                        \/ h[x] = 0 /\ ~\E j \in 1 .. m : f[j] = x
  OBVIOUS
<1>3. h \in [1 .. n -> 0 .. m]
  <2>1. h = [x \in 1 .. n |-> h[x]]
    OBVIOUS
  <2> HIDE DEF h
  <2>2. \A x \in 1 .. n : h[x] \in 0 .. m
    BY <1>2
  <2>3. QED BY <2>1, <2>2
<1> HIDE DEF h
<1>4. ASSUME NEW x \in 1 .. n, h[x] = 0 PROVE a[x] = 0
  <2>1. h[x] \notin 1 .. m
    BY <1>4
  <2>2. ~\E j \in 1 .. m : f[j] = x
    BY <1>2, <2>1
  <2>3. QED BY <2>2 DEF Renames
<1>5. ASSUME NEW g \in 1 .. m PROVE b[g] = SumTo(Part(g), n)
  <2> DEFINE part  == Part(g)
             place == f[g]
  <2>1. part \in [1 .. n -> Int] /\ place \in 1 .. n
    BY DEF Renames
  <2>2. h[place] = g
    BY <1>2, <2>1, ZenonT(40) DEF Renames
  <2>3. part[place] = a[place]
    BY <2>1, <2>2
  <2>4. OnlyAt(part, n, place)
    BY <1>2, <2>1 DEF OnlyAt
  <2> HIDE DEF part, place
  <2>5. SumTo(part, n) = part[place]
    BY <2>1, <2>4, SumSingle
  <2>6. QED BY <2>3, <2>5 DEF part, place
<1> HIDE DEF b
<1>6. SumTo(b, m) = SumTo(a, n)
  BY <1>1, <1>3, <1>4, <1>5, SumParts
<1>7. QED
  BY <1>6 DEF b

(* Total adds up the numbers of a list.                                    *)
LEMMA TotalIs ==
  ASSUME NEW n \in Nat, NEW s, DOMAIN s = 1 .. n, \A i \in 1 .. n : s[i][2] \in Int
  PROVE  LET a == [i \in 1 .. n |-> s[i][2]]
         IN  a \in [1 .. n -> Int] /\ Total(s) = SumTo(a, n)
<1> DEFINE I == 1 .. n
           a == [i \in I |-> s[i][2]]
           next == [p \in Int \X I |-> p[1] + s[p[2]][2]]
           H == CHOOSE h : h = [T \in SUBSET I |-> IF T = {} THEN 0
                                                   ELSE h[T \ {Max(T)}] + s[Max(T)][2]]
<1>1. a \in [1 .. n -> Int]
  OBVIOUS
<1>2. next \in [Int \X I -> Int]
  OBVIOUS
<1>3. PICK f \in [SUBSET I -> Int] : \A T \in SUBSET I :
          f[T] = IF T = {} THEN 0 ELSE next[<<f[T \ {Max(T)}], Max(T)>>]
  <2> DEFINE V == Int
             base == 0
  <2>1. base \in V /\ next \in [V \X I -> V]
    BY <1>2
  <2> HIDE DEF V, next, base
  <2>2. FoldOf(V, base, n, next)
    BY <2>1, FoldExists
  <2>3. QED BY <2>2 DEF V, base, FoldOf
<1>4. \A T \in SUBSET I : T # {} => Max(T) \in I /\ T \ {Max(T)} \in SUBSET I
  BY MaxIs
<1>5. \A T \in SUBSET I : f[T] = IF T = {} THEN 0 ELSE f[T \ {Max(T)}] + s[Max(T)][2]
  <2>1. SUFFICES ASSUME NEW T \in SUBSET I, T # {}
                 PROVE  f[T] = f[T \ {Max(T)}] + s[Max(T)][2]
    BY <1>3
  <2>2. f[T \ {Max(T)}] \in Int /\ Max(T) \in I
    BY <1>4, <2>1
  <2>3. QED BY <1>3, <2>1, <2>2
<1>6. f = [T \in SUBSET I |-> IF T = {} THEN 0 ELSE f[T \ {Max(T)}] + s[Max(T)][2]]
  <2> HIDE DEF I
  <2>1. QED BY <1>5
<1>7. H = [T \in SUBSET I |-> IF T = {} THEN 0 ELSE H[T \ {Max(T)}] + s[Max(T)][2]]
  BY <1>6, Zenon
<1>8. Total(s) = H[I]
  BY Zenon DEF Total, FoldLeft, MapThenFoldSet
<1> HIDE DEF H, next
<1>9. H[{}] = 0
  BY <1>7
<1>10. ASSUME NEW k \in 1 .. n PROVE H[1 .. k] = H[1 .. k - 1] + a[k]
  <2>1. /\ 1 .. k \in SUBSET I /\ 1 .. k # {}
        /\ Max(1 .. k) = k /\ (1 .. k) \ {k} = 1 .. k - 1
    BY FirstPlaces
  <2>2. H[1 .. k] = H[(1 .. k) \ {Max(1 .. k)}] + s[Max(1 .. k)][2]
    BY <1>7, <2>1
  <2>3. QED BY <2>1, <2>2
<1> DEFINE T == {k \in 0 .. n : H[1 .. k] = SumTo(a, k)}
<1>11. 0 \in T
  <2>1. 1 .. 0 = {}
    OBVIOUS
  <2>2. SumTo(a, 0) = 0
    BY <1>1, SumIs
  <2>3. QED BY <1>9, <2>1, <2>2
<1>12. ASSUME NEW k \in 1 .. n, k - 1 \in T PROVE k \in T
  <2>1. SumTo(a, k) = SumTo(a, k - 1) + a[k]
    BY <1>1, SumIs
  <2>2. QED BY <1>10, <1>12, <2>1
<1>13. n \in T
  <2> HIDE DEF T
  <2>1. QED BY <1>11, <1>12, Climb
<1>14. QED
  BY <1>1, <1>8, <1>13

(* The checked sum is the sum, unless it failed.                           *)
LEMMA CheckedIs ==
  ASSUME NEW n \in Nat, NEW s, DOMAIN s = 1 .. n, \A i \in 1 .. n : s[i][2] \in Int
  PROVE  LET sum == FoldLeft(checked_add, <<"int", 0>>, s)
         IN  sum = Failed \/ sum = <<"int", Total(s)>>
<1> DEFINE I == 1 .. n
           V == ({"int"} \X Int) \cup {Failed}
           a == [i \in I |-> s[i][2]]
           next == [p \in V \X I |-> checked_add(p[1], s[p[2]])]
           H == CHOOSE h : h = [T \in SUBSET I |-> IF T = {} THEN <<"int", 0>>
                                                   ELSE checked_add(h[T \ {Max(T)}], s[Max(T)])]
<1>1. a \in [1 .. n -> Int] /\ Total(s) = SumTo(a, n)
  BY TotalIs
<1>2. \A v \in V, i \in I : checked_add(v, s[i]) \in V
  BY DEF checked_add, Failed
<1>3. next \in [V \X I -> V]
  <2> HIDE DEF V, I
  <2>1. QED BY <1>2
<1>4. PICK f \in [SUBSET I -> V] : \A T \in SUBSET I :
          f[T] = IF T = {} THEN <<"int", 0>> ELSE next[<<f[T \ {Max(T)}], Max(T)>>]
  <2> DEFINE base == <<"int", 0>>
  <2>1. base \in V /\ next \in [V \X (1 .. n) -> V]
    BY <1>3
  <2> HIDE DEF V, next, base
  <2>2. FoldOf(V, base, n, next)
    BY <2>1, FoldExists
  <2>3. QED BY <2>2 DEF base, FoldOf
<1>5. \A T \in SUBSET I : T # {} => Max(T) \in I /\ T \ {Max(T)} \in SUBSET I
  BY MaxIs
<1>6. \A T \in SUBSET I :
          f[T] = IF T = {} THEN <<"int", 0>> ELSE checked_add(f[T \ {Max(T)}], s[Max(T)])
  <2>1. SUFFICES ASSUME NEW T \in SUBSET I, T # {}
                 PROVE  f[T] = checked_add(f[T \ {Max(T)}], s[Max(T)])
    BY <1>4
  <2> HIDE DEF V
  <2>2. f[T \ {Max(T)}] \in V /\ Max(T) \in I
    BY <1>5, <2>1
  <2>3. QED BY <1>4, <2>1, <2>2
<1>7. f = [T \in SUBSET I |-> IF T = {} THEN <<"int", 0>>
                              ELSE checked_add(f[T \ {Max(T)}], s[Max(T)])]
  <2> HIDE DEF I, V
  <2>1. QED BY <1>6
<1>8. H = [T \in SUBSET I |-> IF T = {} THEN <<"int", 0>>
                              ELSE checked_add(H[T \ {Max(T)}], s[Max(T)])]
  BY <1>7, Zenon
<1>9. FoldLeft(checked_add, <<"int", 0>>, s) = H[I]
  BY Zenon DEF FoldLeft, MapThenFoldSet
<1> HIDE DEF H, next, V
<1>10. H[{}] = <<"int", 0>>
  BY <1>8
<1>11. ASSUME NEW k \in 1 .. n PROVE H[1 .. k] = checked_add(H[1 .. k - 1], s[k])
  <2>1. /\ 1 .. k \in SUBSET I /\ 1 .. k # {}
        /\ Max(1 .. k) = k /\ (1 .. k) \ {k} = 1 .. k - 1
    BY FirstPlaces
  <2>2. H[1 .. k] = checked_add(H[(1 .. k) \ {Max(1 .. k)}], s[Max(1 .. k)])
    BY <1>8, <2>1
  <2>3. QED BY <2>1, <2>2
<1> DEFINE T == {k \in 0 .. n : H[1 .. k] = Failed \/ H[1 .. k] = <<"int", SumTo(a, k)>>}
<1>12. 0 \in T
  <2>1. 1 .. 0 = {}
    OBVIOUS
  <2>2. SumTo(a, 0) = 0
    BY <1>1, SumIs
  <2>3. QED BY <1>10, <2>1, <2>2
<1>13. ASSUME NEW k \in 1 .. n, k - 1 \in T PROVE k \in T
  <2>1. SumTo(a, k) = SumTo(a, k - 1) + a[k] /\ a[k] = s[k][2]
    BY <1>1, SumIs
  <2>2. H[1 .. k - 1] = Failed \/ H[1 .. k - 1] = <<"int", SumTo(a, k - 1)>>
    BY <1>13
  <2>3. H[1 .. k] = Failed \/ H[1 .. k] = <<"int", SumTo(a, k - 1) + s[k][2]>>
    <3>1. H[1 .. k] = checked_add(H[1 .. k - 1], s[k]) /\ s[k][2] \in Int
      BY <1>11
    <3>2. CASE H[1 .. k - 1] = Failed
      BY <3>1, <3>2 DEF checked_add
    <3>3. CASE H[1 .. k - 1] = <<"int", SumTo(a, k - 1)>>
      <4> DEFINE was == <<"int", SumTo(a, k - 1)>>
      <4>1. checked_add(was, s[k]) \in {Failed, <<"int", was[2] + s[k][2]>>}
        <5> HIDE DEF was
        <5>1. QED BY DEF checked_add
      <4>2. was[2] = SumTo(a, k - 1)
        OBVIOUS
      <4>3. QED BY <3>1, <3>3, <4>1, <4>2
    <3>4. QED BY <2>2, <3>2, <3>3
  <2>4. QED BY <2>1, <2>3
<1>14. n \in T
  <2> HIDE DEF T
  <2>1. QED BY <1>12, <1>13, Climb
<1>15. QED
  BY <1>1, <1>9, <1>14

(* What is picked from a list adds up to it, if the rest is 0.             *)
LEMMA SumPicked ==
  ASSUME NEW n \in Nat, NEW P \in SUBSET (1 .. n), NEW a \in [1 .. n -> Int],
         \A k \in 1 .. n : k \notin P => a[k] = 0,
         NEW b, b = [j \in 1 .. Cardinality(P) |-> a[InOrder(P)[j]]]
  PROVE  /\ Cardinality(P) \in Nat /\ b \in [1 .. Cardinality(P) -> Int]
         /\ SumTo(b, Cardinality(P)) = SumTo(a, n)
<1> DEFINE f == InOrder(P)
           m == Cardinality(P)
<1>1. m \in Nat /\ Lists(f, m, P)
  BY InOrderLists, PlacesFinite
<1> HIDE DEF f, m
<1>2. \A i, j \in 1 .. m : i < j => f[i] < f[j]
  BY <1>1 DEF Lists
<1>3. f \in [1 .. m -> P] /\ \A x \in P : \E j \in 1 .. m : f[j] = x
  BY <1>1 DEF Lists
<1>4. \A i, j \in 1 .. m : f[i] = f[j] => i = j
  <2>1. SUFFICES ASSUME NEW i \in 1 .. m, NEW j \in 1 .. m, i < j PROVE f[i] # f[j]
    BY <1>1
  <2>2. f[i] \in P /\ f[j] \in P
    BY <1>3
  <2>3. f[i] \in Int /\ f[j] \in Int
    <3>1. \A x \in P : x \in Int
      OBVIOUS
    <3>2. QED BY <2>2, <3>1
  <2>4. f[i] < f[j]
    BY <1>2, <2>1
  <2>5. QED BY <2>3, <2>4
<1>5. Renames(f, m, n, a)
  BY <1>3, <1>4 DEF Renames
<1>6. SumTo([j \in 1 .. m |-> a[f[j]]], m) = SumTo(a, n)
  BY <1>1, <1>5, SumRenamed
<1>7. \A j \in 1 .. m : a[f[j]] \in Int
  BY <1>3
<1>8. QED
  BY <1>1, <1>6, <1>7 DEF f, m

----------------------------------------------------------------------------
(* What a row adds to a COUNT or a SUM.                                    *)

Weight(item, row) ==
    IF item.ref = StarArg THEN 1
    ELSE IF lookup_ref(row, item.ref) \in {Null, Missing} THEN 0
    ELSE IF item.agg = "COUNT" THEN 1 ELSE lookup_ref(row, item.ref)[2]
Weights(item, group) == [i \in 1 .. Len(group) |-> Weight(item, group[i])]
Weighed(item, group) == SumTo(Weights(item, group), Len(group))

LEMMA ValueNumber ==
  ASSUME NEW v \in Value \cup {Missing}
  PROVE  v[2] \in Int
BY WhereAssumption DEF Value, Null, Missing

LEMMA WeightsType ==
  ASSUME NEW group \in Seq(CombinedRow), NEW item
  PROVE  /\ Len(group) \in Nat /\ DOMAIN group = 1 .. Len(group)
         /\ \A i \in 1 .. Len(group) : lookup_ref(group[i], item.ref)[2] \in Int
         /\ Weights(item, group) \in [1 .. Len(group) -> Int]
         /\ Weighed(item, group) \in Int
<1>1. Len(group) \in Nat /\ DOMAIN group = 1 .. Len(group)
  BY ListPlaces
<1>2. ASSUME NEW i \in 1 .. Len(group) PROVE lookup_ref(group[i], item.ref)[2] \in Int
  <2>1. group[i] \in CombinedRow
    BY <1>1, ListPlaces
  <2>2. lookup_ref(group[i], item.ref) \in Value \cup {Missing}
    BY <2>1, LookupType DEF InColumn
  <2>3. QED BY <2>2, ValueNumber
<1>3. \A i \in 1 .. Len(group) : Weight(item, group[i]) \in Int
  BY <1>2 DEF Weight
<1>4. Weights(item, group) \in [1 .. Len(group) -> Int]
  BY <1>3 DEF Weights
<1>5. Weighed(item, group) \in Int
  <2> DEFINE w == Weights(item, group)
             n == Len(group)
  <2>1. w \in [1 .. n -> Int] /\ n \in Nat
    BY <1>1, <1>4
  <2> HIDE DEF w, n
  <2>2. SumTo(w, n) \in Int
    BY <2>1, SumIs
  <2>3. QED BY <2>2 DEF w, n, Weighed
<1>6. QED
  BY <1>1, <1>2, <1>4, <1>5

(* The values an aggregate reads, NULLs left out, weigh what the rows do.  *)
LEMMA ValuesWeigh ==
  ASSUME NEW group \in Seq(CombinedRow), NEW item, item.ref # StarArg,
         NEW values, values = Values(item.ref, group)
  PROVE  /\ Len(values) \in Nat /\ DOMAIN values = 1 .. Len(values)
         /\ \A i \in 1 .. Len(values) : values[i][2] \in Int
         /\ item.agg = "COUNT" => Len(values) = Weighed(item, group)
         /\ item.agg # "COUNT" => Total(values) = Weighed(item, group)
<1> DEFINE n == Len(group)
           all == [i \in DOMAIN group |-> lookup_ref(group[i], item.ref)]
           P == {i \in DOMAIN group : all[i] \notin {Null, Missing}}
           m == Cardinality(P)
           a == Weights(item, group)
           b == [j \in 1 .. m |-> a[InOrder(P)[j]]]
<1>1. n \in Nat /\ DOMAIN group = 1 .. n /\ \A i \in 1 .. n : all[i][2] \in Int
  BY WeightsType
<1>2. a \in [1 .. n -> Int]
  BY WeightsType
<1>3. P \in SUBSET (1 .. n)
  BY <1>1
<1>4. values = Picked(all, P)
  BY DEF Values
<1>5. \A i \in 1 .. n : i \notin P => a[i] = 0
  BY <1>1 DEF Weights, Weight
<1>6. \A i \in P : a[i] = IF item.agg = "COUNT" THEN 1 ELSE all[i][2]
  BY <1>1 DEF Weights, Weight
<1> HIDE DEF n, a, P, all
<1>7. m \in Nat /\ b \in [1 .. m -> Int] /\ SumTo(b, m) = SumTo(a, n)
  <2> HIDE DEF b
  <2>1. b = [j \in 1 .. m |-> a[InOrder(P)[j]]]
    BY DEF b
  <2>2. QED BY <1>1, <1>2, <1>3, <1>5, <2>1, SumPicked
<1>8. values = [j \in 1 .. m |-> all[InOrder(P)[j]]]
  BY <1>4 DEF Picked
<1>9. \A j \in 1 .. m : InOrder(P)[j] \in P /\ InOrder(P)[j] \in 1 .. n
  BY <1>1, <1>3, InOrderLists DEF Lists
<1>10. \A j \in 1 .. m : /\ b[j] = IF item.agg = "COUNT" THEN 1 ELSE values[j][2]
                         /\ values[j][2] \in Int
  BY <1>1, <1>6, <1>8, <1>9
<1> HIDE DEF b, m
<1>11. DOMAIN values = 1 .. m /\ Len(values) = m
  <2>1. DOMAIN values = 1 .. m
    BY <1>8
  <2>2. Len(values) = Cardinality(P)
    <3> DEFINE R == {all[i] : i \in P}
    <3>1. \A i \in P : all[i] \in R
      OBVIOUS
    <3> HIDE DEF R
    <3>2. Len(Picked(all, P)) = Cardinality(P)
      BY <1>1, <1>3, <3>1, PickedType
    <3>3. QED BY <1>4, <3>2
  <2>3. QED BY <2>1, <2>2 DEF m
<1>12. Weighed(item, group) = SumTo(b, m)
  BY <1>7 DEF Weighed, a, n
<1>13. ASSUME item.agg = "COUNT" PROVE Len(values) = Weighed(item, group)
  <2>1. \A j \in 1 .. m : b[j] = 1
    BY <1>10, <1>13
  <2>2. SumTo(b, m) = m
    BY <1>7, <2>1, SumOnes
  <2>3. QED BY <1>11, <1>12, <2>2
<1>14. ASSUME item.agg # "COUNT" PROVE Total(values) = Weighed(item, group)
  <2>1. Total(values) = SumTo([j \in 1 .. m |-> values[j][2]], m)
    BY <1>7, <1>10, <1>11, TotalIs
  <2>2. b = [j \in 1 .. m |-> values[j][2]]
    BY <1>7, <1>10, <1>14
  <2>3. QED BY <1>12, <2>1, <2>2
<1>15. QED
  BY <1>7, <1>10, <1>11, <1>13, <1>14

LEMMA TotalOfNone == Total(<<>>) = 0
<1> DEFINE none == <<>>
           zero == 0
<1>1. none = <<>> /\ DOMAIN none = 1 .. zero /\ zero \in Nat
      /\ \A i \in 1 .. zero : none[i][2] \in Int
  OBVIOUS
<1> HIDE DEF none, zero
<1>2. Total(none) = SumTo([i \in 1 .. zero |-> none[i][2]], zero)
      /\ [i \in 1 .. zero |-> none[i][2]] \in [1 .. zero -> Int]
  BY <1>1, TotalIs
<1>3. SumTo([i \in 1 .. zero |-> none[i][2]], 0) = 0
  BY <1>1, <1>2, SumIs
<1>4. QED BY <1>1, <1>2, <1>3 DEF zero

(* A SUM of values is their total, one of nothing is NULL.                 *)
LEMMA SumCell ==
  ASSUME NEW group \in Seq(CombinedRow), NEW item, item.ref # StarArg,
         item.agg \in {"SUM", "AVG"}, NEW values, values = Values(item.ref, group),
         compute_aggregate(item, group) # Failed
  PROVE  compute_aggregate(item, group) =
             IF values = <<>> THEN Null
             ELSE IF item.agg = "SUM" THEN <<"int", Total(values)>>
             ELSE <<"avg", Total(values), Len(values)>>
<1> DEFINE sum == FoldLeft(checked_add, <<"int", 0>>, values)
           cell == compute_aggregate(item, group)
<1>1. cell = IF sum = Failed THEN Failed
             ELSE IF values = <<>> THEN Null
             ELSE IF item.agg = "SUM" THEN sum
             ELSE <<"avg", sum[2], Len(values)>>
  BY DEF compute_aggregate
<1>2. sum # Failed
  BY <1>1
<1>3. sum = <<"int", Total(values)>>
  <2> DEFINE n == Len(values)
  <2>1. n \in Nat /\ DOMAIN values = 1 .. n /\ \A i \in 1 .. n : values[i][2] \in Int
    BY ValuesWeigh
  <2> HIDE DEF n
  <2>2. sum = Failed \/ sum = <<"int", Total(values)>>
    BY <2>1, CheckedIs
  <2>3. QED BY <1>2, <2>2
<1> HIDE DEF sum
<1>4. QED
  BY <1>1, <1>2, <1>3

LEMMA CellWeighs ==
  ASSUME NEW group \in Seq(CombinedRow), NEW item, item.agg \in {"COUNT", "SUM", "AVG"},
         item.ref = StarArg => item.agg = "COUNT",
         compute_aggregate(item, group) # Failed
  PROVE  compute_aggregate(item, group)[2] = Weighed(item, group)
<1> DEFINE values == Values(item.ref, group)
           cell == compute_aggregate(item, group)
<1>1. CASE item.ref = StarArg
  <2> DEFINE n == Len(group)
             w == Weights(item, group)
  <2>1. cell[2] = n
    BY <1>1 DEF compute_aggregate
  <2>2. n \in Nat /\ w \in [1 .. n -> Int]
    BY WeightsType
  <2>3. \A i \in 1 .. n : w[i] = 1
    BY <1>1 DEF Weights, Weight
  <2> HIDE DEF n, w, cell
  <2>4. SumTo(w, n) = n
    BY <2>2, <2>3, SumOnes
  <2>5. QED BY <2>1, <2>4 DEF Weighed, w, n, cell
<1>2. ASSUME item.ref # StarArg
      PROVE  /\ item.agg = "COUNT" => Len(values) = Weighed(item, group)
             /\ item.agg # "COUNT" => Total(values) = Weighed(item, group)
  BY <1>2, ValuesWeigh
<1>3. CASE item.ref # StarArg /\ item.agg = "COUNT"
  <2>1. cell = <<"int", Len(values)>>
    BY <1>3 DEF compute_aggregate
  <2>2. QED BY <1>2, <1>3, <2>1
<1>4. CASE item.ref # StarArg /\ item.agg # "COUNT"
  <2>1. item.agg \in {"SUM", "AVG"}
    BY <1>4
  <2> HIDE DEF values
  <2>2. cell = IF values = <<>> THEN Null
               ELSE IF item.agg = "SUM" THEN <<"int", Total(values)>>
               ELSE <<"avg", Total(values), Len(values)>>
    BY <1>4, <2>1, SumCell DEF values
  <2>3. values = <<>> => Total(values) = 0
    BY TotalOfNone
  <2> HIDE DEF cell
  <2>4. cell[2] = Total(values)
    <3>1. CASE values = <<>>
      BY <2>2, <2>3, <3>1 DEF Null
    <3>2. CASE values # <<>>
      BY <2>2, <3>2
    <3>3. QED BY <3>1, <3>2
  <2>5. QED
    BY <1>2, <1>4, <2>4 DEF cell
<1>5. QED
  BY <1>1, <1>3, <1>4

(* Every row weighs in exactly one group.                                  *)
LEMMA GroupsWeigh ==
  ASSUME rows \in Seq(CombinedRow), NEW item,
         NEW w, w = [g \in DOMAIN GroupsOf |-> Weighed(item, GroupsOf[g])]
  PROVE  /\ Len(GroupsOf) \in Nat /\ w \in [1 .. Len(GroupsOf) -> Int]
         /\ SumTo(w, Len(GroupsOf)) = Weighed(item, rows)
<1>1. /\ GroupsOf \in Seq(Seq(CombinedRow))
      /\ Len(GroupsOf) \in Nat /\ DOMAIN GroupsOf = 1 .. Len(GroupsOf)
      /\ \A g \in DOMAIN GroupsOf : GroupsOf[g] \in Seq(CombinedRow)
  <2>1. GroupsOf \in Seq(Seq(CombinedRow))
    BY GroupsSpread
  <2>2. QED BY <2>1, ListPlaces
<1>2. w \in [1 .. Len(GroupsOf) -> Int]
  <2>1. \A g \in DOMAIN GroupsOf : Weighed(item, GroupsOf[g]) \in Int
    BY <1>1, WeightsType
  <2>2. QED BY <1>1, <2>1
<1>3. CASE query.group_by = <<>>
  <2>1. GroupsOf = <<rows>>
    BY <1>3 DEF GroupsOf
  <2>2. Len(GroupsOf) = 1 /\ w[1] = Weighed(item, rows) /\ DOMAIN GroupsOf = {1}
    BY <2>1
  <2> DEFINE one == 1
  <2>3. one \in Nat /\ w \in [1 .. one -> Int] /\ OnlyAt(w, one, one)
    BY <1>2, <2>2 DEF OnlyAt
  <2> HIDE DEF one
  <2>4. SumTo(w, one) = w[one]
    BY <2>3, SumSingle
  <2>5. QED BY <1>1, <1>2, <2>2, <2>4 DEF one
<1>4. CASE query.group_by # <<>>
  <2> DEFINE c == Cardinality(FirstSeen)
             f == InOrder(FirstSeen)
             n == Len(rows)
             a == Weights(item, rows)
             h == [j \in 1 .. n |-> CHOOSE g \in 1 .. c : j \in SameGroup(f[g])]
             Part(g) == [j \in 1 .. n |-> IF h[j] = g THEN a[j] ELSE 0]
  <2>1. /\ c \in Nat /\ DOMAIN GroupsOf = 1 .. c /\ Len(GroupsOf) = c
        /\ \A g \in 1 .. c : GroupsOf[g] = Picked(rows, SameGroup(f[g]))
    <3>1. GroupsOf = [g \in 1 .. c |-> Picked(rows, SameGroup(f[g]))]
      BY <1>4 DEF GroupsOf
    <3>2. c \in Nat
      BY PlacesOfGroups
    <3> HIDE DEF c, f
    <3>3. DOMAIN GroupsOf = 1 .. c
      BY <3>1
    <3>4. Len(GroupsOf) = c
      <4> DEFINE l == Len(GroupsOf)
      <4>1. l \in Nat /\ 1 .. l = 1 .. c
        BY <1>1, <3>3
      <4> HIDE DEF l
      <4>2. Cardinality(1 .. l) = l /\ Cardinality(1 .. c) = c
        BY <3>2, <4>1, FS_Interval
      <4>3. QED BY <4>1, <4>2 DEF l
    <3>5. QED BY <3>1, <3>2, <3>3, <3>4
  <2>2. n \in Nat /\ DOMAIN rows = 1 .. n /\ \A i : SameGroup(i) \in SUBSET (1 .. n)
    BY PlacesOfGroups
  <2>3. /\ \A g, k \in 1 .. c : GroupKey(rows[f[g]]) = GroupKey(rows[f[k]]) => g = k
        /\ \A j \in DOMAIN rows : \E g \in 1 .. c : j \in SameGroup(f[g])
    BY <1>4, GroupHeads
  <2>4. \A i, j : j \in SameGroup(i) => GroupKey(rows[j]) = GroupKey(rows[i])
    BY DEF SameGroup
  <2>5. a \in [1 .. n -> Int]
    BY WeightsType
  <2> HIDE DEF c, f, n
  <2>6. \A j \in 1 .. n : h[j] \in 1 .. c /\ j \in SameGroup(f[h[j]])
    <3>1. SUFFICES ASSUME NEW j \in 1 .. n
                   PROVE  h[j] \in 1 .. c /\ j \in SameGroup(f[h[j]])
      OBVIOUS
    <3>2. \E g \in 1 .. c : j \in SameGroup(f[g])
      BY <2>2, <2>3
    <3>3. h[j] = CHOOSE g \in 1 .. c : j \in SameGroup(f[g])
      OBVIOUS
    <3> HIDE DEF h
    <3>4. QED BY <3>2, <3>3
  <2>7. \A j \in 1 .. n, g \in 1 .. c : h[j] = g <=> j \in SameGroup(f[g])
    <3> HIDE DEF h
    <3>1. QED BY <2>3, <2>4, <2>6
  <2>8. h \in [1 .. n -> 0 .. c]
    <3>1. h = [j \in 1 .. n |-> h[j]]
      OBVIOUS
    <3> HIDE DEF h
    <3>2. \A j \in 1 .. n : h[j] \in 0 .. c
      BY <2>1, <2>6
    <3>3. QED BY <3>1, <3>2
  <2>9. \A j \in 1 .. n : h[j] = 0 => a[j] = 0
    <3> HIDE DEF h
    <3>1. QED BY <2>1, <2>6
  <2> HIDE DEF h, a
  <2>10. ASSUME NEW g \in 1 .. c PROVE w[g] = SumTo(Part(g), n)
    <3> DEFINE P == SameGroup(f[g])
               group == GroupsOf[g]
               part == Part(g)
               b == [k \in 1 .. Cardinality(P) |-> part[InOrder(P)[k]]]
    <3>1. P \in SUBSET (1 .. n) /\ \A j \in 1 .. n : h[j] = g <=> j \in P
      BY <2>2, <2>7
    <3>2. group = Picked(rows, P) /\ w[g] = Weighed(item, group)
      BY <2>1
    <3>3. group \in Seq(CombinedRow)
      BY <1>1, <2>1
    <3>4. \A j \in 1 .. n : a[j] = Weight(item, rows[j])
      BY DEF a, Weights, n
    <3>5. part \in [1 .. n -> Int] /\ \A j \in 1 .. n : part[j] = IF j \in P THEN a[j] ELSE 0
      BY <2>5, <3>1
    <3> HIDE DEF P, group, part
    <3>6. Len(group) = Cardinality(P)
      BY <2>2, <3>1, <3>2, PickedRows
    <3>7. \A k \in 1 .. Cardinality(P) : InOrder(P)[k] \in P /\ InOrder(P)[k] \in 1 .. n
      BY <2>2, <3>1, InOrderLists, ZenonT(40) DEF Lists
    <3>8. \A k \in 1 .. Cardinality(P) : group[k] = rows[InOrder(P)[k]]
      BY <3>2 DEF Picked
    <3>9. Weights(item, group) = b
      <4>1. \A k \in 1 .. Cardinality(P) : b[k] = Weight(item, group[k])
        BY <3>4, <3>5, <3>7, <3>8
      <4>2. QED BY <3>6, <4>1 DEF Weights
    <3>10. SumTo(b, Cardinality(P)) = SumTo(part, n)
      <4> HIDE DEF b
      <4>1. b = [k \in 1 .. Cardinality(P) |-> part[InOrder(P)[k]]]
        BY DEF b
      <4>2. \A j \in 1 .. n : j \notin P => part[j] = 0
        BY <3>5
      <4>3. QED BY <2>2, <3>1, <3>5, <4>1, <4>2, SumPicked
    <3>11. QED
      BY <3>2, <3>6, <3>9, <3>10 DEF Weighed, part
  <2>11. SumTo(w, c) = SumTo(a, n)
    <3>1. w \in [1 .. c -> Int]
      BY <1>2, <2>1
    <3>2. QED BY <2>1, <2>2, <2>5, <2>8, <2>9, <2>10, <3>1, SumParts
  <2>12. QED
    BY <1>1, <1>2, <2>1, <2>11 DEF Weighed, a, n
<1>5. QED
  BY <1>3, <1>4

(* What the cells of a column add up to, when no group was left out.       *)
Totals(q, table, out) ==
    \A n \in DOMAIN q.columns :
        LET item == q.columns[n]
            cells == [i \in DOMAIN out |-> out[i][n]]
        IN  /\ item.ref = StarArg => Total(cells) = Len(table)
            /\ item.agg = "COUNT" /\ item.ref # StarArg =>
                   Total(cells) = Len(Values(item.ref, table))
            /\ item.agg \in {"SUM", "AVG"} => Total(cells) = Total(Values(item.ref, table))

LEMMA RowsWeigh ==
  ASSUME rows \in Seq(CombinedRow), NEW item,
         item.ref = StarArg => item.agg = "COUNT"
  PROVE  /\ item.ref = StarArg => Len(rows) = Weighed(item, rows)
         /\ item.agg = "COUNT" /\ item.ref # StarArg =>
                Len(Values(item.ref, rows)) = Weighed(item, rows)
         /\ item.agg \in {"SUM", "AVG"} => Total(Values(item.ref, rows)) = Weighed(item, rows)
<1>1. ASSUME item.ref = StarArg PROVE Len(rows) = Weighed(item, rows)
  <2> DEFINE n == Len(rows)
             w == Weights(item, rows)
  <2>1. n \in Nat /\ w \in [1 .. n -> Int]
    BY WeightsType
  <2>2. \A i \in 1 .. n : w[i] = 1
    BY <1>1 DEF Weights, Weight
  <2> HIDE DEF n, w
  <2>3. SumTo(w, n) = n
    BY <2>1, <2>2, SumOnes
  <2>4. QED BY <2>3 DEF Weighed, w, n
<1>2. ASSUME item.ref # StarArg
      PROVE  /\ item.agg = "COUNT" => Len(Values(item.ref, rows)) = Weighed(item, rows)
             /\ item.agg # "COUNT" => Total(Values(item.ref, rows)) = Weighed(item, rows)
  BY <1>2, ValuesWeigh
<1>3. item.agg \in {"SUM", "AVG"} => item.agg # "COUNT" /\ item.ref # StarArg
  OBVIOUS
<1>4. QED
  BY <1>1, <1>2, <1>3

LEMMA ComputeTotals ==
  ASSUME GroupsInv, Compute, query.having = NoHaving, query.limit = NoLimit
  PROVE  Totals(query, rows, answer'[2])
<1> DEFINE P == {g \in DOMAIN groups : eval_having(query.having, groups[g]) = "yes"}
           cells == [i \in DOMAIN Kept |-> Cells(Kept[i])]
           m == Len(groups)
<1>1. groups \in Seq(Seq(CombinedRow)) /\ m \in Nat
      /\ DOMAIN groups = 1 .. m /\ \A g \in 1 .. m : groups[g] \in Seq(CombinedRow)
  <2>1. groups \in Seq(Seq(CombinedRow))
    BY DEF GroupsInv, TypeInv
  <2>2. QED BY <2>1, ListPlaces
<1>2. P = DOMAIN groups
  BY DEF eval_having
<1>3. Kept = Picked(groups, P)
  BY DEF Kept
<1> HIDE DEF P
<1>4. Kept = groups
  BY <1>1, <1>2, <1>3, PickedAll
<1>5. PICK out \in SortedBy(cells, CompareCells) : answer' = Shown(Truncated(out, query.limit))
  BY DEF Compute
<1>6. answer'[2] = out
  BY <1>5 DEF Truncated, Shown
<1>7. PICK p \in SetToSeqs(DOMAIN cells) : out = [i \in DOMAIN cells |-> cells[p[i]]]
  BY <1>5 DEF SortedBy
<1>8. DOMAIN cells = 1 .. m /\ \A g \in 1 .. m : cells[g] = Cells(groups[g])
  BY <1>1, <1>4
<1>9. groups = GroupsOf /\ rows \in Seq(CombinedRow)
  BY DEF Compute, GroupsInv, TypeInv
<1>10. \A g \in 1 .. m : Failed \notin Range(Cells(groups[g]))
  BY <1>1, <1>4 DEF Compute, Computable
<1> HIDE DEF cells, m
<1>11. /\ p \in [1 .. m -> 1 .. m]
       /\ \A i, j \in 1 .. m : i # j => p[i] # p[j]
       /\ \A j \in 1 .. m : \E i \in 1 .. m : p[i] = j
  BY <1>1, <1>7, <1>8, PermutesAll, ZenonT(40)
<1>12. DOMAIN out = 1 .. m /\ \A i \in 1 .. m : out[i] = Cells(groups[p[i]])
  BY <1>7, <1>8, <1>11
<1>13. ASSUME NEW n \in DOMAIN query.columns,
              query.columns[n].agg \in {"COUNT", "SUM", "AVG"}
       PROVE  Total([i \in DOMAIN out |-> out[i][n]]) = Weighed(query.columns[n], rows)
  <2> DEFINE item == query.columns[n]
             w == [g \in DOMAIN GroupsOf |-> Weighed(item, GroupsOf[g])]
             column == [i \in DOMAIN out |-> out[i][n]]
             b == [i \in 1 .. m |-> column[i][2]]
  <2>1. item.ref = StarArg => item.agg = "COUNT"
    BY DEF GroupsInv, TypeInv, Statement
  <2>2. \A g \in 1 .. m : Cells(groups[g])[n] = compute_aggregate(item, groups[g])
    BY <1>13 DEF Cells, CellOf
  <2>3. \A g \in 1 .. m : compute_aggregate(item, groups[g]) # Failed
    <3>1. \A g \in 1 .. m : Cells(groups[g])[n] \in Range(Cells(groups[g]))
      BY DEF Cells, Range
    <3>2. QED BY <1>10, <2>2, <3>1
  <2>4. \A g \in 1 .. m : compute_aggregate(item, groups[g])[2] = Weighed(item, groups[g])
    <3> HIDE DEF item
    <3>1. item.agg \in {"COUNT", "SUM", "AVG"}
      BY <1>13 DEF item
    <3>2. QED BY <1>1, <2>1, <2>3, <3>1, CellWeighs
  <2>5. w \in [1 .. m -> Int] /\ SumTo(w, m) = Weighed(item, rows)
    <3> HIDE DEF item, w
    <3>1. Len(GroupsOf) = m
      BY <1>9 DEF m
    <3>2. w = [g \in DOMAIN GroupsOf |-> Weighed(item, GroupsOf[g])]
      BY DEF w
    <3>3. QED BY <1>9, <3>1, <3>2, GroupsWeigh
  <2>6. \A g \in 1 .. m : w[g] = Weighed(item, groups[g])
    BY <1>1, <1>9
  <2>7. \A i \in 1 .. m : column[i] = compute_aggregate(item, groups[p[i]])
    BY <1>11, <1>12, <2>2
  <2>8. DOMAIN column = 1 .. m
    BY <1>12
  <2> HIDE DEF column, item, w
  <2>9. \A i \in 1 .. m : column[i][2] = w[p[i]] /\ w[p[i]] \in Int
    BY <1>11, <2>4, <2>5, <2>6, <2>7, SMTT(30)
  <2>10. Total(column) = SumTo(b, m)
    <3> HIDE DEF m
    <3>1. m \in Nat
      BY <1>1
    <3>2. QED BY <2>8, <2>9, <3>1, TotalIs
  <2>11. b = [i \in 1 .. m |-> w[p[i]]]
    BY <2>9
  <2>12. Renames(p, m, m, w)
    BY <1>11 DEF Renames
  <2>13. SumTo(b, m) = SumTo(w, m)
    <3> HIDE DEF b
    <3>1. SumTo([i \in 1 .. m |-> w[p[i]]], m) = SumTo(w, m)
      BY <1>1, <2>5, <2>12, SumRenamed
    <3>2. QED BY <2>11, <3>1
  <2>14. QED BY <2>5, <2>10, <2>13 DEF item, column
<1>14. ASSUME NEW n \in DOMAIN query.columns
       PROVE  LET item == query.columns[n]
                  shown == [i \in DOMAIN out |-> out[i][n]]
              IN  /\ item.ref = StarArg => Total(shown) = Len(rows)
                  /\ item.agg = "COUNT" /\ item.ref # StarArg =>
                         Total(shown) = Len(Values(item.ref, rows))
                  /\ item.agg \in {"SUM", "AVG"} => Total(shown) = Total(Values(item.ref, rows))
  <2> DEFINE item == query.columns[n]
             shown == [i \in DOMAIN out |-> out[i][n]]
  <2>1. item.ref = StarArg => item.agg = "COUNT"
    BY DEF GroupsInv, TypeInv, Statement
  <2>2. item.agg \in {"COUNT", "SUM", "AVG"} => Total(shown) = Weighed(item, rows)
    BY <1>13
  <2> HIDE DEF item, shown
  <2>3. QED BY <1>9, <2>1, <2>2, RowsWeigh DEF item, shown
<1>15. QED
  BY <1>6, <1>14 DEF Totals

(* Grouped statements show their answer through Compute only.              *)
TotalsInv == GroupsInv /\ TotalsAgree /\ (Grouping(query) => stage \notin {"order", "project"})

LEMMA TotalsKept == TotalsInv /\ [Next]_vars => TotalsInv'
<1> SUFFICES ASSUME TotalsInv, [Next]_vars PROVE TotalsInv'
  OBVIOUS
<1>1. GroupsInv'
  BY GroupsKept DEF TotalsInv
<1>2. ASSUME Grouping(query') PROVE stage' \notin {"order", "project"}
  <2>1. CASE \/ \E q \in Queries : Ask(q) \/ Explain(q)
             \/ Scan \/ Join \/ Group \/ Ending \/ UNCHANGED vars
    <3>1. CASE \E q \in Queries : Ask(q)
      BY <3>1 DEF Ask
    <3>2. CASE \E q \in Queries : Explain(q)
      BY <3>2 DEF Explain
    <3>3. CASE Scan \/ Join \/ Group
      BY <3>3 DEF Scan, Join, Group
    <3>4. CASE Ending
      BY <3>4, EndingIs
    <3>5. CASE UNCHANGED vars
      BY <1>2, <3>5 DEF vars, TotalsInv
    <3>6. QED BY <2>1, <3>1, <3>2, <3>3, <3>4, <3>5
  <2>2. CASE Filter
    BY <1>2, <2>2 DEF Filter
  <2>3. CASE Order
    BY <1>2, <2>3 DEF Order, TotalsInv
  <2>4. QED BY <2>1, <2>2, <2>3 DEF Next, Ending
<1>3. TotalsAgree'
  <2>1. CASE Compute
    <3>1. query' = query /\ rows' = rows
      BY <2>1 DEF Compute
    <3>2. query.having = NoHaving /\ query.limit = NoLimit => Totals(query, rows, answer'[2])
      BY <2>1, ComputeTotals DEF TotalsInv
    <3>3. QED BY <3>1, <3>2 DEF TotalsAgree, Totals
  <2>2. CASE Project
    <3>1. ~Grouping(query) /\ query' = query
      BY <2>2 DEF Project, TotalsInv
    <3>2. QED BY <3>1 DEF TotalsAgree
  <2>3. CASE NoSuchTable \/ AggregateUngrouped \/ SortPanics \/ Invalid \/ NotComputable
    <3>1. answer' = Refused
      BY <2>3 DEF NoSuchTable, AggregateUngrouped, SortPanics, Invalid, NotComputable, Refuse
    <3>2. QED BY <3>1 DEF TotalsAgree, Answered, Refused
  <2>4. CASE \E q \in Queries : Explain(q)
    <3>1. answer' = exec_explain(query')
      BY <2>4 DEF Explain
    <3>2. Refused[1] # "rows" /\ \A lines : Plan(lines)[1] # "rows"
      BY DEF Plan, Refused
    <3>3. answer'[1] # "rows"
      BY <3>1, <3>2 DEF exec_explain
    <3>4. QED BY <3>3 DEF TotalsAgree, Answered
  <2>5. CASE (\E q \in Queries : Ask(q)) \/ Scan \/ Join \/ Filter \/ Order \/ Group
    <3>1. stage' # "done"
      BY <2>5 DEF Ask, Scan, Join, Filter, Order, Group
    <3>2. QED BY <3>1 DEF TotalsAgree, Answered
  <2>6. CASE UNCHANGED vars
    <3>1. Totals(query, rows, answer[2])' <=> Totals(query, rows, answer[2])
      BY <2>6 DEF vars
    <3>2. QED BY <2>6, <3>1 DEF vars, TotalsInv, TotalsAgree, Answered, Totals
  <2>7. QED BY <2>1, <2>2, <2>3, <2>4, <2>5, <2>6 DEF Next
<1>4. QED
  BY <1>1, <1>2, <1>3 DEF TotalsInv

(* Over the groups shown, COUNT and SUM add up to those of all rows,       *)
(* however many there are, however they are grouped and wherever 64 bits   *)
(* end (compute_aggregate, executor/mod.rs:1318).                          *)
THEOREM TotalsAddUp == Spec => []TotalsAgree
<1>1. Init => TotalsInv
  BY InitTypes DEF Init, GroupsInv, TotalsInv, TotalsAgree, Answered, Unanswered
<1>2. Spec => []TotalsInv
  BY <1>1, TotalsKept, PTL DEF Spec
<1>3. TotalsInv => TotalsAgree
  BY DEF TotalsInv
<1>4. QED
  BY <1>2, <1>3, PTL

----------------------------------------------------------------------------
(* HAVING.                                                                 *)

Subconditions(h) == /\ h.kind \in {"cmp", "and", "or"}
                    /\ HavingDepth[h] \in Nat
                    /\ h.kind # "cmp" => /\ h.left \in Havings /\ h.right \in Havings
                                         /\ HavingDepth[h.left] < HavingDepth[h]
                                         /\ HavingDepth[h.right] < HavingDepth[h]

LEMMA HavingCompares ==
  ASSUME NEW group, NEW having \in Havings, having.kind = "cmp"
  PROVE  eval_having(having, group) = eval_comparison(having, group)
<1> DEFINE V == {"yes", "no", "failed"}
           Body(v, h) == IF h.kind = "cmp" THEN eval_comparison(h, group)
                         ELSE IF h.kind = "and"
                              THEN IF v[h.left] = "yes" THEN v[h.right] ELSE v[h.left]
                              ELSE IF v[h.left] = "no" THEN v[h.right] ELSE v[h.left]
           step == [p \in Havings \X [Havings -> V] |-> Body(p[2], p[1])]
           rank == [h \in Havings |-> HavingDepth[h]]
           H == CHOOSE v : v = [h \in Havings |-> Body(v, h)]
<1>1. \A h \in Havings : Subconditions(h)
  BY HavingAssumption DEF Subconditions
<1>2. \A h : eval_comparison(h, group) \in V
  BY DEF eval_comparison
<1>3. rank \in [Havings -> Nat]
  BY <1>1 DEF Subconditions
<1>4. ASSUME NEW v \in [Havings -> V], NEW h \in Havings PROVE Body(v, h) \in V
  <2> HIDE DEF V
  <2>1. CASE h.kind = "cmp"
    BY <1>2, <2>1
  <2>2. CASE h.kind # "cmp"
    <3>1. v[h.left] \in V /\ v[h.right] \in V /\ (h.kind = "and" \/ h.kind = "or")
      BY <1>1, <2>2 DEF Subconditions
    <3>2. QED BY <2>2, <3>1
  <2>3. QED BY <2>1, <2>2
<1>5. step \in [Havings \X [Havings -> V] -> V]
  <2> HIDE DEF Body, V
  <2>1. QED BY <1>4
<1>6. ASSUME NEW h \in Havings, NEW f \in [Havings -> V], NEW g \in [Havings -> V],
             \A k \in Havings : rank[k] < rank[h] => f[k] = g[k]
      PROVE  step[<<h, f>>] = step[<<h, g>>]
  <2> HIDE DEF V
  <2>1. h.kind # "cmp" => f[h.left] = g[h.left] /\ f[h.right] = g[h.right]
    BY <1>1, <1>6 DEF Subconditions
  <2>2. Body(f, h) = Body(g, h)
    <3>1. CASE h.kind = "cmp"
      BY <3>1
    <3>2. CASE h.kind # "cmp"
      BY <1>1, <2>1, <3>2 DEF Subconditions
    <3>3. QED BY <3>1, <3>2
  <2> HIDE DEF Body
  <2>3. QED BY <2>2
<1>7. Recursive(Havings, V, rank, step) /\ V # {}
  <2> HIDE DEF step, rank
  <2>1. QED BY <1>3, <1>5, <1>6 DEF Recursive
<1>8. PICK f \in [Havings -> V] : \A h \in Havings : f[h] = step[<<h, f>>]
  <2> HIDE DEF step, rank, V
  <2>1. QED BY <1>7, Recursion
<1>9. f = [h \in Havings |-> Body(f, h)]
  <2>1. \A h \in Havings : f[h] = Body(f, h)
    <3> HIDE DEF Body, V
    <3>1. QED BY <1>8
  <2> HIDE DEF Body, V
  <2>2. QED BY <2>1
<1>10. H = [h \in Havings |-> Body(H, h)]
  <2> HIDE DEF Body
  <2>1. QED BY <1>9, Zenon
<1>11. having # NoHaving
  BY DEF NoHaving
<1>12. eval_having(having, group) = H[having]
  <2>1. eval_having(having, group) = IF having = NoHaving THEN "yes" ELSE H[having]
    BY Zenon DEF eval_having
  <2> HIDE DEF H
  <2>2. QED BY <1>11, <2>1
<1>13. H[having] = Body(H, having)
  <2> HIDE DEF Body, H
  <2>1. QED BY <1>10
<1> HIDE DEF H
<1>14. H[having] = eval_comparison(having, group)
  BY <1>13
<1>15. QED
  BY <1>12, <1>14

(* Integers that floats tell apart compare as what they are.               *)
LEMMA NumbersCompare ==
  ASSUME NEW a, NEW b, a[1] = "int", b[1] = "int",
         a[2] \in -Exact .. Exact, b[2] \in -Exact .. Exact, NEW op
  PROVE  cmp_matches(a, op, b) <=> Ordered(op, a[2], b[2])
<1>1. a # Null /\ b # Null
  BY DEF Null
<1>2. as_f64(a[2]) = a[2] /\ as_f64(b[2]) = b[2] /\ a[2] \in Int /\ b[2] \in Int
  <2>1. \A n \in -Exact .. Exact : as_f64(n) = n
    BY Zenon DEF as_f64
  <2>2. \A n \in -Exact .. Exact : n \in Int
    OBVIOUS
  <2>3. QED BY <2>1, <2>2
<1>3. Ratio(a) = [num |-> a[2], den |-> 1] /\ Ratio(b) = [num |-> b[2], den |-> 1]
  BY <1>2 DEF Ratio
<1>4. compare_cells(a, b) = Sign(a[2] * 1, b[2] * 1)
  <2>1. compare_cells(a, b) = Sign(Ratio(a).num * Ratio(b).den, Ratio(b).num * Ratio(a).den)
    BY <1>1 DEF compare_cells
  <2>2. QED BY <1>3, <2>1
<1>5. compare_cells(a, b) = Sign(a[2], b[2])
  BY <1>2, <1>4
<1>6. Ordered(op, Sign(a[2], b[2]), 0) <=> Ordered(op, a[2], b[2])
  BY <1>2 DEF Ordered, Sign
<1>7. QED
  BY <1>1, <1>5, <1>6 DEF cmp_matches

NumberOf(h, g) == IF h.item.ref = StarArg THEN Len(g)
                  ELSE IF h.item.agg = "COUNT" THEN Len(Values(h.item.ref, g))
                  ELSE Total(Values(h.item.ref, g))
HoldsOf(h, g) == /\ h.item.agg = "SUM" => Values(h.item.ref, g) # <<>>
                 /\ Ordered(h.op, NumberOf(h, g), h.value[2])
WithinFloats(h) == /\ h.kind = "cmp" /\ h.item.agg \in {"COUNT", "SUM"}
             /\ h.value[1] = "int" /\ h.value[2] \in -Exact .. Exact

LEMMA HavingHolds ==
  ASSUME NEW group \in Seq(CombinedRow), NEW h \in Havings, WithinFloats(h),
         NumberOf(h, group) \in -Exact .. Exact, eval_having(h, group) # "failed"
  PROVE  eval_having(h, group) = "yes" <=> HoldsOf(h, group)
<1> DEFINE lhs == compute_aggregate(h.item, group)
           values == Values(h.item.ref, group)
<1>1. /\ h.kind = "cmp" /\ h.item.agg \in {"COUNT", "SUM"}
      /\ h.value[1] = "int" /\ h.value[2] \in -Exact .. Exact
      /\ h.item.ref = StarArg => h.item.agg = "COUNT"
  BY HavingAssumption DEF WithinFloats
<1>2. /\ lhs # Failed
      /\ eval_having(h, group) = "yes" <=> cmp_matches(lhs, h.op, h.value)
  <2> HIDE DEF lhs
  <2>1. eval_having(h, group) = IF lhs = Failed THEN "failed"
                                ELSE IF cmp_matches(lhs, h.op, h.value) THEN "yes" ELSE "no"
    BY <1>1, HavingCompares DEF eval_comparison, lhs
  <2>2. QED BY <2>1
<1>3. CASE lhs = <<"int", NumberOf(h, group)>> /\ (h.item.agg = "SUM" => values # <<>>)
  <2>1. lhs[1] = "int" /\ lhs[2] = NumberOf(h, group)
    BY <1>3
  <2> HIDE DEF lhs
  <2>2. cmp_matches(lhs, h.op, h.value) <=> Ordered(h.op, NumberOf(h, group), h.value[2])
    BY <1>1, <2>1, NumbersCompare
  <2>3. QED BY <1>2, <1>3, <2>2 DEF HoldsOf
<1>4. CASE h.item.ref = StarArg
  <2>1. lhs = <<"int", NumberOf(h, group)>>
    BY <1>4 DEF compute_aggregate, NumberOf
  <2>2. QED BY <1>1, <1>3, <1>4, <2>1
<1>5. CASE h.item.ref # StarArg /\ h.item.agg = "COUNT"
  <2>1. lhs = <<"int", NumberOf(h, group)>>
    BY <1>5 DEF compute_aggregate, NumberOf
  <2>2. QED BY <1>3, <1>5, <2>1
<1>6. CASE h.item.ref # StarArg /\ h.item.agg = "SUM"
  <2> DEFINE item == h.item
  <2>1. lhs = IF values = <<>> THEN Null ELSE <<"int", Total(values)>>
    <3> HIDE DEF values, item
    <3>1. item.ref # StarArg /\ item.agg = "SUM" /\ values = Values(item.ref, group)
          /\ compute_aggregate(item, group) # Failed
      BY <1>2, <1>6 DEF values, item
    <3>2. compute_aggregate(item, group) = IF values = <<>> THEN Null ELSE <<"int", Total(values)>>
      BY <3>1, SumCell
    <3>3. QED BY <3>2 DEF item
  <2>2. CASE values # <<>>
    BY <1>3, <1>6, <2>1, <2>2 DEF NumberOf
  <2>3. CASE values = <<>>
    <3>1. ~cmp_matches(lhs, h.op, h.value)
      BY <2>1, <2>3 DEF cmp_matches
    <3>2. ~HoldsOf(h, group)
      BY <1>6, <2>3 DEF HoldsOf
    <3>3. QED BY <1>2, <3>1, <3>2
  <2>4. QED BY <2>2, <2>3
<1>7. QED
  BY <1>1, <1>4, <1>5, <1>6

(* A HAVING over numbers shows the groups it holds of.                     *)
LEMMA ComputeHaving ==
  ASSUME TypeInv, Compute, query.limit = NoLimit, WithinFloats(query.having),
         \A g \in DOMAIN groups : NumberOf(query.having, groups[g]) \in -Exact .. Exact
  PROVE  Len(answer'[2]) = Cardinality({g \in DOMAIN groups : HoldsOf(query.having, groups[g])})
<1> DEFINE P == {g \in DOMAIN groups : eval_having(query.having, groups[g]) = "yes"}
           cells == [i \in DOMAIN Kept |-> Cells(Kept[i])]
           m == Cardinality(P)
<1>1. groups \in Seq(Seq(CombinedRow)) /\ Len(groups) \in Nat
      /\ DOMAIN groups = 1 .. Len(groups) /\ \A g \in DOMAIN groups : groups[g] \in Seq(CombinedRow)
  <2>1. groups \in Seq(Seq(CombinedRow))
    BY DEF TypeInv
  <2>2. QED BY <2>1, ListPlaces
<1>2. query.having \in Havings
  BY DEF TypeInv, Statement, WithinFloats, NoHaving
<1>3. \A g \in DOMAIN groups : eval_having(query.having, groups[g]) # "failed"
  BY DEF Compute, Computable
<1>4. \A g \in DOMAIN groups : eval_having(query.having, groups[g]) = "yes"
                                   <=> HoldsOf(query.having, groups[g])
  BY <1>1, <1>2, <1>3, HavingHolds
<1>5. P = {g \in DOMAIN groups : HoldsOf(query.having, groups[g])}
  BY <1>4
<1>6. Kept = Picked(groups, P) /\ P \subseteq DOMAIN groups
  BY DEF Kept
<1> HIDE DEF P
<1>7. DOMAIN Kept = 1 .. m /\ m \in Nat
  <2>1. P \in SUBSET (1 .. Len(groups))
    BY <1>1, <1>6
  <2>2. m \in Nat
    BY <1>1, <2>1, PlacesFinite
  <2>3. QED BY <1>6, <2>2 DEF Picked
<1>8. PICK out \in SortedBy(cells, CompareCells) : answer' = Shown(Truncated(out, query.limit))
  BY DEF Compute
<1>9. answer'[2] = out
  BY <1>8 DEF Truncated, Shown
<1>10. \E p : out = [i \in DOMAIN cells |-> cells[p[i]]]
  BY <1>8 DEF SortedBy
<1>11. DOMAIN cells = 1 .. m
  BY <1>7
<1> HIDE DEF cells, m
<1>12. Len(out) = m
  BY <1>7, <1>10, <1>11
<1>13. QED
  BY <1>5, <1>9, <1>12 DEF m

HavingInv == TotalsInv /\ HavingNumeric

LEMMA HavingKept == HavingInv /\ [Next]_vars => HavingInv'
<1> SUFFICES ASSUME HavingInv, [Next]_vars PROVE HavingInv'
  OBVIOUS
<1>1. TotalsInv' /\ TypeInv
  BY TotalsKept DEF HavingInv, TotalsInv, GroupsInv
<1>2. HavingNumeric'
  <2>1. CASE Compute
    <3>1. query' = query /\ rows' = rows /\ groups' = groups
      BY <2>1 DEF Compute
    <3>2. SUFFICES ASSUME query.limit = NoLimit, WithinFloats(query.having),
                          \A g \in Range(groups) : NumberOf(query.having, g) \in -Exact .. Exact
                   PROVE  Len(answer'[2]) = Cardinality({g \in DOMAIN groups :
                                                HoldsOf(query.having, groups[g])})
      BY <3>1 DEF HavingNumeric, WithinFloats, NumberOf, HoldsOf
    <3>3. \A g \in DOMAIN groups : groups[g] \in Range(groups)
      BY DEF Range
    <3>4. QED BY <1>1, <2>1, <3>2, <3>3, ComputeHaving
  <2>2. CASE Project
    <3>1. query.having = NoHaving /\ query' = query
      BY <2>2 DEF Project, HavingInv, TotalsInv, Grouping
    <3>2. QED BY <3>1 DEF HavingNumeric, NoHaving
  <2>3. CASE NoSuchTable \/ AggregateUngrouped \/ SortPanics \/ Invalid \/ NotComputable
    <3>1. answer' = Refused
      BY <2>3 DEF NoSuchTable, AggregateUngrouped, SortPanics, Invalid, NotComputable, Refuse
    <3>2. QED BY <3>1 DEF HavingNumeric, Answered, Refused
  <2>4. CASE \E q \in Queries : Explain(q)
    <3>1. answer' = exec_explain(query')
      BY <2>4 DEF Explain
    <3>2. Refused[1] # "rows" /\ \A lines : Plan(lines)[1] # "rows"
      BY DEF Plan, Refused
    <3>3. answer'[1] # "rows"
      BY <3>1, <3>2 DEF exec_explain
    <3>4. QED BY <3>3 DEF HavingNumeric, Answered
  <2>5. CASE (\E q \in Queries : Ask(q)) \/ Scan \/ Join \/ Filter \/ Order \/ Group
    <3>1. stage' # "done"
      BY <2>5 DEF Ask, Scan, Join, Filter, Order, Group
    <3>2. QED BY <3>1 DEF HavingNumeric, Answered
  <2>6. CASE UNCHANGED vars
    BY <2>6 DEF vars, HavingInv, HavingNumeric, Answered
  <2>7. QED BY <2>1, <2>2, <2>3, <2>4, <2>5, <2>6 DEF Next
<1>3. QED
  BY <1>1, <1>2 DEF HavingInv

(* However many rows and groups there are: HAVING keeps exactly the groups *)
(* whose COUNT or SUM satisfies it as a number, up to the integers a float *)
(* can tell apart (eval_having, executor/mod.rs:1144).                     *)
THEOREM HavingKeeps == Spec => []HavingNumeric
<1>1. Init => HavingInv
  BY InitTypes DEF Init, GroupsInv, TotalsInv, TotalsAgree, HavingInv, HavingNumeric,
                   Answered, Unanswered
<1>2. Spec => []HavingInv
  BY <1>1, HavingKept, PTL DEF Spec
<1>3. HavingInv => HavingNumeric
  BY DEF HavingInv
<1>4. QED
  BY <1>2, <1>3, PTL
=============================================================================
