------------------------------- MODULE Ranks -------------------------------
(***************************************************************************)
(* Elements with a rank, a natural number: there is a least one among any, *)
(* and a function may be defined by recursion on it.  The WHERE clause     *)
(* uses this for expressions, by depth, the keys of an index for the       *)
(* places of a number, HAVING for conditions, and the lexer and the parser *)
(* for places in a text and among its tokens.                              *)
(***************************************************************************)
EXTENDS Naturals, WellFoundedInduction, TLAPS

LEMMA LeastNat ==
  ASSUME NEW T \in SUBSET Nat, T # {}
  PROVE  \E x \in T : \A y \in T : x <= y
<1>1. PICK x \in T : \A y \in T : <<y, x>> \notin OpToRel(<, Nat)
  BY NatLessThanWellFounded, WFMin, Zenon
<1>2. \A y \in T : ~(y < x)
  BY <1>1 DEF OpToRel
<1>3. QED
  BY <1>2

LEMMA LeastRank ==
  ASSUME NEW S, NEW rank \in [S -> Nat], NEW T \in SUBSET S, T # {}
  PROVE  \E x \in T : \A y \in T : rank[x] <= rank[y]
<1> DEFINE ranks == {rank[x] : x \in T}
<1>1. ranks \in SUBSET Nat /\ ranks # {}
  OBVIOUS
<1> HIDE DEF ranks
<1>2. PICK m \in ranks : \A k \in ranks : m <= k
  BY <1>1, LeastNat
<1>3. QED
  BY <1>2 DEF ranks

(* step computes a value of x from the values of the elements below x.     *)
Recursive(S, V, rank, step) ==
    /\ rank \in [S -> Nat]
    /\ step \in [S \X [S -> V] -> V]
    /\ \A x \in S, f \in [S -> V], g \in [S -> V] :
           (\A y \in S : rank[y] < rank[x] => f[y] = g[y])
               => step[<<x, f>>] = step[<<x, g>>]

(* Then it defines a function.                                             *)
LEMMA Recursion ==
  ASSUME NEW S, NEW V, NEW rank, NEW step, Recursive(S, V, rank, step), V # {}
  PROVE  \E f \in [S -> V] : \A x \in S : f[x] = step[<<x, f>>]
<1> USE DEF Recursive
<1> DEFINE Good(n, g) == \A x \in S : rank[x] < n => g[x] = step[<<x, g>>]
<1>0. \A x \in S : rank[x] \in Nat
  OBVIOUS
<1>1. ASSUME NEW n \in Nat, NEW g \in [S -> V], NEW h \in [S -> V], Good(n, g), Good(n, h),
             NEW x \in S, rank[x] < n
      PROVE  g[x] = h[x]
  <2> DEFINE Differ == {y \in S : rank[y] < n /\ g[y] # h[y]}
  <2>1. SUFFICES ASSUME Differ # {} PROVE FALSE
    BY <1>1
  <2>2. PICK y \in Differ : \A z \in Differ : rank[y] <= rank[z]
    <3>1. Differ \in SUBSET S
      OBVIOUS
    <3> HIDE DEF Differ
    <3>2. QED BY <2>1, <3>1, LeastRank
  <2>3. y \in S /\ rank[y] < n /\ g[y] # h[y]
    OBVIOUS
  <2>4. ASSUME NEW z \in S, rank[z] < rank[y] PROVE g[z] = h[z]
    <3>1. z \notin Differ
      BY <1>0, <2>2, <2>3, <2>4
    <3>2. rank[z] < n
      BY <1>0, <2>3, <2>4
    <3>3. QED
      BY <3>1, <3>2
  <2>5. step[<<y, g>>] = step[<<y, h>>]
    BY <2>3, <2>4
  <2>6. QED
    BY <1>1, <2>3, <2>5
<1>2. ASSUME NEW n \in Nat PROVE \E g \in [S -> V] : Good(n, g)
  <2> DEFINE Bad == {m \in Nat : ~\E g \in [S -> V] : Good(m, g)}
  <2>1. SUFFICES ASSUME Bad # {} PROVE FALSE
    BY <1>2
  <2>2. PICK m \in Bad : \A k \in Bad : m <= k
    <3>1. Bad \in SUBSET Nat
      OBVIOUS
    <3> HIDE DEF Bad
    <3>2. QED BY <2>1, <3>1, LeastNat
  <2>3. CASE m = 0
    <3>1. PICK v \in V : TRUE
      OBVIOUS
    <3>2. [x \in S |-> v] \in [S -> V] /\ Good(0, [x \in S |-> v])
      BY <1>0
    <3>3. QED
      BY <2>3, <3>2
  <2>4. CASE m # 0
    <3>1. m \in Nat /\ m - 1 \in Nat /\ m - 1 < m
      BY <2>4
    <3>2. m - 1 \notin Bad
      <4> HIDE DEF Bad
      <4>1. QED BY <2>2, <3>1
    <3>3. PICK g \in [S -> V] : Good(m - 1, g)
      BY <3>1, <3>2
    <3> DEFINE h == [x \in S |-> step[<<x, g>>]]
    <3>4. h \in [S -> V]
      OBVIOUS
    <3>5. \A x \in S : rank[x] < m - 1 => h[x] = g[x]
      BY <3>3
    <3>6. ASSUME NEW x \in S, rank[x] < m PROVE h[x] = step[<<x, h>>]
      <4>1. h[x] = step[<<x, g>>]
        OBVIOUS
      <4> HIDE DEF h
      <4>2. ASSUME NEW y \in S, rank[y] < rank[x] PROVE h[y] = g[y]
        <5>1. rank[y] < m - 1
          BY <1>0, <3>1, <3>6, <4>2
        <5>2. QED
          BY <3>5, <5>1
      <4>3. step[<<x, h>>] = step[<<x, g>>]
        BY <3>3, <3>4, <4>2
      <4>4. QED
        BY <4>1, <4>3
    <3>7. Good(m, h)
      BY <3>6
    <3>8. QED
      BY <3>4, <3>7
  <2>5. QED
    BY <2>3, <2>4
<1> DEFINE G(n) == CHOOSE g \in [S -> V] : Good(n, g)
<1>3. ASSUME NEW n \in Nat PROVE G(n) \in [S -> V] /\ Good(n, G(n))
  <2> HIDE DEF Good
  <2>1. QED BY <1>2
<1> DEFINE f == [x \in S |-> G(rank[x] + 1)[x]]
<1> HIDE DEF G
<1>4. \A n \in Nat : G(n) \in [S -> V]
  BY <1>3
<1>5. f \in [S -> V]
  BY <1>0, <1>4
<1>6. ASSUME NEW x \in S PROVE f[x] = step[<<x, f>>]
  <2>1. rank[x] + 1 \in Nat /\ rank[x] < rank[x] + 1
    BY <1>0
  <2> DEFINE g == G(rank[x] + 1)
  <2>2. g \in [S -> V] /\ Good(rank[x] + 1, g)
    BY <1>3, <2>1
  <2>3. ASSUME NEW y \in S, rank[y] < rank[x] PROVE f[y] = g[y]
    <3> DEFINE k == rank[y] + 1
    <3>1. k \in Nat /\ rank[y] < k /\ k <= rank[x] + 1
      BY <1>0, <2>3
    <3> HIDE DEF k
    <3>2. G(k) \in [S -> V] /\ Good(k, G(k))
      BY <1>3, <3>1
    <3>3. Good(k, g)
      <4> SUFFICES ASSUME NEW z \in S, rank[z] < k PROVE rank[z] < rank[x] + 1
        BY <2>2
      <4>1. QED BY <1>0, <2>1, <3>1
    <3> HIDE DEF Good, g
    <3>4. G(k)[y] = g[y]
      BY <1>1, <2>2, <3>1, <3>2, <3>3
    <3>5. QED
      BY <3>4 DEF k
  <2>4. f[x] = g[x]
    OBVIOUS
  <2>5. g[x] = step[<<x, g>>]
    BY <2>1, <2>2
  <2> HIDE DEF f, g
  <2>6. step[<<x, f>>] = step[<<x, g>>]
    BY <1>5, <2>2, <2>3
  <2>7. QED
    BY <2>4, <2>5, <2>6
<1>7. QED
  BY <1>5, <1>6

(* What holds of 0 and of every next number holds up to n.                 *)
LEMMA Climb ==
  ASSUME NEW n \in Nat, NEW T, 0 \in T, \A k \in 1 .. n : k - 1 \in T => k \in T
  PROVE  n \in T
<1> DEFINE Bad == {k \in 0 .. n : k \notin T}
<1>1. SUFFICES ASSUME n \notin T PROVE FALSE
  OBVIOUS
<1>2. PICK k \in Bad : \A j \in Bad : k <= j
  <2>1. Bad \in SUBSET Nat /\ n \in Bad
    BY <1>1
  <2> HIDE DEF Bad
  <2>2. QED BY <2>1, LeastNat
<1>3. k \in 0 .. n /\ k \notin T
  OBVIOUS
<1>4. k \in 1 .. n /\ k - 1 \in 0 .. n /\ k - 1 < k
  <2>1. k # 0
    BY <1>3
  <2>2. QED BY <1>3, <2>1
<1>5. k - 1 \notin Bad
  <2> HIDE DEF Bad
  <2>1. QED BY <1>2, <1>3, <1>4
<1>6. QED
  BY <1>3, <1>4, <1>5
=============================================================================
