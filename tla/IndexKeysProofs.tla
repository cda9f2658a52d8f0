--------------------------- MODULE IndexKeysProofs ---------------------------
(***************************************************************************)
(* The keys of an index for integers of any width, strings of any length   *)
(* and any base: byte order is the order of values, a key tells its row,   *)
(* and so a search of the index finds the rows it should.                  *)
(***************************************************************************)
EXTENDS IndexKeys, Ranks, FiniteSetTheorems,
        FunctionTheorems, SequenceTheorems, TLAPS

----------------------------------------------------------------------------
(* Quotients.                                                              *)

LEMMA Grows == ASSUME NEW b \in Nat, NEW d \in Int, b > 0, d >= 1 PROVE b * d >= b
  OBVIOUS
LEMMA DivMod == ASSUME NEW n \in Int, NEW b \in Nat, b > 0
  PROVE n \div b \in Int /\ n % b \in 0 .. b - 1 /\ n = b * (n \div b) + (n % b)
  OBVIOUS
LEMMA Quot == ASSUME NEW b \in Nat, b > 0, NEW q \in Int, NEW p \in Int,
  NEW r \in 0 .. b - 1, NEW s \in 0 .. b - 1, b * q + r = b * p + s
  PROVE q = p /\ r = s
<1>1. b * (q - p) = s - r
  OBVIOUS
<1>2. q - p >= 1 => b * (q-p) >= b
  BY Grows
<1>3. p - q >= 1 => b * (p-q) >= b
  BY Grows
<1>4. b * (p - q) = r - s
  OBVIOUS
<1>5. QED BY <1>1, <1>2, <1>3, <1>4
LEMMA Nest == ASSUME NEW n \in Nat, NEW b \in Nat, NEW c \in Nat, b > 0, c > 0
  PROVE (n \div b) \div c = n \div (b * c)
<1> DEFINE q == n \div b
           r == n % b
           p == q \div c
           s == q % c
           m == b * c
<1>1. q \in Int /\ r \in 0 .. b - 1 /\ n = b * q + r
  BY DivMod
<1> HIDE DEF q, r
<1>2. p \in Int /\ s \in 0 .. c - 1 /\ q = c * p + s
  BY DivMod, <1>1
<1> HIDE DEF p, s
<1>3. b * q = m * p + b * s
  BY <1>1, <1>2
<1>4. b * s >= 0 /\ b * s <= b * (c - 1) /\ b * (c - 1) = m - b
  <2>1. b * s >= 0
    BY <1>2
  <2>2. s <= c - 1 => b * s <= b * (c - 1)
    BY <1>2
  <2>3. QED BY <1>2, <2>1, <2>2
<1>5. m \in Nat /\ m > 0
  OBVIOUS
<1> HIDE DEF m
<1>6. b * s \in Int
  BY <1>2
<1> DEFINE t == b * s
<1> HIDE DEF t
<1>7. t \in Int /\ t >= 0 /\ t <= m - b /\ b * q = m * p + t
  BY <1>3, <1>4, <1>6 DEF t
<1>8. n = m * p + (t + r) /\ t + r \in 0 .. m - 1
  BY <1>1, <1>7, <1>5, <1>2
<1>9. n = m * (n \div m) + (n % m) /\ n \div m \in Int /\ n % m \in 0 .. m - 1
  BY <1>5, DivMod
<1>10. p = n \div m
  <2> DEFINE x == n \div m
             y == n % m
             z == t + r
  <2>1. x \in Int /\ y \in 0 .. m - 1 /\ z \in 0 .. m - 1 /\ m * p + z = m * x + y
    BY <1>8, <1>9
  <2> HIDE DEF x, y, z
  <2>2. p = x
    BY <1>2, <1>5, <2>1, Quot
  <2>3. QED BY <2>2 DEF x
<1>11. QED BY <1>10 DEF p, q, m
LEMMA DivMonotone == ASSUME NEW b \in Nat, b > 0, NEW m \in Int, NEW n \in Int, m <= n
  PROVE m \div b <= n \div b
<1>1. m = b * (m \div b) + (m % b) /\ n = b * (n \div b) + (n % b)
  BY DivMod
<1>2. ASSUME m \div b - n \div b >= 1 PROVE FALSE
  <2>1. b * (m \div b - n \div b) >= b
    BY Grows, DivMod, <1>2
  <2>2. b * (m \div b - n \div b) = b * (m \div b) - b * (n \div b)
    BY DivMod
  <2>3. QED BY <1>1, <2>1, <2>2, DivMod
<1>3. QED BY <1>2, DivMod
LEMMA DivSmall == ASSUME NEW b \in Nat, NEW n \in Nat, n < b PROVE n \div b = 0
  OBVIOUS

----------------------------------------------------------------------------
(* Places of a number.                                                     *)

LEMMA Sizes == Base \in Nat /\ Base >= 2 /\ IntDigits \in Nat /\ IdDigits \in Nat
  BY KeysAssumption

LEMMA Product ==
  ASSUME NEW w \in Nat \ {0}
  PROVE  Base * w \in Nat \ {0}
  BY Sizes

LEMMA WeightIs ==
  /\ Weight[0] = 1
  /\ \A k \in Nat : Weight[k] \in Nat /\ Weight[k] > 0
  /\ \A k \in Nat : Weight[k + 1] = Base * Weight[k]
<1> DEFINE Body(h, k) == IF k = 0 THEN 1 ELSE Base * h[k - 1]
           P    == Nat \ {0}
           step == [p \in Nat \X [Nat -> P] |-> Body(p[2], p[1])]
           rank == [k \in Nat |-> k]
           H    == CHOOSE h : h = [k \in Nat |-> Body(h, k)]
<1>1. rank \in [Nat -> Nat] /\ P # {}
  OBVIOUS
<1>2. ASSUME NEW h \in [Nat -> P], NEW k \in Nat PROVE Body(h, k) \in P
  <2>1. CASE k = 0
    BY <2>1
  <2>2. CASE k # 0
    <3>1. h[k - 1] \in Nat \ {0}
      BY <2>2
    <3>2. QED BY <2>2, <3>1, Product
  <2>3. QED BY <2>1, <2>2
<1>3. step \in [Nat \X [Nat -> P] -> P]
  <2> HIDE DEF P, Body
  <2>1. QED BY <1>2
<1>4. ASSUME NEW k \in Nat, NEW f \in [Nat -> P], NEW g \in [Nat -> P],
             \A j \in Nat : rank[j] < rank[k] => f[j] = g[j]
      PROVE  step[<<k, f>>] = step[<<k, g>>]
  <2>1. k # 0 => k - 1 \in Nat /\ f[k - 1] = g[k - 1]
    BY <1>4
  <2>2. Body(f, k) = Body(g, k)
    BY <2>1
  <2>3. QED BY <2>2
<1>5. PICK f \in [Nat -> P] : \A k \in Nat : f[k] = Body(f, k)
  <2>1. Recursive(Nat, P, rank, step)
    <3> HIDE DEF step, rank, P
    <3>1. QED BY <1>1, <1>3, <1>4 DEF Recursive
  <2>2. PICK f \in [Nat -> P] : \A k \in Nat : f[k] = step[<<k, f>>]
    <3> HIDE DEF step, rank, P
    <3>1. QED BY <1>1, <2>1, Recursion
  <2>3. QED BY <2>2
<1>6. f = [k \in Nat |-> Body(f, k)]
  <2> HIDE DEF Body, P
  <2>1. QED BY <1>5
<1>7. H = [k \in Nat |-> Body(H, k)]
  <2> HIDE DEF Body
  <2>1. QED BY <1>6
<1>8. Weight = H
  BY Zenon DEF Weight
<1>9. \A k \in Nat : Weight[k] = IF k = 0 THEN 1 ELSE Base * Weight[k - 1]
  <2> HIDE DEF H
  <2>1. QED BY <1>7, <1>8
<1>10. \A k \in Nat : Weight[k + 1] = Base * Weight[k]
  BY <1>9
<1>11. \A k \in Nat : Weight[k] \in P
  <2> DEFINE Bad == {k \in Nat : Weight[k] \notin P}
  <2>1. SUFFICES ASSUME Bad # {} PROVE FALSE
    OBVIOUS
  <2>2. PICK k \in Bad : \A j \in Bad : k <= j
    <3>1. Bad \in SUBSET Nat
      OBVIOUS
    <3> HIDE DEF Bad
    <3>2. QED BY <2>1, <3>1, LeastNat
  <2>3. k # 0
    BY <1>9
  <2>4. k - 1 \in Nat /\ Weight[k - 1] \in P
    BY <2>2, <2>3
  <2>5. Base * Weight[k - 1] \in P
    BY <2>4, Product
  <2>6. Weight[k] = Base * Weight[k - 1] /\ Weight[k] \notin P
    BY <1>9, <2>3
  <2>7. QED
    BY <2>5, <2>6
<1>12. QED
  BY <1>9, <1>10, <1>11

Part(n, k) == n \div Weight[k]

LEMMA PartIs ==
  ASSUME NEW n \in Nat, NEW k \in Nat
  PROVE  /\ Part(n, k) \in Nat
         /\ Part(n, k) % Base \in 0 .. Base - 1
         /\ Part(n, k) = Base * Part(n, k + 1) + (Part(n, k) % Base)
<1>1. Weight[k] \in Nat /\ Weight[k] > 0 /\ Weight[k + 1] = Base * Weight[k]
  BY WeightIs
<1>2. Part(n, k) \in Int /\ Part(n, k) >= 0
  <2>1. 0 \div Weight[k] <= n \div Weight[k]
    BY <1>1, DivMonotone
  <2>2. 0 = Weight[k] * (0 \div Weight[k]) + (0 % Weight[k])
    BY <1>1, DivMod
  <2>3. 0 \div Weight[k] = 0
    BY <1>1, Quot, DivMod
  <2>4. QED
    BY <1>1, <2>1, <2>3, DivMod DEF Part
<1>3. Part(n, k + 1) = Part(n, k) \div Base
  BY <1>1, Sizes, Nest DEF Part
<1> HIDE DEF Part
<1>4. QED
  BY <1>2, <1>3, Sizes, DivMod

LEMMA DigitsAre ==
  ASSUME NEW n \in Nat, NEW k \in Nat
  PROVE  /\ Digits(n, k) \in Seq(2 .. Base + 1) /\ Len(Digits(n, k)) = k
         /\ \A i \in 1 .. k : Digits(n, k)[i] = 2 + (Part(n, k - i) % Base)
<1>1. \A i \in 1 .. k : k - i \in Nat
  OBVIOUS
<1>2. \A i \in 1 .. k : Part(n, k - i) % Base \in 0 .. Base - 1
  BY <1>1, PartIs
<1>3. Digits(n, k) = [i \in 1 .. k |-> 2 + (Part(n, k - i) % Base)]
  BY DEF Digits, Digit, Part
<1> HIDE DEF Part
<1>4. \A i \in 1 .. k : 2 + (Part(n, k - i) % Base) \in 2 .. Base + 1
  BY <1>2, Sizes
<1>5. QED
  BY <1>3, <1>4

(* The first digits that differ differ like the numbers.                   *)
LEMMA DigitsOrder ==
  ASSUME NEW k \in Nat, NEW m \in Nat, NEW n \in Nat, m < n, n < Weight[k]
  PROVE  \E i \in 1 .. k :
             /\ Digits(m, k)[i] < Digits(n, k)[i]
             /\ \A l \in 1 .. i - 1 : Digits(m, k)[l] = Digits(n, k)[l]
<1>1. \A j \in Nat : Part(m, j) \in Nat /\ Part(n, j) \in Nat /\ Part(m, j) <= Part(n, j)
  <2> TAKE j \in Nat
  <2>1. Part(m, j) <= Part(n, j)
    <3> DEFINE w == Weight[j]
    <3>1. w \in Nat /\ w > 0
      BY WeightIs
    <3> HIDE DEF w
    <3>2. m \div w <= n \div w
      BY <3>1, DivMonotone
    <3>3. QED BY <3>2 DEF Part, w
  <2>2. QED BY <2>1, PartIs
<1>2. Part(m, 0) = m /\ Part(n, 0) = n
  BY WeightIs DEF Part
<1>3. Part(m, k) = 0 /\ Part(n, k) = 0
  <2> DEFINE w == Weight[k]
  <2>1. w \in Nat /\ w > 0 /\ m < w /\ n < w
    BY WeightIs
  <2> HIDE DEF w
  <2>2. m \div w = 0 /\ n \div w = 0
    BY <2>1, DivSmall
  <2>3. QED BY <2>2 DEF Part, w
<1> HIDE DEF Part
<1> DEFINE T == {i \in 1 .. k : Part(m, k - i) # Part(n, k - i)}
<1>4. T \in SUBSET Nat /\ k \in T
  <2>1. k # 0
    BY <1>2, <1>3
  <2>2. QED BY <1>2, <2>1
<1>5. PICK i \in T : \A l \in T : i <= l
  <2> HIDE DEF T
  <2>1. QED BY <1>4, LeastNat
<1>6. \A l \in 0 .. i - 1 : Part(m, k - l) = Part(n, k - l)
  <2> SUFFICES ASSUME NEW l \in 0 .. i - 1 PROVE Part(m, k - l) = Part(n, k - l)
    OBVIOUS
  <2>1. CASE l = 0
    BY <1>3, <2>1
  <2>2. CASE l # 0
    <3>1. l \in 1 .. k /\ ~(i <= l)
      BY <2>2
    <3>2. l \notin T
      BY <1>5, <3>1
    <3>3. QED BY <3>1, <3>2
  <2>3. QED BY <2>1, <2>2
<1>7. /\ i \in 1 .. k /\ k - i \in Nat /\ k - (i - 1) = (k - i) + 1
      /\ Part(m, k - i) < Part(n, k - i)
  BY <1>1
<1>8. Part(m, (k - i) + 1) = Part(n, (k - i) + 1)
  BY <1>6, <1>7
<1>9. Part(m, k - i) % Base < Part(n, k - i) % Base
  <2> DEFINE j == k - i
  <2>1. /\ Part(m, j) = Base * Part(m, j + 1) + (Part(m, j) % Base)
        /\ Part(n, j) = Base * Part(n, j + 1) + (Part(n, j) % Base)
        /\ Part(m, j) % Base \in Int /\ Part(n, j) % Base \in Int
        /\ Base * Part(n, j + 1) \in Int
    <3>1. j \in Nat /\ j + 1 \in Nat
      BY <1>7
    <3> HIDE DEF j
    <3>2. Part(n, j + 1) \in Nat
      BY <3>1, PartIs
    <3>3. Base * Part(n, j + 1) \in Int
      BY <3>2, Sizes
    <3>4. /\ Part(m, j) = Base * Part(m, j + 1) + (Part(m, j) % Base)
          /\ Part(n, j) = Base * Part(n, j + 1) + (Part(n, j) % Base)
          /\ Part(m, j) % Base \in 0 .. Base - 1 /\ Part(n, j) % Base \in 0 .. Base - 1
      BY <3>1, PartIs
    <3>5. \A x \in 0 .. Base - 1 : x \in Int
      BY Sizes
    <3>6. QED BY <3>3, <3>4, <3>5
  <2>2. Base * Part(m, j + 1) = Base * Part(n, j + 1)
    BY <1>8
  <2> DEFINE a == Part(m, j) % Base
             b == Part(n, j) % Base
             c == Base * Part(n, j + 1)
  <2>3. Part(m, j) = c + a /\ Part(n, j) = c + b /\ a \in Int /\ b \in Int /\ c \in Int
    BY <2>1, <2>2
  <2>4. Part(m, j) < Part(n, j)
    BY <1>7
  <2> HIDE DEF a, b, c
  <2>5. a < b
    BY <2>3, <2>4
  <2>6. QED BY <2>5 DEF a, b
<1>10. \A l \in 1 .. i - 1 : l \in 1 .. k /\ Part(m, k - l) % Base = Part(n, k - l) % Base
  BY <1>6, <1>7
<1>11. Digits(m, k)[i] < Digits(n, k)[i]
  <2>1. /\ Digits(m, k)[i] = 2 + (Part(m, k - i) % Base)
        /\ Digits(n, k)[i] = 2 + (Part(n, k - i) % Base)
    BY <1>7, DigitsAre
  <2>2. Part(m, k - i) % Base \in Int /\ Part(n, k - i) % Base \in Int
    BY <1>7, PartIs
  <2>3. QED BY <1>9, <2>1, <2>2
<1>12. \A l \in 1 .. i - 1 : Digits(m, k)[l] = Digits(n, k)[l]
  BY <1>10, DigitsAre
<1>13. QED
  BY <1>7, <1>11, <1>12

----------------------------------------------------------------------------
(* Byte order.                                                             *)

Strings == Seq(Nat)

(* They agree up to place n, where a ends or has the smaller character.    *)
AheadAt(a, b, n) == /\ n \in 1 .. Len(b)
                    /\ n <= Len(a) + 1
                    /\ \A i \in 1 .. n - 1 : a[i] = b[i]
                    /\ n <= Len(a) => a[n] < b[n]

LEMMA BelowIs ==
  ASSUME NEW a \in Strings, NEW b \in Strings
  PROVE  Below(a, b) <=> \E n \in Nat : AheadAt(a, b, n)
<1>1. /\ Len(a) \in Nat /\ \A i \in 1 .. Len(a) : a[i] \in Nat
      /\ Len(b) \in Nat /\ \A i \in 1 .. Len(b) : b[i] \in Nat
  BY DEF Strings
<1>2. ASSUME NEW n \in 1 .. Len(b), n <= Len(a) + 1
      PROVE  SubSeq(b, 1, n - 1) = SubSeq(a, 1, n - 1)
                 <=> \A i \in 1 .. n - 1 : a[i] = b[i]
  <2> DEFINE x == SubSeq(a, 1, n - 1)
             y == SubSeq(b, 1, n - 1)
  <2>1. n - 1 \in Int /\ 1 \in Int
    BY <1>1
  <2>2. \A i \in 1 .. n - 1 : a[i] \in Nat
    BY <1>1, <1>2
  <2>3. \A i \in 1 .. n - 1 : b[i] \in Nat
    BY <1>1
  <2>4. /\ x \in Seq(Nat) /\ Len(x) = (IF 1 <= n - 1 THEN (n - 1) - 1 + 1 ELSE 0)
        /\ \A i \in 1 .. (n - 1) - 1 + 1 : x[i] = a[1 + i - 1]
    BY <2>1, <2>2, SubSeqProperties
  <2>5. /\ y \in Seq(Nat) /\ Len(y) = (IF 1 <= n - 1 THEN (n - 1) - 1 + 1 ELSE 0)
        /\ \A i \in 1 .. (n - 1) - 1 + 1 : y[i] = b[1 + i - 1]
    BY <2>1, <2>3, SubSeqProperties
  <2> HIDE DEF x, y
  <2>6. /\ Len(x) = n - 1 /\ Len(y) = n - 1
        /\ \A i \in 1 .. n - 1 : x[i] = a[i] /\ y[i] = b[i]
    BY <1>1, <2>4, <2>5
  <2>7. x = y <=> \A i \in 1 .. n - 1 : x[i] = y[i]
    BY <2>4, <2>5, <2>6, SeqEqual
  <2>8. QED
    BY <2>6, <2>7 DEF x, y
<1>3. \A n \in 1 .. Len(b) :
        n = Len(a) + 1 \/ (n <= Len(a) /\ a[n] < b[n])
            <=> n <= Len(a) + 1 /\ (n <= Len(a) => a[n] < b[n])
  BY <1>1
<1>4. \A n \in 1 .. Len(b) : n \in Nat
  BY <1>1
<1>5. \A n \in 1 .. Len(b) :
        (/\ SubSeq(b, 1, n - 1) = SubSeq(a, 1, n - 1)
         /\ n = Len(a) + 1 \/ (n <= Len(a) /\ a[n] < b[n]))
            <=> AheadAt(a, b, n)
  BY <1>2, <1>3 DEF AheadAt
<1>6. \A n : AheadAt(a, b, n) => n \in 1 .. Len(b)
  BY DEF AheadAt
<1>7. QED
  BY <1>4, <1>5, <1>6 DEF Below

LEMMA BelowOneWay ==
  ASSUME NEW a \in Strings, NEW b \in Strings, Below(a, b)
  PROVE  ~Below(b, a) /\ a # b
<1>1. /\ Len(a) \in Nat /\ \A i \in 1 .. Len(a) : a[i] \in Nat
      /\ Len(b) \in Nat /\ \A i \in 1 .. Len(b) : b[i] \in Nat
  BY DEF Strings
<1>2. PICK n \in Nat : AheadAt(a, b, n)
  BY BelowIs
<1>3. ASSUME NEW m \in Nat, AheadAt(b, a, m) PROVE FALSE
  <2>1. CASE m < n
    BY <1>1, <1>2, <1>3, <2>1 DEF AheadAt
  <2>2. CASE n < m
    BY <1>1, <1>2, <1>3, <2>2 DEF AheadAt
  <2>3. CASE n = m
    BY <1>1, <1>2, <1>3, <2>3 DEF AheadAt
  <2>4. QED BY <2>1, <2>2, <2>3
<1>4. ~Below(b, a)
  BY <1>3, BelowIs
<1>5. a # b
  BY <1>1, <1>2 DEF AheadAt
<1>6. QED BY <1>4, <1>5

LEMMA BelowTotal ==
  ASSUME NEW a \in Strings, NEW b \in Strings
  PROVE  a = b \/ Below(a, b) \/ Below(b, a)
<1> SUFFICES ASSUME a # b PROVE Below(a, b) \/ Below(b, a)
  OBVIOUS
<1>1. /\ Len(a) \in Nat /\ \A i \in 1 .. Len(a) : a[i] \in Nat
      /\ Len(b) \in Nat /\ \A i \in 1 .. Len(b) : b[i] \in Nat
  BY DEF Strings
<1> DEFINE T == {n \in Nat \ {0} : \/ n = Len(a) + 1 \/ n = Len(b) + 1
                                   \/ a[n] # b[n]}
<1>2. T \in SUBSET Nat /\ Len(a) + 1 \in T
  BY <1>1
<1>3. PICK n \in T : \A m \in T : n <= m
  <2> HIDE DEF T
  <2>1. QED BY <1>2, LeastNat
<1>4. n \in Nat /\ n >= 1
  OBVIOUS
<1>5. n <= Len(a) + 1 /\ n <= Len(b) + 1
  <2>1. Len(b) + 1 \in T
    BY <1>1
  <2>2. QED BY <1>2, <1>3, <2>1
<1>6. \A i \in 1 .. n - 1 : a[i] = b[i]
  <2> SUFFICES ASSUME NEW i \in 1 .. n - 1 PROVE a[i] = b[i]
    OBVIOUS
  <2>1. i \in Nat \ {0} /\ ~(n <= i)
    BY <1>4
  <2>2. i \notin T
    BY <1>3, <2>1
  <2>3. QED BY <2>1, <2>2
<1>7. n \in 1 .. Len(a) \/ n \in 1 .. Len(b)
  <2> SUFFICES ASSUME n \notin 1 .. Len(a), n \notin 1 .. Len(b) PROVE FALSE
    OBVIOUS
  <2>1. n = Len(a) + 1 /\ n = Len(b) + 1
    BY <1>1, <1>4, <1>5
  <2>2. Len(a) = Len(b) /\ \A i \in 1 .. Len(a) : a[i] = b[i]
    BY <1>1, <1>6, <2>1
  <2>3. QED
    BY <2>2, SeqEqual DEF Strings
<1>8. n \in 1 .. Len(a) /\ n \in 1 .. Len(b) => a[n] < b[n] \/ b[n] < a[n]
  <2>1. n \in 1 .. Len(a) /\ n \in 1 .. Len(b) => a[n] # b[n]
    BY <1>1
  <2>2. QED BY <1>1, <2>1
<1>9. AheadAt(a, b, n) \/ AheadAt(b, a, n)
  BY <1>1, <1>4, <1>5, <1>6, <1>7, <1>8 DEF AheadAt
<1>10. QED
  BY <1>4, <1>9, BelowIs

(* A character in front of both changes nothing.                           *)
LEMMA InFront ==
  ASSUME NEW c \in Nat, NEW s \in Strings
  PROVE  /\ <<c>> \o s \in Strings /\ Len(<<c>> \o s) = Len(s) + 1
         /\ (<<c>> \o s)[1] = c
         /\ \A i \in 1 .. Len(s) : (<<c>> \o s)[i + 1] = s[i]
<1>1. <<c>> \in Seq(Nat) /\ Len(<<c>>) = 1 /\ <<c>>[1] = c
  OBVIOUS
<1> DEFINE h == <<c>>
<1> HIDE DEF h
<1>2. /\ h \o s \in Seq(Nat) /\ Len(h \o s) = Len(h) + Len(s)
      /\ \A i \in 1 .. Len(h) + Len(s) :
            (h \o s)[i] = IF i <= Len(h) THEN h[i] ELSE s[i - Len(h)]
  BY <1>1, ConcatProperties DEF Strings, h
<1>3. Len(s) \in Nat
  BY DEF Strings
<1>4. Len(h) = 1 /\ h[1] = c
  BY <1>1 DEF h
<1>5. \A i \in 1 .. Len(s) : (h \o s)[i + 1] = s[i]
  <2> SUFFICES ASSUME NEW i \in 1 .. Len(s) PROVE (h \o s)[i + 1] = s[i]
    OBVIOUS
  <2>1. i + 1 \in 1 .. Len(h) + Len(s) /\ ~(i + 1 <= Len(h)) /\ (i + 1) - Len(h) = i
    BY <1>3, <1>4
  <2>2. QED BY <1>2, <2>1
<1>6. QED
  BY <1>2, <1>3, <1>4, <1>5 DEF Strings, h

LEMMA InFrontOrder ==
  ASSUME NEW c \in Nat, NEW s \in Strings, NEW t \in Strings, Below(s, t)
  PROVE  Below(<<c>> \o s, <<c>> \o t)
<1> DEFINE a == <<c>> \o s
           b == <<c>> \o t
<1>1. /\ a \in Strings /\ Len(a) = Len(s) + 1 /\ a[1] = c
      /\ \A i \in 1 .. Len(s) : a[i + 1] = s[i]
  BY InFront
<1>2. /\ b \in Strings /\ Len(b) = Len(t) + 1 /\ b[1] = c
      /\ \A i \in 1 .. Len(t) : b[i + 1] = t[i]
  BY InFront
<1>3. Len(s) \in Nat /\ Len(t) \in Nat
  BY DEF Strings
<1>4. PICK n \in Nat : AheadAt(s, t, n)
  BY BelowIs
<1> HIDE DEF a, b
<1>5. \A i \in 1 .. n : a[i] = b[i]
  <2> SUFFICES ASSUME NEW i \in 1 .. n PROVE a[i] = b[i]
    OBVIOUS
  <2>1. CASE i = 1
    BY <1>1, <1>2, <2>1
  <2>2. CASE i # 1
    <3>1. i - 1 \in 1 .. n - 1 /\ i - 1 \in 1 .. Len(s) /\ i - 1 \in 1 .. Len(t)
      BY <1>3, <1>4, <2>2 DEF AheadAt
    <3>2. a[(i - 1) + 1] = s[i - 1] /\ b[(i - 1) + 1] = t[i - 1] /\ s[i - 1] = t[i - 1]
      BY <1>1, <1>2, <1>4, <3>1 DEF AheadAt
    <3>3. QED BY <3>2
  <2>3. QED BY <2>1, <2>2
<1>6. AheadAt(a, b, n + 1)
  <2>1. n + 1 \in 1 .. Len(b) /\ n + 1 <= Len(a) + 1
    BY <1>1, <1>2, <1>3, <1>4 DEF AheadAt
  <2>2. ASSUME n + 1 <= Len(a) PROVE a[n + 1] < b[n + 1]
    <3>1. n \in 1 .. Len(s) /\ n \in 1 .. Len(t) /\ s[n] < t[n]
      BY <1>1, <1>3, <1>4, <2>2 DEF AheadAt
    <3>2. QED BY <1>1, <1>2, <3>1
  <2>3. QED BY <1>5, <2>1, <2>2 DEF AheadAt
<1>7. QED
  BY <1>1, <1>2, <1>6, BelowIs DEF a, b

LEMMA CodesAreStrings ==
  ASSUME NEW s \in Seq(2 .. Base + 1)
  PROVE  /\ s \in Strings
         /\ \A i \in 1 .. Len(s) : s[i] \in Nat /\ s[i] >= 2 /\ s[i] <= Base + 1
<1> DEFINE D == 2 .. Base + 1
<1>1. \A c \in D : c \in Nat /\ c >= 2 /\ c <= Base + 1
  BY Sizes
<1>2. s \in Seq(D)
  OBVIOUS
<1> HIDE DEF D
<1>3. Len(s) \in Nat /\ \A i \in 1 .. Len(s) : s[i] \in D
  BY <1>2
<1>4. s \in Seq(Nat)
  BY <1>1, <1>2, <1>3
<1>5. QED BY <1>1, <1>3, <1>4 DEF Strings

LEMMA DigitsBelow ==
  ASSUME NEW k \in Nat, NEW m \in Nat, NEW n \in Nat, m < n, n < Weight[k]
  PROVE  Below(Digits(m, k), Digits(n, k))
<1> DEFINE a == Digits(m, k)
           b == Digits(n, k)
<1>1. a \in Seq(2 .. Base + 1) /\ b \in Seq(2 .. Base + 1) /\ Len(a) = k /\ Len(b) = k
  BY DigitsAre
<1>2. PICK i \in 1 .. k : a[i] < b[i] /\ \A l \in 1 .. i - 1 : a[l] = b[l]
  BY DigitsOrder
<1> HIDE DEF a, b
<1>3. a \in Strings /\ b \in Strings
  BY <1>1, CodesAreStrings
<1>4. AheadAt(a, b, i)
  BY <1>1, <1>2 DEF AheadAt
<1>5. Below(a, b)
  BY <1>3, <1>4, BelowIs
<1>6. QED BY <1>5 DEF a, b

----------------------------------------------------------------------------
(* Encoded values.                                                         *)

LEMMA ModIs ==
  ASSUME NEW b \in Nat, b > 0, NEW q \in Int, NEW r \in 0 .. b - 1, NEW n \in Int,
         n = b * q + r
  PROVE  n % b = r
<1> DEFINE x == n \div b
           y == n % b
<1>1. x \in Int /\ y \in 0 .. b - 1 /\ n = b * x + y
  BY DivMod
<1> HIDE DEF x, y
<1>2. y = r
  BY <1>1, Quot
<1>3. QED BY <1>2 DEF y

(* Turning the sign bit over adds half the width.                          *)
Shifted(n) == n + (Width \div 2)

LEMMA IntCode ==
  ASSUME NEW n \in Ints
  PROVE  /\ n \in Int /\ Shifted(n) \in Nat /\ Shifted(n) < Width
         /\ encode_int(n) = <<TagInt>> \o Digits(Shifted(n), IntDigits)
<1> DEFINE w == Width
           h == Width \div 2
<1>1. w \in Nat /\ w > 0
  BY WeightIs, Sizes DEF Width
<1>2. h \in Nat /\ 2 * h <= w /\ h <= w
  BY <1>1
<1>3. n \in Int /\ n >= -h /\ n < h
  BY <1>2 DEF Ints
<1> HIDE DEF w, h
<1>4. ((n % w) + h) % w = n + h
  <2>1. CASE n >= 0
    <3>1. n = w * 0 + n /\ n \in 0 .. w - 1 /\ n + h = w * 0 + (n + h) /\ n + h \in 0 .. w - 1
      BY <1>1, <1>2, <1>3, <2>1
    <3>2. n % w = n
      BY <1>1, <1>3, <3>1, ModIs
    <3> DEFINE m == n + h
    <3>3. m \in 0 .. w - 1 /\ m = w * 0 + m /\ m \in Int
      BY <1>2, <1>3, <3>1
    <3> HIDE DEF m
    <3>4. m % w = m
      BY <1>1, <3>3, ModIs
    <3>5. QED BY <3>2, <3>4 DEF m
  <2>2. CASE n < 0
    <3> DEFINE x == n + w
               y == x + h
               z == n + h
    <3>1. x \in 0 .. w - 1 /\ n = w * (-1) + x
      BY <1>1, <1>2, <1>3, <2>2
    <3>2. z \in 0 .. w - 1 /\ y = w * 1 + z /\ y \in Int
      BY <1>1, <1>2, <1>3, <2>2
    <3> HIDE DEF x, y, z
    <3>3. n % w = x
      BY <1>1, <1>3, <3>1, ModIs
    <3>4. y % w = z
      BY <1>1, <3>2, ModIs
    <3>5. QED BY <3>3, <3>4 DEF y, z
  <2>3. QED BY <1>3, <2>1, <2>2
<1>5. n + h \in Nat /\ n + h < w
  BY <1>1, <1>2, <1>3
<1>6. encode_int(n) = <<TagInt>> \o Digits(((n % w) + h) % w, IntDigits)
  BY DEF encode_int, w, h
<1>7. Shifted(n) = n + h
  BY DEF Shifted, h
<1>8. QED
  BY <1>3, <1>4, <1>5, <1>6, <1>7 DEF w

LEMMA HexIs ==
  ASSUME NEW s \in Texts
  PROVE  /\ s \in Strings
         /\ hex(s) \in Seq(2 .. Base + 1) /\ Len(hex(s)) = 2 * Len(s)
         /\ \A n \in 1 .. Len(s) : /\ s[n] \in Nat /\ s[n] < Weight[2]
                                   /\ hex(s)[2 * n - 1] = Digits(s[n], 2)[1]
                                   /\ hex(s)[2 * n] = Digits(s[n], 2)[2]
<1> DEFINE bytes == 0 .. Weight[2] - 1
<1>1. s \in Seq(bytes)
  BY KeysAssumption
<1>2. Weight[2] \in Nat
  BY WeightIs
<1>3. \A b \in bytes : b \in Nat /\ b < Weight[2]
  BY <1>2
<1> HIDE DEF bytes
<1>4. Len(s) \in Nat /\ \A n \in 1 .. Len(s) : s[n] \in bytes
  BY <1>1
<1>5. s \in Strings
  BY <1>1, <1>3 DEF Strings
<1>6. \A n \in 1 .. Len(s) : s[n] \in Nat /\ s[n] < Weight[2]
  BY <1>3, <1>4
<1>7. \A n \in 1 .. Len(s) : /\ Digits(s[n], 2)[1] \in 2 .. Base + 1
                             /\ Digits(s[n], 2)[2] \in 2 .. Base + 1
  <2> TAKE n \in 1 .. Len(s)
  <2>1. Digits(s[n], 2) \in Seq(2 .. Base + 1) /\ Len(Digits(s[n], 2)) = 2
    BY <1>6, DigitsAre
  <2> DEFINE d == Digits(s[n], 2)
             D == 2 .. Base + 1
  <2>2. d \in Seq(D) /\ Len(d) = 2
    BY <2>1
  <2> HIDE DEF d, D
  <2>3. d[1] \in D /\ d[2] \in D
    <3>1. 1 \in 1 .. Len(d) /\ 2 \in 1 .. Len(d)
      BY <2>2
    <3>2. QED BY <2>2, <3>1, ElementOfSeq
  <2>4. QED BY <2>3 DEF d, D
<1>8. \A i \in 1 .. 2 * Len(s) :
         /\ (i + 1) \div 2 \in 1 .. Len(s)
         /\ i % 2 = 0 \/ i % 2 = 1
  BY <1>4
<1>9. \A i \in 1 .. 2 * Len(s) : Digits(s[(i + 1) \div 2], 2)[2 - (i % 2)] \in 2 .. Base + 1
  <2> TAKE i \in 1 .. 2 * Len(s)
  <2>1. (i + 1) \div 2 \in 1 .. Len(s)
    BY <1>8
  <2>2. 2 - (i % 2) = 1 \/ 2 - (i % 2) = 2
    BY <1>4, <1>8
  <2>3. QED BY <1>7, <2>1, <2>2
<1>10. 2 * Len(s) \in Nat
  BY <1>4
<1>11. hex(s) \in Seq(2 .. Base + 1) /\ Len(hex(s)) = 2 * Len(s)
       /\ \A i \in 1 .. 2 * Len(s) : hex(s)[i] = Digits(s[(i + 1) \div 2], 2)[2 - (i % 2)]
  BY <1>9, <1>10 DEF hex
<1>12. ASSUME NEW n \in 1 .. Len(s)
       PROVE  hex(s)[2 * n - 1] = Digits(s[n], 2)[1] /\ hex(s)[2 * n] = Digits(s[n], 2)[2]
  <2>1. 2 * n - 1 \in 1 .. 2 * Len(s) /\ 2 * n \in 1 .. 2 * Len(s)
    BY <1>4
  <2>2. ((2 * n - 1) + 1) \div 2 = n /\ (2 * n + 1) \div 2 = n
        /\ (2 * n - 1) % 2 = 1 /\ (2 * n) % 2 = 0
    BY <1>4
  <2> DEFINE i == 2 * n - 1
             j == 2 * n
  <2>3. /\ i \in 1 .. 2 * Len(s) /\ j \in 1 .. 2 * Len(s)
        /\ (i + 1) \div 2 = n /\ (j + 1) \div 2 = n /\ i % 2 = 1 /\ j % 2 = 0
    BY <2>1, <2>2
  <2> HIDE DEF i, j
  <2>4. hex(s)[i] = Digits(s[n], 2)[1] /\ hex(s)[j] = Digits(s[n], 2)[2]
    BY <1>11, <2>3
  <2>5. QED BY <2>4 DEF i, j
<1>13. QED
  BY <1>5, <1>6, <1>11, <1>12

LEMMA TextOrder ==
  ASSUME NEW s \in Texts, NEW t \in Texts, Below(s, t)
  PROVE  Below(hex(s), hex(t))
<1> DEFINE a == hex(s)
           b == hex(t)
           One(n) == Digits(n, 2)[1]
           Two(n) == Digits(n, 2)[2]
<1>1. /\ s \in Strings /\ a \in Strings /\ Len(a) = 2 * Len(s)
      /\ \A n \in 1 .. Len(s) : /\ s[n] \in Nat /\ s[n] < Weight[2]
                                /\ a[2 * n - 1] = One(s[n]) /\ a[2 * n] = Two(s[n])
  BY HexIs, CodesAreStrings
<1>2. /\ t \in Strings /\ b \in Strings /\ Len(b) = 2 * Len(t)
      /\ \A n \in 1 .. Len(t) : /\ t[n] \in Nat /\ t[n] < Weight[2]
                                /\ b[2 * n - 1] = One(t[n]) /\ b[2 * n] = Two(t[n])
  BY HexIs, CodesAreStrings
<1>3. Len(s) \in Nat /\ Len(t) \in Nat
  BY <1>1, <1>2 DEF Strings
<1>4. PICK n \in Nat : AheadAt(s, t, n)
  BY <1>1, <1>2, BelowIs
<1>5. ASSUME NEW m \in Nat, NEW k \in Nat, m < k, k < Weight[2]
      PROVE  One(m) < One(k) \/ (One(m) = One(k) /\ Two(m) < Two(k))
  <2>1. PICK i \in 1 .. 2 : /\ Digits(m, 2)[i] < Digits(k, 2)[i]
                            /\ \A l \in 1 .. i - 1 : Digits(m, 2)[l] = Digits(k, 2)[l]
    BY <1>5, DigitsOrder
  <2>2. i = 1 \/ (i = 2 /\ 1 \in 1 .. i - 1)
    OBVIOUS
  <2>3. QED BY <2>1, <2>2
<1> HIDE DEF a, b, One, Two
<1>6. ASSUME NEW j \in Nat, j >= 1, j <= 2 * (n - 1) PROVE a[j] = b[j]
  <2>1. PICK m \in 1 .. n - 1 : j = 2 * m - 1 \/ j = 2 * m
    <3>1. (j + 1) \div 2 \in 1 .. n - 1
          /\ (j = 2 * ((j + 1) \div 2) - 1 \/ j = 2 * ((j + 1) \div 2))
      BY <1>6
    <3>2. QED BY <3>1
  <2>2. m \in 1 .. Len(s) /\ m \in 1 .. Len(t) /\ s[m] = t[m]
    BY <1>3, <1>4, <2>1 DEF AheadAt
  <2>3. QED
    BY <1>1, <1>2, <2>1, <2>2
<1>7. CASE n > Len(s)
  <2>1. n = Len(s) + 1 /\ n \in 1 .. Len(t)
    BY <1>3, <1>4, <1>7 DEF AheadAt
  <2>2. AheadAt(a, b, 2 * n - 1)
    BY <1>1, <1>2, <1>3, <1>6, <2>1 DEF AheadAt
  <2>3. QED
    BY <1>1, <1>2, <2>1, <2>2, BelowIs DEF a, b
<1>8. CASE n <= Len(s)
  <2>1. n \in 1 .. Len(s) /\ n \in 1 .. Len(t) /\ s[n] < t[n]
    BY <1>3, <1>4, <1>8 DEF AheadAt
  <2>2. /\ a[2 * n - 1] = One(s[n]) /\ a[2 * n] = Two(s[n])
        /\ b[2 * n - 1] = One(t[n]) /\ b[2 * n] = Two(t[n])
    BY <1>1, <1>2, <2>1
  <2>3. 2 * n <= Len(a) /\ 2 * n <= Len(b) /\ 2 * n - 1 \in Nat /\ 2 * n - 1 >= 1
    BY <1>1, <1>2, <1>3, <2>1
  <2>4. One(s[n]) < One(t[n]) \/ (One(s[n]) = One(t[n]) /\ Two(s[n]) < Two(t[n]))
    BY <1>1, <1>2, <1>5, <2>1
  <2>5. CASE One(s[n]) < One(t[n])
    <3>1. AheadAt(a, b, 2 * n - 1)
      BY <1>1, <1>2, <1>3, <1>6, <2>1, <2>2, <2>3, <2>5 DEF AheadAt
    <3>2. QED
      BY <1>1, <1>2, <2>3, <3>1, BelowIs DEF a, b
  <2>6. CASE One(s[n]) = One(t[n]) /\ Two(s[n]) < Two(t[n])
    <3>1. ASSUME NEW j \in 1 .. 2 * n - 1 PROVE a[j] = b[j]
      <4>1. j \in Nat /\ j >= 1 /\ (j <= 2 * (n - 1) \/ j = 2 * n - 1)
        BY <2>1
      <4>2. QED BY <1>6, <2>2, <2>6, <4>1
    <3>2. AheadAt(a, b, 2 * n)
      BY <1>1, <1>2, <1>3, <2>1, <2>2, <2>3, <2>6, <3>1 DEF AheadAt
    <3>3. QED
      BY <1>1, <1>2, <3>2, BelowIs DEF a, b
  <2>7. QED BY <2>4, <2>5, <2>6
<1>9. QED
  BY <1>3, <1>7, <1>8

Tag(v) == CASE v[1] = "int" -> TagInt [] v[1] = "text" -> TagText [] v[1] = "null" -> TagNull

(* A tag, and nothing after it but digits.                                 *)
Code(e, tag) == /\ e \in Strings /\ Len(e) >= 1 /\ e[1] = tag
                /\ \A i \in 2 .. Len(e) : e[i] >= 2 /\ e[i] <= Base + 1

LEMMA Tagged ==
  ASSUME NEW tag \in Nat, NEW s \in Seq(2 .. Base + 1)
  PROVE  Code(<<tag>> \o s, tag)
<1> DEFINE e == <<tag>> \o s
<1>1. s \in Strings /\ Len(s) \in Nat
      /\ \A i \in 1 .. Len(s) : s[i] >= 2 /\ s[i] <= Base + 1
  BY CodesAreStrings
<1>2. /\ e \in Strings /\ Len(e) = Len(s) + 1 /\ e[1] = tag
      /\ \A i \in 1 .. Len(s) : e[i + 1] = s[i]
  BY <1>1, InFront
<1> HIDE DEF e
<1>3. ASSUME NEW i \in 2 .. Len(e) PROVE e[i] >= 2 /\ e[i] <= Base + 1
  <2>1. i - 1 \in 1 .. Len(s) /\ e[(i - 1) + 1] = s[i - 1]
    BY <1>1, <1>2
  <2>2. QED BY <1>1, <2>1
<1>4. Code(e, tag)
  BY <1>1, <1>2, <1>3 DEF Code
<1>5. QED BY <1>4 DEF e

LEMMA ValuesAre ==
  ASSUME NEW v \in Values
  PROVE  \/ v[1] = "int" /\ v[2] \in Ints /\ v = <<"int", v[2]>>
         \/ v[1] = "text" /\ v[2] \in Texts /\ v = <<"text", v[2]>>
         \/ v[1] = "null" /\ v = Null
  BY DEF Values, Literals, Null

LEMMA EncodeIs ==
  ASSUME NEW v \in Values
  PROVE  /\ v[1] = "int" => encode(v) = <<TagInt>> \o Digits(Shifted(v[2]), IntDigits)
         /\ v[1] = "text" => encode(v) = <<TagText>> \o hex(v[2])
         /\ Code(encode(v), Tag(v))
         /\ Tag(v) \in Base + 2 .. Base + 4
<1>0. TagInt \in Nat /\ TagText \in Nat /\ TagNull \in Nat
  BY Sizes DEF TagInt, TagText, TagNull
<1>1. CASE v[1] = "int" /\ v[2] \in Ints
  <2>1. encode(v) = encode_int(v[2]) /\ Tag(v) = TagInt
    <3>1. v # Null
      BY <1>1 DEF Null
    <3>2. QED BY <1>1, <3>1 DEF encode, Tag
  <2>2. Shifted(v[2]) \in Nat /\ encode(v) = <<TagInt>> \o Digits(Shifted(v[2]), IntDigits)
    BY <1>1, <2>1, IntCode
  <2>3. Digits(Shifted(v[2]), IntDigits) \in Seq(2 .. Base + 1)
    BY <2>2, Sizes, DigitsAre
  <2>4. Code(encode(v), TagInt)
    BY <1>0, <2>2, <2>3, Tagged
  <2>5. TagInt \in Base + 2 .. Base + 4
    BY Sizes DEF TagInt
  <2>6. QED BY <1>1, <2>1, <2>2, <2>4, <2>5
<1>2. CASE v[1] = "text" /\ v[2] \in Texts
  <2>1. encode(v) = <<TagText>> \o hex(v[2]) /\ Tag(v) = TagText
    <3>1. v # Null
      BY <1>2 DEF Null
    <3> DEFINE x == <<TagText>> \o hex(v[2])
    <3>2. encode(v) = CASE v[1] = "int" -> encode_int(v[2]) [] v[1] = "text" -> x
                        [] v = Null -> <<TagNull>>
      BY DEF encode
    <3> HIDE DEF x
    <3>3. encode(v) = x
      BY <1>2, <3>1, <3>2
    <3>4. QED BY <1>2, <3>1, <3>3 DEF Tag, x
  <2>2. hex(v[2]) \in Seq(2 .. Base + 1)
    BY <1>2, HexIs
  <2>3. Code(encode(v), TagText)
    BY <1>0, <2>1, <2>2, Tagged
  <2>4. TagText \in Base + 2 .. Base + 4
    BY Sizes DEF TagText
  <2>5. QED BY <1>2, <2>1, <2>3, <2>4
<1>3. CASE v = Null
  <2>1. encode(v) = <<TagNull>> /\ Tag(v) = TagNull /\ v[1] = "null"
    BY <1>3 DEF encode, Tag, Null
  <2>2. Code(<<TagNull>>, TagNull)
    BY <1>0 DEF Code, Strings
  <2>3. TagNull \in Base + 2 .. Base + 4
    BY Sizes DEF TagNull
  <2>4. QED BY <2>1, <2>2, <2>3
<1>4. QED
  BY <1>1, <1>2, <1>3, ValuesAre

(* The order of values of one type.                                        *)
Less(v, w) == IF v[1] = "int" THEN v[2] < w[2] ELSE Below(v[2], w[2])

LEMMA EncodeOrder ==
  ASSUME NEW v \in Literals, NEW w \in Literals, v[1] = w[1], Less(v, w)
  PROVE  Below(encode(v), encode(w))
<1>1. v \in Values /\ w \in Values /\ v[1] \in {"int", "text"}
  BY DEF Values, Literals
<1>2. CASE v[1] = "int"
  <2>1. v[2] \in Ints /\ w[2] \in Ints /\ v[2] < w[2]
    BY <1>1, <1>2, ValuesAre DEF Less
  <2> DEFINE m == Shifted(v[2])
             n == Shifted(w[2])
  <2>2. m \in Nat /\ n \in Nat /\ n < Width /\ v[2] \in Int /\ w[2] \in Int
    BY <2>1, IntCode
  <2>3. m < n
    <3>1. Width \div 2 \in Int
      BY WeightIs, Sizes DEF Width
    <3>2. QED BY <2>1, <2>2, <3>1 DEF Shifted
  <2>4. encode(v) = <<TagInt>> \o Digits(m, IntDigits)
        /\ encode(w) = <<TagInt>> \o Digits(n, IntDigits)
    BY <1>1, <1>2, EncodeIs
  <2> HIDE DEF m, n
  <2>5. Below(Digits(m, IntDigits), Digits(n, IntDigits))
    BY <2>2, <2>3, Sizes, DigitsBelow DEF Width
  <2>6. Digits(m, IntDigits) \in Strings /\ Digits(n, IntDigits) \in Strings
    BY <2>2, Sizes, DigitsAre, CodesAreStrings
  <2>7. TagInt \in Nat
    BY Sizes DEF TagInt
  <2>8. QED
    BY <2>4, <2>5, <2>6, <2>7, InFrontOrder
<1>3. CASE v[1] = "text"
  <2>1. v[2] \in Texts /\ w[2] \in Texts /\ Below(v[2], w[2])
    BY <1>1, <1>3, ValuesAre DEF Less
  <2>2. encode(v) = <<TagText>> \o hex(v[2]) /\ encode(w) = <<TagText>> \o hex(w[2])
    BY <1>1, <1>3, EncodeIs
  <2>3. Below(hex(v[2]), hex(w[2]))
    BY <2>1, TextOrder
  <2>4. hex(v[2]) \in Strings /\ hex(w[2]) \in Strings
    BY <2>1, HexIs, CodesAreStrings
  <2>5. TagText \in Nat
    BY Sizes DEF TagText
  <2>6. QED
    BY <2>2, <2>3, <2>4, <2>5, InFrontOrder
<1>4. QED BY <1>1, <1>2, <1>3

LEMMA LessTotal ==
  ASSUME NEW v \in Literals, NEW w \in Literals, v[1] = w[1]
  PROVE  /\ v = w \/ Less(v, w) \/ Less(w, v)
         /\ Less(v, w) => v # w /\ ~Less(w, v)
<1>1. v \in Values /\ w \in Values /\ v[1] \in {"int", "text"}
  BY DEF Values, Literals
<1>2. CASE v[1] = "int"
  <2>1. v[2] \in Int /\ w[2] \in Int /\ v = <<"int", v[2]>> /\ w = <<"int", w[2]>>
    BY <1>1, <1>2, ValuesAre, IntCode
  <2>2. QED BY <1>2, <2>1 DEF Less
<1>3. CASE v[1] = "text"
  <2>1. /\ v[2] \in Strings /\ w[2] \in Strings
        /\ v = <<"text", v[2]>> /\ w = <<"text", w[2]>>
    BY <1>1, <1>3, ValuesAre, HexIs
  <2>2. v[2] = w[2] \/ Below(v[2], w[2]) \/ Below(w[2], v[2])
    BY <2>1, BelowTotal
  <2>3. Below(v[2], w[2]) => v[2] # w[2] /\ ~Below(w[2], v[2])
    BY <2>1, BelowOneWay
  <2>4. QED BY <1>3, <2>1, <2>2, <2>3 DEF Less
<1>4. QED BY <1>1, <1>2, <1>3

----------------------------------------------------------------------------
(* Keys.                                                                   *)

LEMMA Behind ==
  ASSUME NEW e \in Strings, NEW c \in Nat
  PROVE  /\ e \o <<c>> \in Strings /\ Len(e \o <<c>>) = Len(e) + 1
         /\ (e \o <<c>>)[Len(e) + 1] = c
         /\ \A i \in 1 .. Len(e) : (e \o <<c>>)[i] = e[i]
<1> DEFINE t == <<c>>
<1>1. t \in Seq(Nat) /\ Len(t) = 1 /\ t[1] = c
  OBVIOUS
<1> HIDE DEF t
<1>2. Len(e) \in Nat
  BY DEF Strings
<1>3. /\ e \o t \in Seq(Nat) /\ Len(e \o t) = Len(e) + Len(t)
      /\ \A i \in 1 .. Len(e) + Len(t) :
            (e \o t)[i] = IF i <= Len(e) THEN e[i] ELSE t[i - Len(e)]
  BY <1>1, ConcatProperties DEF Strings
<1>4. (e \o t)[Len(e) + 1] = c
  <2>1. /\ Len(e) + 1 \in 1 .. Len(e) + Len(t) /\ ~(Len(e) + 1 <= Len(e))
        /\ (Len(e) + 1) - Len(e) = 1
    BY <1>1, <1>2
  <2>2. QED BY <1>1, <1>3, <2>1
<1>5. \A i \in 1 .. Len(e) : (e \o t)[i] = e[i]
  BY <1>1, <1>2, <1>3
<1>6. QED
  BY <1>1, <1>3, <1>4, <1>5 DEF Strings, t

LEMMA KeyIs ==
  ASSUME NEW e \in Strings, NEW d \in Strings
  PROVE  LET k == e \o <<SEP>> \o d
         IN  /\ k \in Strings /\ Len(k) = Len(e) + 1 + Len(d)
             /\ \A i \in 1 .. Len(e) : k[i] = e[i]
             /\ k[Len(e) + 1] = SEP
             /\ \A i \in 1 .. Len(d) : k[Len(e) + 1 + i] = d[i]
<1> DEFINE h == e \o <<SEP>>
<1>1. SEP \in Nat
  BY DEF SEP
<1>2. /\ h \in Strings /\ Len(h) = Len(e) + 1 /\ h[Len(e) + 1] = SEP
      /\ \A i \in 1 .. Len(e) : h[i] = e[i]
  BY <1>1, Behind
<1> HIDE DEF h
<1>3. Len(e) \in Nat /\ Len(d) \in Nat
  BY DEF Strings
<1>4. /\ h \o d \in Seq(Nat) /\ Len(h \o d) = Len(h) + Len(d)
      /\ \A i \in 1 .. Len(h) + Len(d) :
            (h \o d)[i] = IF i <= Len(h) THEN h[i] ELSE d[i - Len(h)]
  BY <1>2, ConcatProperties DEF Strings
<1>5. \A i \in 1 .. Len(e) : (h \o d)[i] = e[i]
  BY <1>2, <1>3, <1>4
<1>6. (h \o d)[Len(e) + 1] = SEP
  BY <1>2, <1>3, <1>4
<1>7. \A i \in 1 .. Len(d) : (h \o d)[Len(e) + 1 + i] = d[i]
  <2> SUFFICES ASSUME NEW i \in 1 .. Len(d) PROVE (h \o d)[Len(e) + 1 + i] = d[i]
    OBVIOUS
  <2>1. /\ Len(e) + 1 + i \in 1 .. Len(h) + Len(d) /\ ~(Len(e) + 1 + i <= Len(h))
        /\ (Len(e) + 1 + i) - Len(h) = i
    BY <1>2, <1>3
  <2>2. QED BY <1>4, <2>1
<1>8. QED
  BY <1>2, <1>4, <1>5, <1>6, <1>7 DEF Strings, h

(* Where a key stands against the bound for one encoded value.             *)
LEMMA KeyAgainstBound ==
  ASSUME NEW t \in Nat, NEW e, NEW f, Code(e, t), Code(f, t), t >= 2,
         NEW d \in Strings, NEW c \in {SEP, AFTER_SEP}
  PROVE  LET k     == e \o <<SEP>> \o d
             bound == f \o <<c>>
         IN  /\ Below(e, f) => Below(k, bound)
             /\ e = f /\ c = AFTER_SEP => Below(k, bound)
             /\ e = f /\ c = SEP => ~Below(k, bound)
             /\ Below(f, e) => Below(bound, k)
<1> DEFINE k     == e \o <<SEP>> \o d
           bound == f \o <<c>>
<1>1. /\ k \in Strings /\ Len(k) = Len(e) + 1 + Len(d)
      /\ \A i \in 1 .. Len(e) : k[i] = e[i]
      /\ k[Len(e) + 1] = 0
  BY KeyIs DEF Code, SEP
<1>2. /\ bound \in Strings /\ Len(bound) = Len(f) + 1 /\ bound[Len(f) + 1] = c
      /\ \A i \in 1 .. Len(f) : bound[i] = f[i]
  BY Behind DEF Code, SEP, AFTER_SEP
<1>3. /\ e \in Strings /\ f \in Strings
      /\ Len(e) \in Nat /\ Len(f) \in Nat /\ Len(d) \in Nat
      /\ c = 0 \/ c = 1
  BY DEF Code, Strings, SEP, AFTER_SEP
<1>4. /\ \A i \in 1 .. Len(e) : e[i] \in Nat /\ e[i] >= 2
      /\ \A i \in 1 .. Len(f) : f[i] \in Nat /\ f[i] >= 2
  <2>1. \A s \in Strings : \A i \in 1 .. Len(s) : s[i] \in Nat /\ (i = 1 \/ i \in 2 .. Len(s))
    BY DEF Strings
  <2>2. QED BY <1>3, <2>1 DEF Code
<1> HIDE DEF k, bound
<1>5. ASSUME Below(e, f) PROVE Below(k, bound)
  <2>1. PICK n \in Nat : AheadAt(e, f, n)
    BY <1>3, <1>5, BelowIs
  <2>2. AheadAt(k, bound, n)
    <3>1. n \in 1 .. Len(f) /\ n <= Len(e) + 1 /\ n \in 1 .. Len(bound) /\ n <= Len(k)
      BY <1>1, <1>2, <1>3, <2>1 DEF AheadAt
    <3>2. \A i \in 1 .. n - 1 : k[i] = bound[i]
      <4> SUFFICES ASSUME NEW i \in 1 .. n - 1 PROVE k[i] = bound[i]
        OBVIOUS
      <4>1. i \in 1 .. Len(e) /\ i \in 1 .. Len(f)
        BY <1>3, <3>1
      <4>2. e[i] = f[i]
        BY <2>1 DEF AheadAt
      <4>3. QED BY <1>1, <1>2, <4>1, <4>2
    <3>3. k[n] < bound[n]
      <4>1. CASE n <= Len(e)
        <5>1. e[n] < f[n] /\ n \in 1 .. Len(e)
          BY <2>1, <3>1, <4>1 DEF AheadAt
        <5>2. QED BY <1>1, <1>2, <3>1, <5>1
      <4>2. CASE n = Len(e) + 1
        <5>1. k[n] = 0 /\ bound[n] = f[n] /\ f[n] \in Nat /\ f[n] >= 2
          BY <1>1, <1>2, <1>4, <3>1, <4>2
        <5>2. QED BY <5>1
      <4>3. QED BY <1>3, <3>1, <4>1, <4>2
    <3>4. QED BY <1>1, <1>3, <3>1, <3>2, <3>3 DEF AheadAt
  <2>3. QED BY <1>1, <1>2, <2>2, BelowIs
<1>6. ASSUME e = f, c = AFTER_SEP PROVE Below(k, bound)
  <2>1. c = 1
    BY <1>6 DEF AFTER_SEP
  <2>2. AheadAt(k, bound, Len(e) + 1)
    BY <1>1, <1>2, <1>3, <1>6, <2>1 DEF AheadAt
  <2>3. QED
    BY <1>1, <1>2, <1>3, <2>2, BelowIs
<1>7. ASSUME e = f, c = SEP, Below(k, bound) PROVE FALSE
  <2>1. PICK n \in Nat : AheadAt(k, bound, n)
    BY <1>1, <1>2, <1>7, BelowIs
  <2>2. c = 0
    BY <1>7 DEF SEP
  <2>3. n \in 1 .. Len(e) + 1 /\ n <= Len(k) /\ k[n] < bound[n]
    BY <1>1, <1>2, <1>3, <1>7, <2>1 DEF AheadAt
  <2>4. k[n] = bound[n] /\ k[n] \in Nat
    <3>1. CASE n \in 1 .. Len(e)
      BY <1>1, <1>2, <1>4, <1>7, <3>1
    <3>2. CASE n = Len(e) + 1
      BY <1>1, <1>2, <1>7, <2>2, <3>2
    <3>3. QED BY <1>3, <2>3, <3>1, <3>2
  <2>5. QED BY <2>3, <2>4
<1>8. ASSUME Below(f, e) PROVE Below(bound, k)
  <2>1. PICK n \in Nat : AheadAt(f, e, n)
    BY <1>3, <1>8, BelowIs
  <2>2. AheadAt(bound, k, n)
    <3>1. n \in 1 .. Len(e) /\ n <= Len(f) + 1 /\ n \in 1 .. Len(k) /\ n <= Len(bound)
      BY <1>1, <1>2, <1>3, <2>1 DEF AheadAt
    <3>2. \A i \in 1 .. n - 1 : bound[i] = k[i]
      <4> SUFFICES ASSUME NEW i \in 1 .. n - 1 PROVE bound[i] = k[i]
        OBVIOUS
      <4>1. i \in 1 .. Len(e) /\ i \in 1 .. Len(f)
        BY <1>3, <3>1
      <4>2. e[i] = f[i]
        BY <2>1 DEF AheadAt
      <4>3. QED BY <1>1, <1>2, <4>1, <4>2
    <3>3. bound[n] < k[n]
      <4>1. CASE n <= Len(f)
        <5>1. f[n] < e[n] /\ n \in 1 .. Len(f)
          BY <2>1, <3>1, <4>1 DEF AheadAt
        <5>2. QED BY <1>1, <1>2, <3>1, <5>1
      <4>2. CASE n = Len(f) + 1
        <5>1. bound[n] = c /\ k[n] = e[n] /\ e[n] \in Nat /\ e[n] >= 2
          BY <1>1, <1>2, <1>4, <3>1, <4>2
        <5>2. QED BY <1>3, <5>1
      <4>3. QED BY <1>3, <3>1, <4>1, <4>2
    <3>4. QED BY <1>1, <1>3, <3>1, <3>2, <3>3 DEF AheadAt
  <2>3. QED BY <1>1, <1>2, <2>2, BelowIs
<1>9. QED
  BY <1>5, <1>6, <1>7, <1>8 DEF k, bound

LEMMA KeyAgainstTag ==
  ASSUME NEW t \in Base + 2 .. Base + 4, NEW u \in Base + 2 .. Base + 4,
         NEW e, Code(e, t), NEW d \in Strings
  PROVE  LET k == e \o <<SEP>> \o d
         IN  /\ Below(k, <<u>>) <=> t < u
             /\ Below(k, <<u>> \o <<TAG_END>>) <=> t <= u
<1> DEFINE k == e \o <<SEP>> \o d
           low == <<u>>
           high == <<u>> \o <<TAG_END>>
<1>1. t \in Nat /\ u \in Nat /\ TAG_END = Base + 5 /\ TAG_END \in Nat
  BY Sizes DEF TAG_END
<1>2. /\ k \in Strings /\ Len(k) = Len(e) + 1 + Len(d)
      /\ \A i \in 1 .. Len(e) : k[i] = e[i]
      /\ k[Len(e) + 1] = 0
      /\ Len(e) \in Nat /\ Len(d) \in Nat /\ Len(e) >= 1 /\ e[1] = t
  BY KeyIs DEF Code, SEP, Strings
<1>3. low \in Strings /\ Len(low) = 1 /\ low[1] = u
  BY <1>1 DEF Strings
<1>4. high \in Strings /\ Len(high) = 2 /\ high[1] = u /\ high[2] = TAG_END
  <2> DEFINE s == <<TAG_END>>
  <2>1. s \in Strings /\ Len(s) = 1 /\ s[1] = TAG_END
    BY <1>1 DEF Strings
  <2> HIDE DEF s
  <2>2. QED
    BY <1>1, <2>1, InFront DEF s
<1> HIDE DEF k, low, high
<1>5. k[1] = t /\ k[2] \in Nat /\ k[2] < TAG_END
  <2>1. k[1] = t
    BY <1>2
  <2>2. CASE Len(e) = 1
    <3>1. k[2] = 0
      BY <1>2, <2>2
    <3>2. QED BY <1>1, <2>1, <3>1, Sizes
  <2>3. CASE Len(e) # 1
    <3> DEFINE n == Len(e)
    <3>0. n \in Nat /\ n >= 1 /\ n # 1
      BY <1>2, <2>3
    <3> HIDE DEF n
    <3>1. 2 \in 1 .. n /\ 2 \in 2 .. n
      BY <3>0
    <3>2. k[2] = e[2] /\ e[2] <= Base + 1
      BY <1>2, <3>1 DEF Code, n
    <3>3. e[2] \in Nat
      BY <3>1 DEF Code, Strings, n
    <3>4. QED BY <1>1, <2>1, <3>2, <3>3, Sizes
  <2>4. QED BY <2>2, <2>3
<1>6. Len(k) \in Nat /\ Len(k) >= 2
  BY <1>2
<1>7. Below(k, low) <=> t < u
  <2>1. t < u => AheadAt(k, low, 1)
    BY <1>1, <1>3, <1>5, <1>6 DEF AheadAt
  <2>2. \A n \in Nat : AheadAt(k, low, n) => t < u
    BY <1>1, <1>3, <1>5, <1>6 DEF AheadAt
  <2>3. QED BY <1>2, <1>3, <2>1, <2>2, BelowIs
<1>8. Below(k, high) <=> t <= u
  <2>1. t < u => AheadAt(k, high, 1)
    BY <1>1, <1>4, <1>5, <1>6 DEF AheadAt
  <2>2. t = u => AheadAt(k, high, 2)
    BY <1>1, <1>4, <1>5, <1>6 DEF AheadAt
  <2>3. ASSUME NEW n \in Nat, AheadAt(k, high, n) PROVE t <= u
    <3>1. n = 1 \/ n = 2
      BY <1>4, <2>3 DEF AheadAt
    <3>2. n = 1 => t < u
      BY <1>1, <1>4, <1>5, <1>6, <2>3 DEF AheadAt
    <3>3. n = 2 => t = u
      BY <1>1, <1>4, <1>5, <1>6, <2>3 DEF AheadAt
    <3>4. QED BY <1>1, <3>1, <3>2, <3>3
  <2>4. QED BY <1>1, <1>2, <1>4, <2>1, <2>2, <2>3, BelowIs
<1>9. QED
  BY <1>7, <1>8 DEF k, low, high

BeginsWith(k, p) == Len(k) >= Len(p) /\ SubSeq(k, 1, Len(p)) = p

(* A key begins with an encoded value and a separator only if it files     *)
(* that value.                                                             *)
LEMMA KeyPrefix ==
  ASSUME NEW t \in Nat, NEW u \in Nat, NEW e, NEW f, Code(e, t), Code(f, u),
         t >= 2, u >= 2, NEW d \in Strings
  PROVE  BeginsWith(e \o <<SEP>> \o d, f \o <<SEP>>) <=> e = f
<1> DEFINE k == e \o <<SEP>> \o d
           p == f \o <<SEP>>
<1>1. /\ k \in Strings /\ Len(k) = Len(e) + 1 + Len(d)
      /\ \A i \in 1 .. Len(e) : k[i] = e[i]
      /\ k[Len(e) + 1] = 0
  BY KeyIs DEF Code, SEP
<1>2. /\ p \in Strings /\ Len(p) = Len(f) + 1 /\ p[Len(f) + 1] = 0
      /\ \A i \in 1 .. Len(f) : p[i] = f[i]
  BY Behind DEF Code, SEP
<1>3. /\ e \in Strings /\ f \in Strings
      /\ Len(e) \in Nat /\ Len(f) \in Nat /\ Len(d) \in Nat
  BY DEF Code, Strings
<1>4. /\ \A i \in 1 .. Len(e) : e[i] \in Nat /\ e[i] >= 2
      /\ \A i \in 1 .. Len(f) : f[i] \in Nat /\ f[i] >= 2
  <2>1. \A s \in Strings : \A i \in 1 .. Len(s) : s[i] \in Nat /\ (i = 1 \/ i \in 2 .. Len(s))
    BY DEF Strings
  <2>2. QED BY <1>3, <2>1 DEF Code
<1> HIDE DEF k, p
<1>5. ASSUME Len(k) >= Len(p)
      PROVE  SubSeq(k, 1, Len(p)) = p <=> \A i \in 1 .. Len(p) : k[i] = p[i]
  <2> DEFINE s == SubSeq(k, 1, Len(p))
  <2>1. 1 \in Int /\ Len(p) \in Int /\ \A i \in 1 .. Len(p) : k[i] \in Nat
    <3>1. \A x \in Strings : Len(x) \in Nat /\ \A i \in 1 .. Len(x) : x[i] \in Nat
      BY DEF Strings
    <3>2. \A i \in 1 .. Len(k) : k[i] \in Nat
      BY <1>1, <3>1
    <3>3. QED BY <1>1, <1>2, <1>3, <1>5, <3>2
  <2>2. /\ s \in Seq(Nat) /\ Len(s) = IF 1 <= Len(p) THEN Len(p) - 1 + 1 ELSE 0
        /\ \A i \in 1 .. Len(p) - 1 + 1 : s[i] = k[1 + i - 1]
    BY <2>1, SubSeqProperties
  <2> HIDE DEF s
  <2>3. Len(s) = Len(p) /\ \A i \in 1 .. Len(p) : s[i] = k[i]
    BY <1>2, <1>3, <2>2
  <2>4. s = p <=> \A i \in 1 .. Len(p) : s[i] = p[i]
    BY <1>2, <2>2, <2>3, SeqEqual DEF Strings
  <2>5. QED BY <2>3, <2>4 DEF s
<1>6. ASSUME e = f PROVE Len(k) >= Len(p) /\ SubSeq(k, 1, Len(p)) = p
  <2>1. Len(k) >= Len(p)
    BY <1>1, <1>2, <1>3, <1>6
  <2>2. \A i \in 1 .. Len(p) : i \in 1 .. Len(f) \/ i = Len(f) + 1
    BY <1>2, <1>3
  <2>3. \A i \in 1 .. Len(p) : k[i] = p[i]
    BY <1>1, <1>2, <1>6, <2>2
  <2>4. QED BY <1>5, <2>1, <2>3
<1>7. ASSUME Len(k) >= Len(p), SubSeq(k, 1, Len(p)) = p PROVE e = f
  <2>1. \A i \in 1 .. Len(f) + 1 : k[i] = p[i]
    BY <1>2, <1>5, <1>7
  <2>2. ~(Len(e) < Len(f))
    <3> SUFFICES ASSUME Len(e) < Len(f) PROVE FALSE
      OBVIOUS
    <3>1. Len(e) + 1 \in 1 .. Len(f) /\ Len(e) + 1 \in 1 .. Len(f) + 1
      BY <1>3
    <3>2. k[Len(e) + 1] = f[Len(e) + 1] /\ f[Len(e) + 1] >= 2
      BY <1>2, <1>4, <2>1, <3>1
    <3>3. QED BY <1>1, <3>2
  <2>3. ~(Len(f) < Len(e))
    <3> SUFFICES ASSUME Len(f) < Len(e) PROVE FALSE
      OBVIOUS
    <3>1. Len(f) + 1 \in 1 .. Len(e) /\ Len(f) + 1 \in 1 .. Len(f) + 1
      BY <1>3
    <3>2. k[Len(f) + 1] = e[Len(f) + 1] /\ k[Len(f) + 1] = 0 /\ e[Len(f) + 1] >= 2
      BY <1>1, <1>2, <1>4, <2>1, <3>1
    <3>3. QED BY <3>2
  <2>4. Len(e) = Len(f)
    BY <1>3, <2>2, <2>3
  <2>5. \A i \in 1 .. Len(e) : e[i] = f[i]
    <3> SUFFICES ASSUME NEW i \in 1 .. Len(e) PROVE e[i] = f[i]
      OBVIOUS
    <3>1. i \in 1 .. Len(f) /\ i \in 1 .. Len(f) + 1
      BY <1>3, <2>4
    <3>2. QED BY <1>1, <1>2, <2>1, <3>1
  <2>6. QED BY <1>3, <2>4, <2>5, SeqEqual DEF Strings
<1>8. QED
  BY <1>6, <1>7 DEF BeginsWith, k, p

(* Keys of one type lie on one side of the bounds of another.              *)
LEMMA TagDecides ==
  ASSUME NEW t \in Nat, NEW u \in Nat, NEW e, NEW f, Code(e, t), Code(f, u),
         NEW d \in Strings, NEW c \in {SEP, AFTER_SEP}
  PROVE  LET k     == e \o <<SEP>> \o d
             bound == f \o <<c>>
         IN  /\ t < u => Below(k, bound)
             /\ u < t => ~Below(k, bound)
<1> DEFINE k     == e \o <<SEP>> \o d
           bound == f \o <<c>>
<1>1. /\ e \in Strings /\ Len(e) \in Nat /\ Len(e) >= 1 /\ e[1] = t
      /\ f \in Strings /\ Len(f) \in Nat /\ Len(f) >= 1 /\ f[1] = u
      /\ Len(d) \in Nat /\ c \in Nat
  BY DEF Code, Strings, SEP, AFTER_SEP
<1>2. k \in Strings /\ Len(k) = Len(e) + 1 + Len(d) /\ \A i \in 1 .. Len(e) : k[i] = e[i]
  BY <1>1, KeyIs
<1>3. /\ bound \in Strings /\ Len(bound) = Len(f) + 1
      /\ \A i \in 1 .. Len(f) : bound[i] = f[i]
  BY <1>1, Behind
<1> HIDE DEF k, bound
<1>4. k[1] = t /\ bound[1] = u /\ 1 \in 1 .. Len(k) /\ 1 \in 1 .. Len(bound)
  BY <1>1, <1>2, <1>3
<1>5. t < u => AheadAt(k, bound, 1)
  BY <1>4 DEF AheadAt
<1>6. u < t => AheadAt(bound, k, 1)
  BY <1>4 DEF AheadAt
<1>7. 1 \in Nat
  OBVIOUS
<1>8. t < u => Below(k, bound)
  BY <1>2, <1>3, <1>5, <1>7, BelowIs
<1>9. u < t => Below(bound, k)
  BY <1>2, <1>3, <1>6, <1>7, BelowIs
<1>10. Below(bound, k) => ~Below(k, bound)
  BY <1>2, <1>3, BelowOneWay
<1>11. QED
  BY <1>8, <1>9, <1>10 DEF k, bound

(* Which keys a search reads.                                              *)
Reads(k, op, v) ==
    LET enc == encode(v)
        tag == <<enc[1]>>
    IN  \/ op = "="  /\ BeginsWith(k, enc \o <<SEP>>)
        \/ op = ">"  /\ ~Below(k, enc \o <<AFTER_SEP>>) /\ Below(k, tag \o <<TAG_END>>)
        \/ op = ">=" /\ ~Below(k, enc \o <<SEP>>) /\ Below(k, tag \o <<TAG_END>>)
        \/ op = "<"  /\ ~Below(k, tag) /\ Below(k, enc \o <<SEP>>)
        \/ op = "<=" /\ ~Below(k, tag) /\ Below(k, enc \o <<AFTER_SEP>>)

LEMMA SearchReads ==
  ASSUME NEW op \in Ops, NEW v
  PROVE  index_candidate_keys(op, v)
             = {row_id_from_key(k) : k \in {x \in keys : Reads(x, op, v)}}
<1> DEFINE enc == encode(v)
           tag == <<enc[1]>>
           read == CASE op = "="  -> scan_prefix(enc \o <<SEP>>)
                     [] op = ">"  -> scan_range(enc \o <<AFTER_SEP>>, tag \o <<TAG_END>>)
                     [] op = ">=" -> scan_range(enc \o <<SEP>>, tag \o <<TAG_END>>)
                     [] op = "<"  -> scan_range(tag, enc \o <<SEP>>)
                     [] op = "<=" -> scan_range(tag, enc \o <<AFTER_SEP>>)
<1>1. index_candidate_keys(op, v) = {row_id_from_key(k) : k \in read}
  BY DEF index_candidate_keys
<1>2. read = {x \in keys : Reads(x, op, v)}
  <2>1. CASE op = "="
    <3>1. read = scan_prefix(enc \o <<SEP>>)
      BY <2>1
    <3>2. QED BY <2>1, <3>1 DEF Reads, BeginsWith, scan_prefix
  <2>2. CASE op = ">"
    <3>1. read = scan_range(enc \o <<AFTER_SEP>>, tag \o <<TAG_END>>)
      BY <2>2
    <3>2. QED BY <2>2, <3>1 DEF Reads, scan_range
  <2>3. CASE op = ">="
    <3>1. read = scan_range(enc \o <<SEP>>, tag \o <<TAG_END>>)
      BY <2>3
    <3>2. QED BY <2>3, <3>1 DEF Reads, scan_range
  <2>4. CASE op = "<"
    <3>1. read = scan_range(tag, enc \o <<SEP>>)
      BY <2>4
    <3>2. QED BY <2>4, <3>1 DEF Reads, scan_range
  <2>5. CASE op = "<="
    <3>1. read = scan_range(tag, enc \o <<AFTER_SEP>>)
      BY <2>5
    <3>2. QED BY <2>5, <3>1 DEF Reads, scan_range
  <2>6. QED BY <2>1, <2>2, <2>3, <2>4, <2>5 DEF Ops
<1> HIDE DEF read
<1>3. QED BY <1>1, <1>2

LEMMA TagsDiffer ==
  ASSUME NEW v \in Values, NEW w \in Values
  PROVE  Tag(v) = Tag(w) <=> v[1] = w[1]
<1>1. TagInt # TagText /\ TagInt # TagNull /\ TagText # TagNull
  BY Sizes DEF TagInt, TagText, TagNull
<1>2. \A x \in Values : \/ x[1] = "int" /\ Tag(x) = TagInt
                        \/ x[1] = "text" /\ Tag(x) = TagText
                        \/ x[1] = "null" /\ Tag(x) = TagNull
  BY ValuesAre DEF Tag
<1>3. QED BY <1>1, <1>2

(* A search reads the keys of the values that compare, and no others.      *)
THEOREM ReadsWhatCompares ==
  ASSUME NEW op \in Ops, NEW v \in Literals, NEW w \in Values, NEW id \in RowIds
  PROVE  Reads(index_entry_key(w, id), op, v) <=> Compares(w, op, v)
<1> DEFINE e == encode(w)
           f == encode(v)
           t == Tag(w)
           u == Tag(v)
           d == Digits(id, IdDigits)
           k == e \o <<SEP>> \o d
<1>1. v \in Values /\ v[1] \in {"int", "text"}
  BY DEF Values, Literals
<1>2. /\ Code(e, t) /\ t \in Base + 2 .. Base + 4
      /\ Code(f, u) /\ u \in Base + 2 .. Base + 4 /\ f[1] = u
  <2>1. Code(e, t) /\ t \in Base + 2 .. Base + 4
    BY EncodeIs
  <2>2. Code(f, u) /\ u \in Base + 2 .. Base + 4
    BY <1>1, EncodeIs
  <2>3. QED BY <2>1, <2>2 DEF Code
<1>3. d \in Strings
  <2>1. id \in Nat
    <3>1. Weight[IdDigits] \in Nat
      BY WeightIs, Sizes
    <3>2. QED BY <3>1, KeysAssumption
  <2>2. QED BY <2>1, Sizes, DigitsAre, CodesAreStrings
<1>4. t = u <=> w[1] = v[1]
  BY <1>1, TagsDiffer
<1>5. index_entry_key(w, id) = k
  BY DEF index_entry_key
<1>6. t \in Nat /\ u \in Nat /\ t >= 2 /\ u >= 2
  BY <1>2, Sizes
<1>7. w[1] = v[1] => /\ w = v \/ Less(w, v) \/ Less(v, w)
                     /\ Less(w, v) => w # v /\ ~Less(v, w)
                     /\ Less(v, w) => w # v
                     /\ Less(w, v) => Below(e, f)
                     /\ Less(v, w) => Below(f, e)
  <2> SUFFICES ASSUME w[1] = v[1]
               PROVE  /\ w = v \/ Less(w, v) \/ Less(v, w)
                      /\ Less(w, v) => w # v /\ ~Less(v, w)
                      /\ Less(v, w) => w # v
                      /\ Less(w, v) => Below(e, f)
                      /\ Less(v, w) => Below(f, e)
    OBVIOUS
  <2>1. w \in Literals
    <3>1. w # Null
      BY <1>1 DEF Null
    <3>2. QED BY <3>1 DEF Values
  <2>2. QED
    BY <2>1, LessTotal, EncodeOrder
<1>8. Compares(w, op, v) <=>
          /\ w[1] = v[1]
          /\ \/ op = "=" /\ w = v
             \/ op = "<" /\ Less(w, v)
             \/ op = "<=" /\ (Less(w, v) \/ w = v)
             \/ op = ">" /\ Less(v, w)
             \/ op = ">=" /\ (Less(v, w) \/ w = v)
  BY DEF Compares, Less, Ops
<1> HIDE DEF e, f, t, u, d, k
<1>9. e \in Strings /\ f \in Strings
  BY <1>2 DEF Code
<1>15. BeginsWith(k, f \o <<SEP>>) <=> e = f
  BY <1>2, <1>3, <1>6, KeyPrefix DEF k
<1>10. ASSUME NEW c \in {SEP, AFTER_SEP}, w[1] = v[1]
       PROVE  /\ Less(w, v) => Below(k, f \o <<c>>)
              /\ w = v /\ c = AFTER_SEP => Below(k, f \o <<c>>)
              /\ w = v /\ c = SEP => ~Below(k, f \o <<c>>)
              /\ Less(v, w) => ~Below(k, f \o <<c>>)
  <2> DEFINE bound == f \o <<c>>
  <2>1. Code(e, t) /\ Code(f, t)
    BY <1>2, <1>4, <1>10
  <2>2. /\ Below(e, f) => Below(k, bound)
        /\ e = f /\ c = AFTER_SEP => Below(k, bound)
        /\ e = f /\ c = SEP => ~Below(k, bound)
        /\ Below(f, e) => Below(bound, k)
    BY <1>3, <1>6, <2>1, KeyAgainstBound DEF k
  <2>3. bound \in Strings /\ k \in Strings
    <3>1. c \in Nat
      BY DEF SEP, AFTER_SEP
    <3>2. bound \in Strings
      BY <1>9, <3>1, Behind
    <3>3. k \in Strings
      BY <1>3, <1>9, KeyIs DEF k
    <3>4. QED BY <3>2, <3>3
  <2> HIDE DEF bound
  <2>4. Below(bound, k) => ~Below(k, bound)
    BY <2>3, BelowOneWay
  <2>5. w = v => e = f
    BY DEF e, f
  <2>6. QED
    BY <1>7, <1>10, <2>2, <2>4, <2>5 DEF bound
<1>11. /\ Below(k, <<u>>) <=> t < u
       /\ Below(k, <<u>> \o <<TAG_END>>) <=> t <= u
  BY <1>2, <1>3, KeyAgainstTag DEF k
<1>12. w[1] # v[1] => ~Reads(k, op, v)
  <2> SUFFICES ASSUME w[1] # v[1], Reads(k, op, v) PROVE FALSE
    OBVIOUS
  <2>1. t # u /\ e # f
    BY <1>2, <1>4 DEF Code
  <2>2. op # "="
    <3>1. ~BeginsWith(k, f \o <<SEP>>)
      BY <1>15, <2>1
    <3>2. QED BY <3>1 DEF Reads, f
  <2>3. CASE t < u
    <3>1. ~(op \in {"<", "<="})
      BY <1>2, <1>11, <2>3 DEF Reads, f
    <3>2. op \in {">", ">="}
      BY <2>2, <3>1 DEF Ops
    <3>3. \A c \in {SEP, AFTER_SEP} : Below(k, f \o <<c>>)
      <4> SUFFICES ASSUME NEW c \in {SEP, AFTER_SEP} PROVE Below(k, f \o <<c>>)
        OBVIOUS
      <4>1. Below(k, <<u>>)
        BY <1>11, <2>3
      <4>2. QED BY <1>2, <1>3, <1>6, <1>9, <2>3, <4>1, TagDecides DEF k
    <3>4. QED BY <3>2, <3>3 DEF Reads, f
  <2>4. CASE u < t
    <3>1. ~(op \in {">", ">="})
      BY <1>2, <1>6, <1>11, <2>4 DEF Reads, f
    <3>2. op \in {"<", "<="}
      BY <2>2, <3>1 DEF Ops
    <3>3. \A c \in {SEP, AFTER_SEP} : ~Below(k, f \o <<c>>)
      BY <1>2, <1>3, <1>6, <1>9, <2>4, TagDecides DEF k
    <3>4. QED BY <3>2, <3>3 DEF Reads, f
  <2>5. QED BY <1>6, <2>1, <2>3, <2>4
<1>13. w[1] = v[1] => (Reads(k, op, v) <=> Compares(w, op, v))
  <2> SUFFICES ASSUME w[1] = v[1] PROVE Reads(k, op, v) <=> Compares(w, op, v)
    OBVIOUS
  <2>1. ~Below(k, <<u>>) /\ Below(k, <<u>> \o <<TAG_END>>)
    BY <1>4, <1>6, <1>11
  <2>2. /\ Less(w, v) => Below(k, f \o <<SEP>>) /\ Below(k, f \o <<AFTER_SEP>>)
        /\ w = v => Below(k, f \o <<AFTER_SEP>>) /\ ~Below(k, f \o <<SEP>>)
        /\ Less(v, w) => ~Below(k, f \o <<SEP>>) /\ ~Below(k, f \o <<AFTER_SEP>>)
    BY <1>10
  <2>3. BeginsWith(k, f \o <<SEP>>) <=> w = v
    <3>1. BeginsWith(k, f \o <<SEP>>) <=> e = f
      BY <1>15
    <3>2. e = f => w = v
      BY <1>7, <1>9, BelowOneWay
    <3>3. w = v => e = f
      BY DEF e, f
    <3>4. QED BY <3>1, <3>2, <3>3
  <2>4. Reads(k, op, v) <=>
            \/ op = "="  /\ w = v
            \/ op = ">"  /\ ~Below(k, f \o <<AFTER_SEP>>)
            \/ op = ">=" /\ ~Below(k, f \o <<SEP>>)
            \/ op = "<"  /\ Below(k, f \o <<SEP>>)
            \/ op = "<=" /\ Below(k, f \o <<AFTER_SEP>>)
    <3>1. Reads(k, op, v) <=>
            \/ op = "="  /\ BeginsWith(k, f \o <<SEP>>)
            \/ op = ">"  /\ ~Below(k, f \o <<AFTER_SEP>>) /\ Below(k, <<u>> \o <<TAG_END>>)
            \/ op = ">=" /\ ~Below(k, f \o <<SEP>>) /\ Below(k, <<u>> \o <<TAG_END>>)
            \/ op = "<"  /\ ~Below(k, <<u>>) /\ Below(k, f \o <<SEP>>)
            \/ op = "<=" /\ ~Below(k, <<u>>) /\ Below(k, f \o <<AFTER_SEP>>)
      BY <1>2 DEF Reads, f
    <3>2. QED BY <2>1, <2>3, <3>1
  <2>5. QED
    BY <1>7, <1>8, <2>2, <2>4
<1>14. QED
  BY <1>5, <1>8, <1>12, <1>13

----------------------------------------------------------------------------
(* The rows behind the keys.                                               *)

LEMMA Ids ==
  ASSUME NEW id \in RowIds
  PROVE  id \in Nat /\ id < Weight[IdDigits] /\ Weight[IdDigits] \in Nat
<1>1. Weight[IdDigits] \in Nat
  BY WeightIs, Sizes
<1>2. QED BY <1>1, KeysAssumption

LEMMA DigitsTell ==
  ASSUME NEW k \in Nat, NEW m \in Nat, NEW n \in Nat, m < Weight[k], n < Weight[k],
         Digits(m, k) = Digits(n, k)
  PROVE  m = n
<1>1. Digits(m, k) \in Strings
  BY DigitsAre, CodesAreStrings
<1>2. ~Below(Digits(m, k), Digits(m, k))
  BY <1>1, BelowOneWay
<1>3. ~(m < n)
  BY <1>2, DigitsBelow
<1>4. ~(n < m)
  BY <1>2, DigitsBelow
<1>5. QED BY <1>3, <1>4

(* The separator stands once in a key, in front of the row id.             *)
THEOREM KeyNamesRow ==
  ASSUME NEW w \in Values, NEW id \in RowIds
  PROVE  row_id_from_key(index_entry_key(w, id)) = id
<1> DEFINE e == encode(w)
           d == Digits(id, IdDigits)
           k == e \o <<SEP>> \o d
           n == Len(e) + 1
<1>1. /\ e \in Strings /\ Len(e) \in Nat
      /\ \A i \in 1 .. Len(e) : e[i] \in Nat /\ e[i] >= 2
  <2>1. Code(e, Tag(w)) /\ Tag(w) \in Base + 2 .. Base + 4
    BY EncodeIs
  <2>2. Tag(w) \in Nat /\ Tag(w) >= 2
    BY <2>1, Sizes
  <2>3. \A s \in Strings : Len(s) \in Nat
           /\ \A i \in 1 .. Len(s) : s[i] \in Nat /\ (i = 1 \/ i \in 2 .. Len(s))
    BY DEF Strings
  <2> HIDE DEF e
  <2>4. e \in Strings
    BY <2>1 DEF Code
  <2>5. QED BY <2>1, <2>2, <2>3, <2>4 DEF Code
<1>2. /\ id \in Nat /\ id < Weight[IdDigits] /\ Weight[IdDigits] \in Nat
      /\ d \in Strings /\ Len(d) = IdDigits /\ IdDigits \in Nat
      /\ \A i \in 1 .. Len(d) : d[i] \in Nat /\ d[i] >= 2
  BY Ids, Sizes, DigitsAre, CodesAreStrings
<1> HIDE DEF e, d
<1>3. /\ k \in Strings /\ Len(k) = n + IdDigits
      /\ \A i \in 1 .. Len(e) : k[i] = e[i]
      /\ k[n] = SEP
      /\ \A i \in 1 .. IdDigits : k[n + i] = d[i]
  BY <1>1, <1>2, KeyIs
<1>4. index_entry_key(w, id) = k
  BY DEF index_entry_key, e, d
<1> HIDE DEF k
<1>5. n \in Nat /\ n >= 1 /\ DOMAIN k = 1 .. n + IdDigits
  BY <1>1, <1>3 DEF Strings
<1>6. \A i \in DOMAIN k : k[i] = SEP <=> i = n
  <2> SUFFICES ASSUME NEW i \in 1 .. n + IdDigits PROVE k[i] = SEP <=> i = n
    BY <1>5
  <2>1. CASE i < n
    <3>1. i \in 1 .. Len(e)
      BY <1>1, <2>1
    <3>2. k[i] = e[i] /\ e[i] \in Nat /\ e[i] >= 2
      BY <1>1, <1>3, <3>1
    <3>3. QED BY <1>5, <2>1, <3>2 DEF SEP
  <2>2. CASE i = n
    BY <1>3, <2>2
  <2>3. CASE i > n
    <3>1. i - n \in 1 .. IdDigits /\ n + (i - n) = i
      BY <1>2, <1>5, <2>3
    <3>2. k[i] = d[i - n] /\ d[i - n] \in Nat /\ d[i - n] >= 2
      BY <1>2, <1>3, <3>1
    <3>3. QED BY <1>5, <2>3, <3>2 DEF SEP
  <2>4. QED BY <1>2, <1>5, <2>1, <2>2, <2>3
<1>7. n \in DOMAIN k
  BY <1>2, <1>5
<1>8. (CHOOSE i \in DOMAIN k : k[i] = SEP) = n
  BY <1>6, <1>7
<1>9. SubSeq(k, n + 1, Len(k)) = d
  <2> DEFINE s == SubSeq(k, n + 1, Len(k))
  <2>1. n + 1 \in Int /\ Len(k) \in Int /\ \A i \in n + 1 .. Len(k) : k[i] \in Nat
    <3>1. \A x \in Strings : \A i \in 1 .. Len(x) : x[i] \in Nat
      BY DEF Strings
    <3> HIDE DEF n
    <3>2. \A i \in 1 .. Len(k) : k[i] \in Nat
      BY <1>3, <3>1
    <3>3. Len(k) \in Int /\ n + 1 \in Int /\ n >= 1 /\ n \in Nat
      BY <1>2, <1>3, <1>5
    <3>4. QED BY <3>2, <3>3
  <2>2. /\ s \in Seq(Nat) /\ Len(s) = IF n + 1 <= Len(k) THEN Len(k) - (n + 1) + 1 ELSE 0
        /\ \A i \in 1 .. Len(k) - (n + 1) + 1 : s[i] = k[(n + 1) + i - 1]
    BY <2>1, SubSeqProperties
  <2> HIDE DEF s, n
  <2>3. Len(s) = IdDigits /\ Len(k) - (n + 1) + 1 = IdDigits
    BY <1>2, <1>3, <1>5, <2>2
  <2>4. \A i \in 1 .. IdDigits : s[i] = d[i]
    <3> SUFFICES ASSUME NEW i \in 1 .. IdDigits PROVE s[i] = d[i]
      OBVIOUS
    <3>1. (n + 1) + i - 1 = n + i
      BY <1>2, <1>5
    <3>2. QED BY <1>3, <2>2, <2>3, <3>1
  <2>5. s = d
    BY <1>2, <2>2, <2>3, <2>4, SeqEqual DEF Strings
  <2>6. QED BY <2>5 DEF s
<1>10. Len(k) - n = IdDigits
  BY <1>2, <1>3, <1>5
<1>11. row_id_from_key(k) = CHOOSE x \in 0 .. Weight[IdDigits] - 1 : d = Digits(x, IdDigits)
  <2> HIDE DEF n
  <2>1. QED BY <1>8, <1>9, <1>10, Zenon DEF row_id_from_key
<1>12. id \in 0 .. Weight[IdDigits] - 1 /\ d = Digits(id, IdDigits)
  BY <1>2 DEF d
<1>13. \A x \in 0 .. Weight[IdDigits] - 1 : d = Digits(x, IdDigits) => x = id
  <2> SUFFICES ASSUME NEW x \in 0 .. Weight[IdDigits] - 1, d = Digits(x, IdDigits)
               PROVE  x = id
    OBVIOUS
  <2>1. x \in Nat /\ x < Weight[IdDigits]
    BY <1>2
  <2>2. QED
    BY <1>2, <1>12, <2>1, DigitsTell
<1>14. QED
  BY <1>4, <1>11, <1>12, <1>13

----------------------------------------------------------------------------
(* The index, call by call.                                                *)

FiledRows == {id \in RowIds : value[id] # NoRow}

(* The keys are those of the rows that are there, under their values.      *)
KeysInv == /\ value \in [RowIds -> Values \cup {NoRow}]
           /\ keys = {index_entry_key(value[id], id) : id \in FiledRows}
           /\ FindsExactly

LEMMA NoRowIs == NoRow \notin Values /\ \A op, v : v \in Literals => ~Compares(NoRow, op, v)
<1>1. NoRow[1] = "none"
  BY DEF NoRow
<1>2. NoRow \notin Values
  BY <1>1, ValuesAre
<1>3. \A v \in Literals : v[1] \in {"int", "text"}
  BY DEF Literals
<1>4. QED
  BY <1>1, <1>2, <1>3 DEF Compares

LEMMA FiledValues ==
  ASSUME KeysInv, NEW id \in FiledRows
  PROVE  id \in RowIds /\ value[id] \in Values
  BY NoRowIs DEF KeysInv, FiledRows

LEMMA KeysDiffer ==
  ASSUME NEW v \in Values, NEW w \in Values, NEW i \in RowIds, NEW j \in RowIds,
         index_entry_key(v, i) = index_entry_key(w, j)
  PROVE  i = j
  BY KeyNamesRow

(* A search right after its question.                                      *)
LEMMA SearchExact ==
  ASSUME KeysInv, NEW op \in Ops, NEW v \in Literals
  PROVE  index_candidate_keys(op, v) = {id \in RowIds : Compares(value[id], op, v)}
<1> DEFINE K(id) == index_entry_key(value[id], id)
<1>1. keys = {K(id) : id \in FiledRows}
  BY DEF KeysInv
<1>2. \A id \in FiledRows : /\ id \in RowIds /\ row_id_from_key(K(id)) = id
                            /\ Reads(K(id), op, v) <=> Compares(value[id], op, v)
  BY FiledValues, KeyNamesRow, ReadsWhatCompares
<1>3. \A id \in RowIds : Compares(value[id], op, v) => id \in FiledRows
  BY NoRowIs DEF FiledRows
<1> HIDE DEF K
<1>4. index_candidate_keys(op, v)
          = {row_id_from_key(k) : k \in {x \in keys : Reads(x, op, v)}}
  BY SearchReads
<1>5. {row_id_from_key(k) : k \in {x \in keys : Reads(x, op, v)}}
          = {id \in RowIds : Compares(value[id], op, v)}
  BY <1>1, <1>2, <1>3
<1>6. QED BY <1>4, <1>5

LEMMA KeysStep == KeysInv /\ [Next]_vars => KeysInv'
<1> SUFFICES ASSUME KeysInv, [Next]_vars PROVE KeysInv'
  OBVIOUS
<1> DEFINE K(id) == index_entry_key(value[id], id)
<1>1. /\ value \in [RowIds -> Values \cup {NoRow}]
      /\ keys = {K(id) : id \in FiledRows}
      /\ \A id \in FiledRows : id \in RowIds /\ value[id] \in Values
  BY FiledValues DEF KeysInv
<1>2. ASSUME found' = NotAsked PROVE FindsExactly'
  BY <1>2 DEF FindsExactly
<1>3. ASSUME NEW id \in RowIds, NEW v \in Values, put_index_entries(id, v) PROVE KeysInv'
  <2>1. /\ value[id] = NoRow /\ value' = [value EXCEPT ![id] = v]
        /\ keys' = keys \cup {index_entry_key(v, id)} /\ found' = NotAsked
    BY <1>3 DEF put_index_entries
  <2>2. FiledRows' = FiledRows \cup {id} /\ id \notin FiledRows
    BY <1>1, <2>1, NoRowIs DEF FiledRows
  <2>3. value'[id] = v /\ \A i \in FiledRows : value'[i] = value[i]
    BY <1>1, <2>1, <2>2
  <2>4. keys' = {index_entry_key(value'[i], i) : i \in FiledRows'}
    BY <1>1, <2>1, <2>2, <2>3
  <2>5. QED
    BY <1>1, <1>2, <2>1, <2>4 DEF KeysInv
<1>4. ASSUME NEW id \in RowIds, delete_index_entries(id) PROVE KeysInv'
  <2>1. /\ value[id] # NoRow /\ value' = [value EXCEPT ![id] = NoRow]
        /\ keys' = keys \ {K(id)} /\ found' = NotAsked
    BY <1>4 DEF delete_index_entries
  <2>2. FiledRows' = FiledRows \ {id} /\ id \in FiledRows
    BY <1>1, <2>1 DEF FiledRows
  <2>3. \A i \in FiledRows' : value'[i] = value[i]
    BY <1>1, <2>1, <2>2
  <2>4. \A i \in FiledRows : K(i) = K(id) => i = id
    BY <1>1, <2>2, KeysDiffer
  <2>5. keys' = {index_entry_key(value'[i], i) : i \in FiledRows'}
    <3>1. \A i \in FiledRows' : index_entry_key(value'[i], i) = K(i)
      BY <2>3
    <3> HIDE DEF K
    <3>2. QED BY <1>1, <2>1, <2>2, <2>4, <3>1
  <2>6. value' \in [RowIds -> Values \cup {NoRow}]
    BY <1>1, <2>1
  <2>7. QED
    BY <1>2, <2>1, <2>5, <2>6 DEF KeysInv
<1>5. ASSUME NEW id \in RowIds, NEW v \in Values, reindex_row(id, v) PROVE KeysInv'
  <2>1. /\ value[id] # NoRow /\ value' = [value EXCEPT ![id] = v] /\ found' = NotAsked
        /\ keys' = IF encode(value[id]) = encode(v) THEN keys
                   ELSE (keys \ {K(id)}) \cup {index_entry_key(v, id)}
    BY <1>5 DEF reindex_row
  <2>2. FiledRows' = FiledRows /\ id \in FiledRows
    BY <1>1, <2>1, NoRowIs DEF FiledRows
  <2>3. value'[id] = v /\ \A i \in FiledRows : i # id => value'[i] = value[i]
    BY <1>1, <2>1, <2>2
  <2>4. \A i \in FiledRows : K(i) = K(id) => i = id
    BY <1>1, <2>2, KeysDiffer
  <2>5. encode(value[id]) = encode(v) => K(id) = index_entry_key(v, id)
    BY DEF index_entry_key
  <2>6. keys' = (keys \ {K(id)}) \cup {index_entry_key(v, id)}
    <3> HIDE DEF K
    <3>1. K(id) \in keys
      BY <1>1, <2>2
    <3>2. QED BY <2>1, <2>5, <3>1
  <2>7. keys' = {index_entry_key(value'[i], i) : i \in FiledRows'}
    <3> DEFINE L(i) == index_entry_key(value'[i], i)
    <3>1. L(id) = index_entry_key(v, id) /\ \A i \in FiledRows : i # id => L(i) = K(i)
      BY <2>3
    <3> HIDE DEF K, L
    <3>2. keys' = {L(i) : i \in FiledRows}
      BY <1>1, <2>2, <2>4, <2>6, <3>1
    <3>3. QED BY <2>2, <3>2 DEF L
  <2>8. value' \in [RowIds -> Values \cup {NoRow}]
    BY <1>1, <2>1
  <2>9. QED
    BY <1>2, <2>1, <2>7, <2>8 DEF KeysInv
<1>6. ASSUME NEW op \in Ops, NEW v \in Literals, Find(op, v) PROVE KeysInv'
  <2>1. /\ found' = [op |-> op, literal |-> v, ids |-> index_candidate_keys(op, v)]
        /\ value' = value /\ keys' = keys
    BY <1>6 DEF Find
  <2>2. found'.ids = {id \in RowIds : Compares(value[id], op, v)}
        /\ found'.op = op /\ found'.literal = v
    BY <2>1, SearchExact
  <2>3. FindsExactly'
    BY <2>1, <2>2 DEF FindsExactly
  <2>4. QED
    BY <1>1, <2>1, <2>3 DEF KeysInv, FiledRows
<1>7. CASE UNCHANGED vars
  BY <1>7 DEF vars, KeysInv, FiledRows, FindsExactly
<1>8. QED
  BY <1>3, <1>4, <1>5, <1>6, <1>7 DEF Next

LEMMA KeysInitially == Init => KeysInv
<1> SUFFICES ASSUME Init PROVE KeysInv
  OBVIOUS
<1>1. FiledRows = {}
  BY DEF Init, FiledRows
<1>2. QED
  BY <1>1 DEF Init, KeysInv, FindsExactly

(* A search of the index always finds the rows whose value compares and no *)
(* others, for integers of any width and strings of any length             *)
(* (index_candidate_keys, executor/mod.rs:766-796).                        *)
THEOREM SearchesExact == Spec => []FindsExactly
<1>1. KeysInv => FindsExactly
  BY DEF KeysInv
<1>2. QED
  BY <1>1, KeysInitially, KeysStep, PTL DEF Spec

LEMMA KeysTell == KeysInv => KeysTellRows
<1> SUFFICES ASSUME KeysInv PROVE KeysTellRows
  OBVIOUS
<1> DEFINE f == [id \in FiledRows |-> index_entry_key(value[id], id)]
<1>1. /\ keys = {f[id] : id \in FiledRows}
      /\ \A id \in FiledRows : id \in RowIds /\ value[id] \in Values
  BY FiledValues DEF KeysInv
<1>2. \A id \in FiledRows : row_id_from_key(f[id]) = id
  BY <1>1, KeyNamesRow
<1>3. f \in [FiledRows -> keys]
  BY <1>1
<1> HIDE DEF f
<1>4. {row_id_from_key(k) : k \in keys} = FiledRows
  BY <1>1, <1>2
<1>5. \A i, j \in FiledRows : f[i] = f[j] => i = j
  BY <1>2
<1>6. f \in Bijection(FiledRows, keys)
  <2>1. \A k \in keys : \E id \in FiledRows : f[id] = k
    BY <1>1
  <2>2. QED BY <1>3, <1>5, <2>1, Fun_IsBij
<1>7. IsFiniteSet(FiledRows)
  <2>1. Weight[IdDigits] \in Nat
    BY WeightIs, Sizes
  <2>2. IsFiniteSet(0 .. Weight[IdDigits] - 1)
    BY <2>1, FS_Interval
  <2>3. FiledRows \subseteq 0 .. Weight[IdDigits] - 1
    BY KeysAssumption DEF FiledRows
  <2>4. QED BY <2>2, <2>3, FS_Subset
<1>8. Cardinality(keys) = Cardinality(FiledRows)
  <2>1. ExistsBijection(FiledRows, keys)
    BY <1>6 DEF ExistsBijection
  <2>2. QED BY <1>7, <2>1, FS_Bijection
<1>9. QED
  BY <1>4, <1>8 DEF KeysTellRows, FiledRows

(* Every row has one key and every key names its row, through inserts,     *)
(* updates and deletes (index_entry_key and row_id_from_key,               *)
(* executor/mod.rs:940-984).                                               *)
THEOREM RowsTold == Spec => []KeysTellRows
<1>1. KeysInv => KeysTellRows
  BY KeysTell
<1>2. QED
  BY <1>1, KeysInitially, KeysStep, PTL DEF Spec

==============================================================================
