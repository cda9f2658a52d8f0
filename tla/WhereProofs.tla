---------------------------- MODULE WhereProofs ----------------------------
(***************************************************************************)
(* What holds of a WHERE clause for every table, row and expression: how   *)
(* the two recursive functions over expressions compute, and that the rows *)
(* an index is asked for include all those the expression selects.         *)
(***************************************************************************)
EXTENDS Where, Ranks, FiniteSetTheorems, SequenceTheorems, TLAPS

----------------------------------------------------------------------------
(* The two functions over expressions.                                     *)

LEMMA Subexpressions ==
  ASSUME NEW e \in Exprs
  PROVE  /\ e.kind = "cmp" \/ e.kind = "and" \/ e.kind = "or"
         /\ Depth[e] \in Nat
         /\ e.kind # "cmp" => /\ e.left \in Exprs /\ e.right \in Exprs
                              /\ Depth[e.left] < Depth[e]
                              /\ Depth[e.right] < Depth[e]
  BY WhereAssumption

LEMMA EvalExpr ==
  ASSUME NEW row, NEW e \in Exprs
  PROVE  /\ eval_expr(e, row) \in BOOLEAN
         /\ e.kind = "cmp" =>
                (eval_expr(e, row) <=> compare(Lookup(row, e.column), e.op, e.value))
         /\ e.kind = "and" =>
                (eval_expr(e, row) <=> eval_expr(e.left, row) /\ eval_expr(e.right, row))
         /\ e.kind = "or" =>
                (eval_expr(e, row) <=> eval_expr(e.left, row) \/ eval_expr(e.right, row))
<1> DEFINE Cmp(x)     == compare(Lookup(row, x.column), x.op, x.value)
           Body(h, x) == \/ x.kind = "cmp" /\ Cmp(x)
                         \/ x.kind = "and" /\ h[x.left] /\ h[x.right]
                         \/ x.kind = "or"  /\ (h[x.left] \/ h[x.right])
           step == [p \in Exprs \X [Exprs -> BOOLEAN] |-> Body(p[2], p[1])]
           rank == [x \in Exprs |-> Depth[x]]
           H    == CHOOSE h : h = [x \in Exprs |-> Body(h, x)]
<1>1. rank \in [Exprs -> Nat]
  BY Subexpressions
<1>2. \A x : Cmp(x) \in BOOLEAN
  BY DEF compare
<1> HIDE DEF Cmp
<1>3. \A h, x : x \in Exprs => Body(h, x) \in BOOLEAN
  BY <1>2, Subexpressions
<1>4. step \in [Exprs \X [Exprs -> BOOLEAN] -> BOOLEAN]
  BY <1>3
<1>5. ASSUME NEW x \in Exprs, NEW f \in [Exprs -> BOOLEAN], NEW g \in [Exprs -> BOOLEAN],
             \A y \in Exprs : rank[y] < rank[x] => f[y] = g[y]
      PROVE  step[<<x, f>>] = step[<<x, g>>]
  <2>1. x.kind # "cmp" => f[x.left] = g[x.left] /\ f[x.right] = g[x.right]
    BY <1>5, Subexpressions
  <2>2. Body(f, x) = Body(g, x)
    BY <2>1, Subexpressions
  <2>3. QED
    BY <2>2
<1>6. \E f \in [Exprs -> BOOLEAN] : \A x \in Exprs : f[x] = step[<<x, f>>]
  <2> DEFINE V == BOOLEAN
  <2>1. V # {} /\ step \in [Exprs \X [Exprs -> V] -> V]
    BY <1>4
  <2>2. Recursive(Exprs, V, rank, step)
    <3> HIDE DEF step, rank
    <3>1. QED BY <1>1, <1>5, <2>1 DEF Recursive
  <2> HIDE DEF step, rank, V
  <2>3. \E f \in [Exprs -> V] : \A x \in Exprs : f[x] = step[<<x, f>>]
    BY <2>1, <2>2, Recursion
  <2>4. QED
    BY <2>3 DEF V
<1>7. PICK f \in [Exprs -> BOOLEAN] : f = [x \in Exprs |-> Body(f, x)]
  <2>1. PICK f \in [Exprs -> BOOLEAN] : \A x \in Exprs : f[x] = step[<<x, f>>]
    BY <1>6
  <2>2. \A x \in Exprs : f[x] = Body(f, x)
    BY <2>1
  <2> HIDE DEF Body
  <2>3. QED
    BY <2>2
<1>8. H = [x \in Exprs |-> Body(H, x)]
  <2> HIDE DEF Body
  <2>1. QED BY <1>7
<1>9. \A x \in Exprs : eval_expr(x, row) = H[x]
  BY Zenon DEF eval_expr, Cmp
<1>10. \A x \in Exprs : H[x] = Body(H, x)
  <2> HIDE DEF Body, H
  <2>1. QED BY <1>8
<1> HIDE DEF H
<1>11. \A x \in Exprs : H[x] \in BOOLEAN
  <2> HIDE DEF Body
  <2>1. QED BY <1>3, <1>10
<1>12. QED
  BY <1>9, <1>10, <1>11, Subexpressions DEF Cmp

LEMMA Conjuncts ==
  ASSUME NEW e \in Exprs
  PROVE  /\ conjuncts[e] \in Seq(Exprs)
         /\ e.kind = "cmp" => conjuncts[e] = <<e>>
         /\ e.kind = "and" => conjuncts[e] = conjuncts[e.left] \o conjuncts[e.right]
         /\ e.kind = "or"  => conjuncts[e] = <<>>
<1> DEFINE V == Seq(Exprs)
           Body(h, x) == IF x.kind = "cmp" THEN <<x>>
                         ELSE IF x.kind = "and" THEN h[x.left] \o h[x.right]
                         ELSE <<>>
           step == [p \in Exprs \X [Exprs -> V] |-> Body(p[2], p[1])]
           rank == [x \in Exprs |-> Depth[x]]
           H    == CHOOSE h : h = [x \in Exprs |-> Body(h, x)]
<1>1. rank \in [Exprs -> Nat]
  BY Subexpressions
<1>2. \A x \in Exprs, h \in [Exprs -> V] : Body(h, x) \in V
  BY Subexpressions
<1>3. step \in [Exprs \X [Exprs -> V] -> V]
  BY <1>2
<1>4. ASSUME NEW x \in Exprs, NEW f \in [Exprs -> V], NEW g \in [Exprs -> V],
             \A y \in Exprs : rank[y] < rank[x] => f[y] = g[y]
      PROVE  step[<<x, f>>] = step[<<x, g>>]
  <2>1. x.kind # "cmp" => f[x.left] = g[x.left] /\ f[x.right] = g[x.right]
    BY <1>4, Subexpressions
  <2>2. Body(f, x) = Body(g, x)
    BY <2>1, Subexpressions
  <2>3. QED
    BY <2>2
<1>5. \E f \in [Exprs -> V] : \A x \in Exprs : f[x] = step[<<x, f>>]
  <2> HIDE DEF step, rank, V
  <2>1. Recursive(Exprs, V, rank, step)
    BY <1>1, <1>3, <1>4 DEF Recursive
  <2>2. V # {}
    <3>1. <<>> \in Seq(Exprs)
      OBVIOUS
    <3>2. QED BY <3>1 DEF V
  <2>3. QED
    BY <2>1, <2>2, Recursion
<1>6. PICK f \in [Exprs -> V] : f = [x \in Exprs |-> Body(f, x)]
  <2>1. PICK f \in [Exprs -> V] : \A x \in Exprs : f[x] = step[<<x, f>>]
    BY <1>5
  <2>2. \A x \in Exprs : f[x] = Body(f, x)
    BY <2>1
  <2> HIDE DEF Body
  <2>3. QED
    BY <2>2
<1>7. H = [x \in Exprs |-> Body(H, x)]
  <2> HIDE DEF Body
  <2>1. QED BY <1>6
<1>8. \A x \in Exprs : conjuncts[x] = H[x]
  BY Zenon DEF conjuncts
<1>9. \A x \in Exprs : H[x] = Body(H, x)
  <2> HIDE DEF Body, H
  <2>1. QED BY <1>7
<1> HIDE DEF H
<1>10. e.kind = "cmp" => conjuncts[e] = <<e>>
  BY <1>8, <1>9
<1>11. e.kind = "and" => conjuncts[e] = conjuncts[e.left] \o conjuncts[e.right]
  BY <1>8, <1>9, Subexpressions
<1>12. e.kind = "or" => conjuncts[e] = <<>>
  BY <1>8, <1>9
<1>13. \A x \in Exprs : H[x] \in V
  <2> DEFINE Bad == {x \in Exprs : H[x] \notin V}
  <2>1. SUFFICES ASSUME Bad # {} PROVE FALSE
    OBVIOUS
  <2>2. PICK x \in Bad : \A y \in Bad : rank[x] <= rank[y]
    <3>1. Bad \in SUBSET Exprs
      OBVIOUS
    <3> HIDE DEF Bad, rank
    <3>2. QED BY <1>1, <2>1, <3>1, LeastRank
  <2>3. x \in Exprs /\ H[x] \notin V
    OBVIOUS
  <2>4. \A y \in Exprs : rank[y] < rank[x] => H[y] \in V
    <3>1. \A y \in Exprs : rank[y] \in Nat
      BY <1>1
    <3> HIDE DEF rank, V
    <3>2. QED BY <2>2, <2>3, <3>1
  <2>5. x.kind # "cmp" => H[x.left] \in V /\ H[x.right] \in V
    BY <2>3, <2>4, Subexpressions
  <2>6. Body(H, x) \in V
    BY <2>3, <2>5
  <2>7. QED
    BY <1>9, <2>3, <2>6
<1>14. QED
  BY <1>8, <1>10, <1>11, <1>12, <1>13

(* The conjuncts of an expression are comparisons, and where it holds they *)
(* all hold.                                                               *)
THEOREM ConjunctsHold ==
  ASSUME NEW row, NEW e \in Exprs, NEW i \in DOMAIN conjuncts[e]
  PROVE  /\ conjuncts[e][i] \in Exprs
         /\ conjuncts[e][i].kind = "cmp"
         /\ eval_expr(e, row) => eval_expr(conjuncts[e][i], row)
<1> DEFINE Held(x, c) == c \in Exprs /\ c.kind = "cmp" /\ (eval_expr(x, row) => eval_expr(c, row))
           Good(x) == \A k \in DOMAIN conjuncts[x] : Held(x, conjuncts[x][k])
           Bad == {x \in Exprs : ~Good(x)}
           rank == [x \in Exprs |-> Depth[x]]
<1>1. SUFFICES ASSUME Bad # {} PROVE FALSE
  OBVIOUS
<1>2. rank \in [Exprs -> Nat]
  BY Subexpressions
<1>3. PICK x \in Bad : \A y \in Bad : rank[x] <= rank[y]
  <2>1. Bad \in SUBSET Exprs
    OBVIOUS
  <2> HIDE DEF Bad, rank
  <2>2. QED BY <1>1, <1>2, <2>1, LeastRank
<1>4. x \in Exprs /\ ~Good(x)
  OBVIOUS
<1>5. \A y \in Exprs : rank[y] < rank[x] => Good(y)
  <2>1. \A y \in Exprs : rank[y] \in Nat
    BY <1>2
  <2>2. \A y \in Exprs : y \notin Bad => Good(y)
    OBVIOUS
  <2> HIDE DEF Good, Bad, rank
  <2>3. QED
    BY <1>3, <1>4, <2>1, <2>2
<1>6. x.kind # "cmp" => Good(x.left) /\ Good(x.right)
  <2> HIDE DEF Good
  <2>1. QED BY <1>4, <1>5, Subexpressions
<1>7. CASE x.kind = "cmp"
  <2>1. conjuncts[x] = <<x>>
    BY <1>4, <1>7, Conjuncts
  <2>2. \A k \in DOMAIN <<x>> : <<x>>[k] = x
    OBVIOUS
  <2>3. Good(x)
    BY <1>4, <1>7, <2>1, <2>2
  <2>4. QED
    BY <1>4, <2>3
<1>8. CASE x.kind = "and"
  <2>1. SUFFICES ASSUME NEW k \in DOMAIN conjuncts[x]
                 PROVE  Held(x, conjuncts[x][k])
    BY <1>4
  <2>2. eval_expr(x, row) => eval_expr(x.left, row) /\ eval_expr(x.right, row)
    BY <1>4, <1>8, EvalExpr
  <2> DEFINE l == conjuncts[x.left]
             r == conjuncts[x.right]
  <2>3. l \in Seq(Exprs) /\ r \in Seq(Exprs) /\ conjuncts[x] = l \o r
    BY <1>4, <1>8, Conjuncts, Subexpressions
  <2>4. (\A n \in DOMAIN l : Held(x, l[n])) /\ (\A n \in DOMAIN r : Held(x, r[n]))
    BY <1>6, <1>8, <2>2
  <2> HIDE DEF l, r, Held
  <2>5. k \in 1 .. Len(l) + Len(r)
    BY <2>1, <2>3
  <2>6. CASE k \in 1 .. Len(l)
    <3>1. k \in DOMAIN l /\ conjuncts[x][k] = l[k]
      BY <2>3, <2>6
    <3>2. QED BY <2>4, <3>1
  <2>7. CASE k \notin 1 .. Len(l)
    <3>1. k - Len(l) \in DOMAIN r /\ conjuncts[x][k] = r[k - Len(l)]
      BY <2>3, <2>5, <2>7
    <3>2. QED BY <2>4, <3>1
  <2>8. QED
    BY <2>6, <2>7
<1>9. CASE x.kind = "or"
  <2>1. conjuncts[x] = <<>>
    BY <1>4, <1>9, Conjuncts
  <2>2. \A k \in DOMAIN <<>> : FALSE
    OBVIOUS
  <2>3. Good(x)
    BY <2>1, <2>2
  <2>4. QED
    BY <1>4, <2>3
<1>10. QED
  BY <1>4, <1>7, <1>8, <1>9, Subexpressions

----------------------------------------------------------------------------
(* The plan.                                                               *)

(* The lookup is one of the conjuncts, on an indexed column.               *)
LEMMA ChosenIndex ==
  ASSUME NEW indexed, NEW e \in Exprs, choose_index(indexed, e) # NoIndex
  PROVE  \E i \in DOMAIN conjuncts[e] :
             /\ conjuncts[e][i].column \in indexed /\ conjuncts[e][i].value # Null
             /\ choose_index(indexed, e) = [column |-> conjuncts[e][i].column,
                                            op |-> conjuncts[e][i].op,
                                            value |-> conjuncts[e][i].value]
<1> DEFINE parts      == conjuncts[e]
           usable     == {i \in DOMAIN parts : /\ parts[i].op # "!="
                                               /\ parts[i].value # Null
                                               /\ parts[i].column \in indexed}
           equalities == {i \in usable : parts[i].op = "="}
           Answers(i) == [column |-> parts[i].column, op |-> parts[i].op,
                          value |-> parts[i].value]
<1>1. DOMAIN parts \in SUBSET Nat
  <2>1. parts \in Seq(Exprs)
    BY Conjuncts
  <2> HIDE DEF parts
  <2>2. DOMAIN parts = 1 .. Len(parts) /\ Len(parts) \in Nat
    BY <2>1
  <2>3. QED
    BY <2>2
<1>2. ASSUME NEW S \in SUBSET (DOMAIN parts), S # {} PROVE Min(S) \in S
  <2>1. \E x \in S : \A y \in S : x <= y
    <3> HIDE DEF parts
    <3>1. QED BY <1>1, <1>2, LeastNat
  <2>2. QED
    BY <2>1 DEF Min
<1>3. equalities \in SUBSET (DOMAIN parts) /\ usable \in SUBSET (DOMAIN parts)
  OBVIOUS
<1>4. choose_index(indexed, e) = IF equalities # {} THEN Answers(Min(equalities))
                                 ELSE IF usable # {} THEN Answers(Min(usable)) ELSE NoIndex
  BY DEF choose_index
<1>5. \A i \in usable : /\ i \in DOMAIN parts /\ parts[i].column \in indexed
                        /\ parts[i].value # Null
  OBVIOUS
<1>6. equalities \subseteq usable
  OBVIOUS
<1> HIDE DEF usable, equalities, parts
<1>7. CASE equalities # {}
  <2>1. Min(equalities) \in usable
    BY <1>2, <1>3, <1>6, <1>7
  <2>2. QED
    BY <1>4, <1>5, <1>7, <2>1 DEF parts
<1>8. CASE equalities = {}
  <2>1. usable # {}
    BY <1>4, <1>8
  <2>2. Min(usable) \in usable
    BY <1>2, <1>3, <2>1
  <2>3. QED
    BY <1>4, <1>5, <1>8, <2>1, <2>2 DEF parts
<1>9. QED
  BY <1>7, <1>8

(* Entries that file every row under each indexed column lead a scan to    *)
(* all rows the WHERE selects.                                             *)
THEOREM ScanFindsAll ==
  ASSUME NEW ids, NEW entries, NEW indexed \in SUBSET Columns, NEW rows,
         NEW where \in Exprs \cup {NoWhere},
         \A c \in indexed, i \in ids :
             [column |-> c, value |-> Filed(rows[i][c]), id |-> i] \in entries
  PROVE  /\ scan_rows(ids, entries, indexed, where) \subseteq ids
         /\ \A i \in ids : Matches(where, rows[i])
                              => i \in scan_rows(ids, entries, indexed, where)
<1> DEFINE lookup == IF where = NoWhere THEN NoIndex ELSE choose_index(indexed, where)
<1>1. scan_rows(ids, entries, indexed, where) =
        IF lookup = NoIndex THEN ids ELSE index_candidate_keys(entries, lookup) \cap ids
  BY DEF scan_rows
<1>2. SUFFICES ASSUME NEW i \in ids, Matches(where, rows[i]), lookup # NoIndex
               PROVE  i \in index_candidate_keys(entries, lookup)
  BY <1>1
<1>3. where \in Exprs /\ where # NoWhere /\ lookup = choose_index(indexed, where)
  BY <1>2
<1> HIDE DEF lookup
<1>4. eval_expr(where, rows[i])
  BY <1>2, <1>3 DEF Matches
<1>5. PICK k \in DOMAIN conjuncts[where] :
         /\ conjuncts[where][k].column \in indexed
         /\ lookup = [column |-> conjuncts[where][k].column,
                      op |-> conjuncts[where][k].op,
                      value |-> conjuncts[where][k].value]
  BY <1>2, <1>3, ChosenIndex
<1> DEFINE c == conjuncts[where][k]
           v == rows[i][c.column]
           entry == [column |-> c.column, value |-> Filed(v), id |-> i]
<1>6. c \in Exprs /\ c.kind = "cmp" /\ eval_expr(c, rows[i])
  BY <1>3, <1>4, ConjunctsHold
<1> HIDE DEF c
<1>7. compare(v, c.op, c.value)
  BY <1>5, <1>6, EvalExpr DEF Lookup, c
<1>8. Filed(v) = v
  BY <1>7 DEF compare, Filed, Missing
<1>9. entry \in entries /\ entry.column = lookup.column /\ entry.id = i
      /\ entry.value[1] = lookup.value[1]
      /\ Ordered(lookup.op, entry.value[2], lookup.value[2])
  BY <1>5, <1>7, <1>8 DEF compare, c
<1>10. QED
  BY <1>9 DEF index_candidate_keys

----------------------------------------------------------------------------
(* Rows in order.                                                          *)

(* f lists the n places of S in order.                                     *)
Lists(f, n, S) == /\ n \in Nat /\ f \in [1 .. n -> S]
                  /\ \A i, j \in 1 .. n : i < j => f[i] < f[j]
                  /\ \A x \in S : \E i \in 1 .. n : f[i] = x

(* Two lists of the same places agree as far as the first one goes.        *)
LEMMA ListsAgree ==
  ASSUME NEW S \in SUBSET Nat, NEW f, NEW n, Lists(f, n, S), NEW g, NEW m, Lists(g, m, S)
  PROVE  n <= m /\ \A i \in 1 .. n : f[i] = g[i]
<1> DEFINE Bad == {i \in 1 .. n : i \notin 1 .. m \/ f[i] # g[i]}
<1>1. n \in Nat /\ m \in Nat /\ f \in [1 .. n -> S] /\ g \in [1 .. m -> S]
  BY DEF Lists
<1>2. ASSUME Bad # {} PROVE FALSE
  <2>1. Bad \in SUBSET Nat
    BY <1>1
  <2>2. PICK i \in Bad : \A k \in Bad : i <= k
    <3> HIDE DEF Bad
    <3>1. QED BY <1>2, <2>1, LeastNat
  <2>3. i \in 1 .. n /\ i \in Nat /\ (i \notin 1 .. m \/ f[i] # g[i])
    BY <2>1
  <2>4. \A k \in 1 .. n : k < i => k \in 1 .. m /\ f[k] = g[k]
    <3> SUFFICES ASSUME NEW k \in 1 .. n, k < i PROVE k \notin Bad
      OBVIOUS
    <3> HIDE DEF Bad
    <3>1. QED BY <1>1, <2>2, <2>3
  <2> HIDE DEF Bad
  <2>5. f[i] \in S
    BY <1>1, <2>3
  <2>6. PICK j \in 1 .. m : g[j] = f[i]
    BY <2>5 DEF Lists
  <2>7. ~(j < i)
    <3> SUFFICES ASSUME j < i PROVE FALSE
      OBVIOUS
    <3>1. j \in 1 .. n
      BY <1>1, <2>3
    <3>2. f[j] = f[i] /\ f[j] < f[i]
      BY <2>3, <2>4, <2>6, <3>1 DEF Lists
    <3>3. f[i] \in Nat
      BY <2>5
    <3>4. QED
      BY <3>2, <3>3
  <2>8. j # i
    BY <2>3, <2>6
  <2>9. i \in 1 .. m /\ i < j
    BY <1>1, <2>3, <2>7, <2>8
  <2>10. g[i] \in S /\ g[i] < f[i]
    BY <1>1, <2>6, <2>9 DEF Lists
  <2>11. PICK k \in 1 .. n : f[k] = g[i]
    BY <2>10 DEF Lists
  <2>12. k < i
    <3> SUFFICES ASSUME ~(k < i) PROVE FALSE
      OBVIOUS
    <3>1. k = i \/ i < k
      BY <1>1, <2>3
    <3>2. f[i] = f[k] \/ f[i] < f[k]
      BY <2>3, <3>1 DEF Lists
    <3>3. f[i] \in Nat /\ f[k] \in Nat
      BY <1>1, <2>5
    <3>4. QED
      BY <2>10, <2>11, <3>2, <3>3
  <2>13. k \in 1 .. m /\ g[k] = g[i] /\ g[k] < g[i]
    BY <2>4, <2>9, <2>11, <2>12 DEF Lists
  <2>14. g[i] \in Nat
    BY <2>10
  <2>15. QED
    BY <2>13, <2>14
<1>3. \A i \in 1 .. n : i \in 1 .. m /\ f[i] = g[i]
  BY <1>2
<1>4. n <= m
  BY <1>1, <1>3
<1>5. QED
  BY <1>3, <1>4

LEMMA ListsUnique ==
  ASSUME NEW S \in SUBSET Nat, NEW f, NEW n, Lists(f, n, S), NEW g, NEW m, Lists(g, m, S)
  PROVE  n = m /\ f = g
<1>1. n \in Nat /\ m \in Nat /\ f \in [1 .. n -> S] /\ g \in [1 .. m -> S]
  BY DEF Lists
<1>2. n <= m /\ m <= n /\ \A i \in 1 .. n : f[i] = g[i]
  BY ListsAgree, SMTT(30)
<1>3. n = m
  BY <1>1, <1>2
<1>4. QED
  BY <1>1, <1>2, <1>3

LEMMA PlacesFinite ==
  ASSUME NEW b \in Nat, NEW S \in SUBSET (1 .. b)
  PROVE  IsFiniteSet(S) /\ Cardinality(S) \in Nat
<1>1. IsFiniteSet(1 .. b)
  BY FS_Interval
<1>2. IsFiniteSet(S)
  BY <1>1, FS_Subset
<1>3. QED
  BY <1>2, FS_CardinalityType

LEMMA ListExists ==
  ASSUME NEW b \in Nat, NEW S \in SUBSET (1 .. b)
  PROVE  \E f : Lists(f, Cardinality(S), S)
<1> DEFINE Good(k) == \A T \in SUBSET (1 .. k) : \E f : Lists(f, Cardinality(T), T)
           Bad == {k \in Nat : ~Good(k)}
<1>1. SUFFICES ASSUME Bad # {} PROVE FALSE
  OBVIOUS
<1>2. PICK k \in Bad : \A j \in Bad : k <= j
  <2>1. Bad \in SUBSET Nat
    OBVIOUS
  <2> HIDE DEF Bad
  <2>2. QED BY <1>1, <2>1, LeastNat
<1>3. k \in Nat /\ ~Good(k)
  OBVIOUS
<1>4. CASE k = 0
  <2>1. \A T \in SUBSET (1 .. 0) : T = {}
    OBVIOUS
  <2>2. Cardinality({}) = 0
    BY FS_EmptySet
  <2>3. Lists([i \in 1 .. 0 |-> i], 0, {})
    BY DEF Lists
  <2>4. Good(k)
    BY <1>4, <2>1, <2>2, <2>3, ZenonT(40)
  <2>5. QED
    BY <1>3, <2>4
<1>5. CASE k # 0
  <2>1. k - 1 \in Nat /\ k - 1 < k
    BY <1>3, <1>5
  <2>2. Good(k - 1)
    <3>1. k - 1 \notin Bad
      <4> HIDE DEF Bad
      <4>1. QED BY <1>2, <1>3, <2>1
    <3>2. QED
      BY <2>1, <3>1
  <2> HIDE DEF Bad
  <2>3. SUFFICES ASSUME NEW T \in SUBSET (1 .. k) PROVE \E f : Lists(f, Cardinality(T), T)
    BY <1>3
  <2> DEFINE R == T \ {k}
             n == Cardinality(R)
  <2>4. R \in SUBSET (1 .. k - 1)
    BY <1>3
  <2>5. PICK f : Lists(f, n, R)
    BY <2>2, <2>4
  <2>6. IsFiniteSet(R)
    <3>1. IsFiniteSet(1 .. k - 1)
      BY <2>1, FS_Interval
    <3>2. QED
      BY <2>4, <3>1, FS_Subset
  <2>7. CASE k \notin T
    <3>1. R = T
      BY <2>7
    <3>2. QED
      BY <2>5, <3>1
  <2>8. CASE k \in T
    <3>1. T = R \cup {k} /\ k \notin R
      BY <2>8
    <3>2. Cardinality(T) = n + 1
      BY <2>6, <3>1, FS_AddElement
    <3> HIDE DEF R, n
    <3> DEFINE g == [i \in 1 .. n + 1 |-> IF i = n + 1 THEN k ELSE f[i]]
    <3>3. n \in Nat /\ f \in [1 .. n -> R]
      BY <2>5 DEF Lists
    <3>4. ASSUME NEW i \in 1 .. n
          PROVE  g[i] = f[i] /\ f[i] \in R /\ f[i] < k /\ f[i] \in T
      <4>1. f[i] \in R
        BY <3>3
      <4>2. f[i] \in 1 .. k - 1 /\ f[i] \in T
        BY <2>4, <3>1, <4>1
      <4>3. i \in 1 .. n + 1 /\ i # n + 1
        BY <3>3
      <4>4. QED
        BY <1>3, <4>1, <4>2, <4>3
    <3>5. g[n + 1] = k
      BY <3>3
    <3>6. \A i \in 1 .. n + 1 : i = n + 1 \/ i \in 1 .. n
      BY <3>3
    <3>7. g \in [1 .. n + 1 -> T]
      <4>1. \A i \in 1 .. n + 1 : g[i] \in T
        <5> HIDE DEF g
        <5>1. QED BY <2>8, <3>4, <3>5, <3>6
      <4>2. QED
        BY <4>1
    <3> HIDE DEF g
    <3>8. ASSUME NEW i \in 1 .. n + 1, NEW j \in 1 .. n + 1, i < j PROVE g[i] < g[j]
      <4>1. i \in 1 .. n
        BY <3>3, <3>8
      <4>2. CASE j = n + 1
        BY <3>4, <3>5, <4>1, <4>2
      <4>3. CASE j \in 1 .. n
        BY <2>5, <3>4, <3>8, <4>1, <4>3 DEF Lists
      <4>4. QED
        BY <3>6, <4>2, <4>3
    <3>9. ASSUME NEW x \in T PROVE \E i \in 1 .. n + 1 : g[i] = x
      <4>1. CASE x = k
        BY <3>3, <3>5, <4>1
      <4>2. CASE x \in R
        <5>1. PICK i \in 1 .. n : f[i] = x
          BY <2>5, <4>2 DEF Lists
        <5>2. i \in 1 .. n + 1
          BY <3>3
        <5>3. QED
          BY <3>4, <5>1, <5>2
      <4>3. QED
        BY <3>1, <4>1, <4>2
    <3>10. Lists(g, n + 1, T)
      BY <3>3, <3>7, <3>8, <3>9 DEF Lists
    <3>11. QED
      BY <3>2, <3>10
  <2>9. QED
    BY <2>7, <2>8
<1>6. QED
  BY <1>4, <1>5

(* InOrder lists its places, and whatever lists them is InOrder.           *)
LEMMA InOrderLists ==
  ASSUME NEW b \in Nat, NEW S \in SUBSET (1 .. b)
  PROVE  Lists(InOrder(S), Cardinality(S), S)
<1>1. PICK f : Lists(f, Cardinality(S), S)
  BY ListExists
<1> DEFINE n == Cardinality(S)
           Rising(g) == \A i, j \in DOMAIN g : i < j => g[i] < g[j]
<1>2. f \in [1 .. n -> S] /\ Rising(f)
  BY <1>1 DEF Lists
<1>3. InOrder(S) \in [1 .. n -> S] /\ Rising(InOrder(S))
  BY <1>2 DEF InOrder
<1>4. n \in Nat /\ S \in SUBSET Nat
  BY <1>1 DEF Lists
<1> DEFINE g == InOrder(S)
           I == {g[i] : i \in 1 .. n}
<1>5. I \in SUBSET S
  BY <1>3
<1>6. Lists(g, n, I)
  BY <1>3, <1>4 DEF Lists
<1>7. I \in SUBSET (1 .. b) /\ I \in SUBSET Nat
  BY <1>4, <1>5
<1> HIDE DEF I, g
<1>8. n = Cardinality(I)
  BY <1>6, <1>7, ListExists, ListsUnique
<1>9. IsFiniteSet(S)
  BY PlacesFinite
<1>10. I = S
  BY <1>5, <1>8, <1>9, FS_Subset
<1>11. QED
  BY <1>6, <1>10 DEF g

LEMMA InOrderIs ==
  ASSUME NEW b \in Nat, NEW S \in SUBSET (1 .. b), NEW f, NEW n, Lists(f, n, S)
  PROVE  n = Cardinality(S) /\ f = InOrder(S)
<1>1. S \in SUBSET Nat
  OBVIOUS
<1>2. QED
  BY <1>1, InOrderLists, ListsUnique

(* A list of rows picked at places.                                        *)
LEMMA PickedType ==
  ASSUME NEW b \in Nat, NEW S \in SUBSET (1 .. b), NEW R, NEW rows, \A i \in S : rows[i] \in R
  PROVE  /\ Picked(rows, S) \in Seq(R)
         /\ Len(Picked(rows, S)) = Cardinality(S)
         /\ Cardinality(S) \in Nat
         /\ DOMAIN Picked(rows, S) = 1 .. Cardinality(S)
<1> DEFINE f == InOrder(S)
           n == Cardinality(S)
<1>1. n \in Nat /\ f \in [1 .. n -> S]
  BY InOrderLists DEF Lists
<1> HIDE DEF f, n
<1>2. Picked(rows, S) = [i \in 1 .. n |-> rows[f[i]]]
  BY DEF Picked, f, n
<1>3. \A i \in 1 .. n : rows[f[i]] \in R
  BY <1>1
<1>4. QED
  BY <1>1, <1>2, <1>3 DEF n

LEMMA PickedAgree ==
  ASSUME NEW b \in Nat, NEW S \in SUBSET (1 .. b), NEW rows, NEW others,
         \A i \in S : rows[i] = others[i]
  PROVE  Picked(rows, S) = Picked(others, S)
<1>1. \A i \in 1 .. Cardinality(S) : InOrder(S)[i] \in S
  BY InOrderLists DEF Lists
<1>2. QED
  BY <1>1 DEF Picked

(* What is picked from a picked list could have been picked at once.       *)
LEMMA PickedAtOnce ==
  ASSUME NEW b \in Nat, NEW S \in SUBSET (1 .. b), NEW rows,
         NEW P \in SUBSET (1 .. Cardinality(S)), NEW Q,
         \A i \in P : InOrder(S)[i] \in Q,
         \A x \in Q : \E i \in P : InOrder(S)[i] = x
  PROVE  Picked(Picked(rows, S), P) = Picked(rows, Q)
<1> DEFINE f == InOrder(S)
           n == Cardinality(S)
           g == InOrder(P)
           m == Cardinality(P)
           h == [i \in 1 .. m |-> f[g[i]]]
<1>0. /\ \A i \in P : f[i] \in Q
      /\ \A x \in Q : \E i \in P : f[i] = x
  OBVIOUS
<1>1. Lists(f, n, S) /\ n \in Nat
  BY InOrderLists DEF Lists
<1>2. Lists(g, m, P) /\ m \in Nat
  BY <1>1, InOrderLists DEF Lists
<1>3. Q \in SUBSET S
  BY <1>0, <1>1 DEF Lists
<1>4. \A i \in 1 .. m : g[i] \in P /\ g[i] \in 1 .. n
  BY <1>2 DEF Lists
<1> HIDE DEF f, n, g, m
<1>5. Lists(h, m, Q)
  <2>1. h \in [1 .. m -> Q]
    BY <1>0, <1>4
  <2>2. ASSUME NEW i \in 1 .. m, NEW j \in 1 .. m, i < j PROVE h[i] < h[j]
    <3>1. g[i] < g[j]
      BY <1>2, <2>2 DEF Lists
    <3>2. QED
      BY <1>1, <1>4, <3>1 DEF Lists
  <2>3. ASSUME NEW x \in Q PROVE \E i \in 1 .. m : h[i] = x
    <3>1. PICK k \in P : f[k] = x
      BY <1>0
    <3>2. PICK i \in 1 .. m : g[i] = k
      BY <1>2 DEF Lists
    <3>3. QED
      BY <3>1, <3>2
  <2> HIDE DEF h
  <2>4. QED
    BY <1>2, <2>1, <2>2, <2>3 DEF Lists
<1>6. m = Cardinality(Q) /\ h = InOrder(Q)
  <2>1. Q \in SUBSET (1 .. b)
    BY <1>3
  <2> HIDE DEF h
  <2>2. QED BY <1>5, <2>1, InOrderIs
<1>7. Picked(rows, Q) = [i \in 1 .. m |-> rows[h[i]]]
  <2> HIDE DEF h
  <2>1. QED BY <1>6 DEF Picked
<1>8. Picked(rows, S) = [i \in 1 .. n |-> rows[f[i]]]
  BY DEF Picked, f, n
<1>9. Picked(Picked(rows, S), P) = [i \in 1 .. m |-> Picked(rows, S)[g[i]]]
  BY DEF Picked, g, m
<1>10. \A i \in 1 .. m : Picked(rows, S)[g[i]] = rows[h[i]]
  BY <1>4, <1>8
<1>11. QED
  BY <1>7, <1>9, <1>10

(* k consecutive places from first on, above those of S; the rows there.   *)
Beyond(b, S, first) == /\ b \in Nat /\ S \in SUBSET (1 .. b)
                       /\ first \in Nat /\ first >= 1
                       /\ \A i \in S : i < first
Extended(S, first, k) == S \cup first .. (first + k - 1)
Stretch(rows, first, k) == [i \in 1 .. k |-> rows[first + i - 1]]

(* Picking them too puts their rows behind the others.                     *)
LEMMA PickedAbove ==
  ASSUME NEW b, NEW S, NEW first, NEW k, k \in Nat, Beyond(b, S, first), NEW rows
  PROVE  Picked(rows, Extended(S, first, k)) = Picked(rows, S) \o Stretch(rows, first, k)
<1> SUFFICES ASSUME b \in Nat, S \in SUBSET (1 .. b), first \in Nat, first >= 1,
                    \A i \in S : i < first,
                    NEW T, T = S \cup first .. (first + k - 1)
             PROVE  Picked(rows, T) = Picked(rows, S) \o Stretch(rows, first, k)
  BY DEF Beyond, Extended
<1> DEFINE f == InOrder(S)
           n == Cardinality(S)
           h == [i \in 1 .. n + k |-> IF i <= n THEN f[i] ELSE first + (i - n) - 1]
           above == [i \in 1 .. k |-> rows[first + i - 1]]
           R == {rows[i] : i \in T}
<1>0. \A i \in T : rows[i] \in R
  OBVIOUS
<1> HIDE DEF R
<1>1. Lists(f, n, S) /\ n \in Nat /\ f \in [1 .. n -> S]
  BY InOrderLists DEF Lists
<1> HIDE DEF f, n
<1>2. \A i \in 1 .. n : i \in 1 .. n + k /\ h[i] = f[i] /\ h[i] \in S
  BY <1>1
<1>3. \A i \in 1 .. n + k : i \notin 1 .. n =>
          /\ i - n \in 1 .. k /\ h[i] = first + (i - n) - 1
          /\ h[i] \in first .. (first + k - 1)
  BY <1>1
<1>4. h \in [1 .. n + k -> T]
  <2>1. \A i \in 1 .. n + k : h[i] \in T
    <3> HIDE DEF h
    <3>1. QED BY <1>2, <1>3
  <2>2. QED
    BY <2>1
<1> HIDE DEF h
<1>5. ASSUME NEW i \in 1 .. n + k, NEW j \in 1 .. n + k, i < j PROVE h[i] < h[j]
  <2>1. CASE j \in 1 .. n
    <3>1. i \in 1 .. n
      BY <1>1, <1>5, <2>1
    <3>2. QED
      BY <1>1, <1>2, <1>5, <2>1, <3>1 DEF Lists
  <2>2. CASE i \in 1 .. n /\ j \notin 1 .. n
    <3>1. h[i] \in S
      BY <1>2, <2>2
    <3>2. h[j] \in first .. (first + k - 1)
      BY <1>3, <2>2
    <3>3. \A x \in S : x \in Nat /\ x < first
      OBVIOUS
    <3>4. \A y \in first .. (first + k - 1) : y \in Nat /\ first <= y
      OBVIOUS
    <3>5. h[i] \in Nat /\ h[i] < first /\ h[j] \in Nat /\ first <= h[j]
      BY <3>1, <3>2, <3>3, <3>4
    <3>6. QED
      BY <3>5
  <2>3. CASE i \notin 1 .. n
    <3>1. j \notin 1 .. n
      BY <1>1, <1>5, <2>3
    <3>2. QED
      BY <1>1, <1>3, <1>5, <2>3, <3>1
  <2>4. QED
    BY <2>1, <2>2, <2>3
<1>6. ASSUME NEW x \in T PROVE \E i \in 1 .. n + k : h[i] = x
  <2>1. CASE x \in S
    <3>1. PICK i \in 1 .. n : f[i] = x
      BY <1>1, <2>1 DEF Lists
    <3>2. QED
      BY <1>2, <3>1
  <2>2. CASE x \in first .. (first + k - 1)
    <3> DEFINE i == n + (x - first) + 1
    <3>1. i \in 1 .. n + k /\ i \notin 1 .. n /\ first + (i - n) - 1 = x
      BY <1>1, <2>2
    <3> HIDE DEF i
    <3>2. QED
      BY <1>3, <3>1
  <2>3. QED
    BY <2>1, <2>2
<1>7. Lists(h, n + k, T)
  BY <1>1, <1>4, <1>5, <1>6 DEF Lists
<1>8. T \in SUBSET (1 .. b + first + k)
  OBVIOUS
<1>9. b + first + k \in Nat
  OBVIOUS
<1>10. n + k = Cardinality(T) /\ h = InOrder(T)
  BY <1>7, <1>8, <1>9, InOrderIs
<1>11. Picked(rows, T) = [i \in 1 .. n + k |-> rows[h[i]]]
  BY <1>10 DEF Picked
<1>12. Picked(rows, S) = [i \in 1 .. n |-> rows[f[i]]]
  BY DEF Picked, f, n
<1>13. \A i \in 1 .. n : rows[f[i]] \in R
  BY <1>0, <1>1
<1>14. Picked(rows, S) \in Seq(R) /\ Len(Picked(rows, S)) = n
  BY <1>1, <1>12, <1>13
<1>15. above \in Seq(R) /\ Len(above) = k
  <2>1. \A i \in 1 .. k : rows[first + i - 1] \in R
    <3> SUFFICES ASSUME NEW i \in 1 .. k PROVE first + i - 1 \in T
      BY <1>0
    <3>1. QED OBVIOUS
  <2>2. QED
    BY <2>1
<1>16. \A i \in 1 .. n : rows[h[i]] = Picked(rows, S)[i]
  BY <1>2, <1>12
<1>17. \A i \in 1 .. n + k : i \notin 1 .. n => rows[h[i]] = above[i - n]
  <2> SUFFICES ASSUME NEW i \in 1 .. n + k, i \notin 1 .. n PROVE rows[h[i]] = above[i - n]
    OBVIOUS
  <2>1. i - n \in 1 .. k /\ h[i] = first + (i - n) - 1
    BY <1>3
  <2>2. QED
    BY <2>1
<1> DEFINE left == Picked(rows, S)
           all == Picked(rows, T)
<1>18. left \in Seq(R) /\ Len(left) = n /\ all = [i \in 1 .. n + k |-> rows[h[i]]]
  BY <1>11, <1>14
<1>19. \A i \in 1 .. n : all[i] = left[i]
  BY <1>1, <1>16, <1>18
<1>20. \A i \in 1 .. n + k : i \notin 1 .. n => all[i] = above[i - n]
  BY <1>17, <1>18
<1> HIDE DEF left, above
<1>21. /\ left \o above \in Seq(R) /\ Len(left \o above) = n + k
       /\ \A i \in 1 .. n + k : (left \o above)[i] =
              IF i <= n THEN left[i] ELSE above[i - n]
  <2>1. Len(left) = n /\ Len(above) = k /\ left \in Seq(R) /\ above \in Seq(R)
    BY <1>15, <1>18
  <2> HIDE DEF all
  <2>2. QED
    BY <2>1, ConcatProperties
<1>22. \A i \in 1 .. n + k : all[i] = (left \o above)[i]
  <2> SUFFICES ASSUME NEW i \in 1 .. n + k PROVE all[i] = (left \o above)[i]
    OBVIOUS
  <2>1. i <= n <=> i \in 1 .. n
    BY <1>1
  <2> HIDE DEF all
  <2>2. QED
    BY <1>19, <1>20, <1>21, <2>1
<1>23. all \in Seq(R) /\ Len(all) = n + k
  <2>1. \A x \in T : rows[x] \in R
    BY <1>0
  <2>2. \A i \in 1 .. n + k : h[i] \in T
    BY <1>4
  <2>3. all = [i \in 1 .. n + k |-> rows[h[i]]] /\ n + k \in Nat
    BY <1>1, <1>18
  <2> HIDE DEF all
  <2>4. \A i \in 1 .. n + k : rows[h[i]] \in R
    BY <2>1, <2>2
  <2>5. QED
    BY <2>3, <2>4
<1>24. all = left \o above
  <2> HIDE DEF all
  <2>1. QED BY <1>21, <1>22, <1>23, SeqEqual
<1>25. QED
  BY <1>24 DEF left, above, Stretch
=============================================================================
