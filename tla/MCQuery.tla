------------------------------ MODULE MCQuery ------------------------------
(* Query on tables t1 (a INTEGER, b TEXT) and t2 (a INTEGER, d INTEGER):   *)
(* the name a is ambiguous in a join.  Rows leave columns out, hold NULLs  *)
(* and repeat.  Integers are exact as floats up to 4 and end at 5.         *)
EXTENDS Query

CONSTANTS t1, t2, t3

MCColumns == {"a", "b", "d"}
MCColType == [a |-> "INTEGER", b |-> "TEXT", d |-> "INTEGER"]
MCColumnsOf == t1 :> {"a", "b"} @@ t2 :> {"a", "d"}
MCIndexedOf == t1 :> {"a"} @@ t2 :> {}
MCPlace == t1 :> 1 @@ t2 :> 2

I(n) == <<"int", n>>
T(n) == <<"text", n>>
MCInts == 1 .. 5
MCTexts == {1, 2}
MCTextOf == [n \in MCInts |-> 1]
MCIntOf == [n \in MCTexts |-> NotANumber]

Rows1 == {[a |-> I(1), b |-> T(2)], [a |-> I(3), b |-> T(1)],
          [a |-> Null, b |-> T(1)], [b |-> T(2)]}
Rows2 == {[a |-> I(1), d |-> Null], [a |-> Null, d |-> I(1)], [d |-> I(3)]}
UpTo(n, S) == UNION {[1 .. k -> S] : k \in 0 .. n}
MCContents ==
    {t1 :> r1 @@ t2 :> r2 : r1 \in UpTo(2, Rows1), r2 \in UpTo(2, Rows2)}
    \cup {t1 :> r1 @@ t2 :> <<>> : r1 \in UpTo(3, Rows1)}

Col(t, c) == [agg |-> "", ref |-> [table |-> t, column |-> c]]
Agg(f, c) == [agg |-> f, ref |-> Bare(c)]
CountAll == [agg |-> "COUNT", ref |-> StarArg]
Asc(item) == [item |-> item, desc |-> FALSE]
Desc(item) == [item |-> item, desc |-> TRUE]
On(type, left, right) ==
    [type |-> type, table |-> t2, left |-> Col(t1, left).ref, right |-> Col(t2, right).ref]
Swapped == [type |-> "inner", table |-> t2, left |-> Col(t2, "a").ref,
            right |-> Col(t1, "a").ref]

Cmp(c, op, v) == [kind |-> "cmp", column |-> c, op |-> op, value |-> v]
Low == Cmp("a", "<", I(3))
Either == [kind |-> "or", left |-> Low, right |-> Cmp("b", "=", T(1))]
Both == [kind |-> "and", left |-> Cmp("b", "=", T(1)), right |-> Low]
MCExprs == {Low, Either, Both, Cmp("b", "=", T(1))}

Have(item, op, v) == [kind |-> "cmp", item |-> item, op |-> op, value |-> v]
Many == Have(CountAll, ">", I(1))
Few == Have(Agg("SUM", "a"), "<", I(4))
Large == Have(Agg("MAX", "b"), ">=", T(2))
BothOf == [kind |-> "and", left |-> Many, right |-> Large]
AnyOf == [kind |-> "or", left |-> Few, right |-> Large]
Sum5 == Have(Agg("SUM", "a"), ">=", I(4))
Odd == Have(Agg("AVG", "nosuch"), "=", I(1))
MCHavings == {Many, Few, Large, BothOf, AnyOf, Sum5, Odd}

Plain == [table |-> t1, columns |-> Star, joins |-> <<>>, where |-> NoWhere,
          group_by |-> <<>>, having |-> NoHaving, order_by |-> <<>>, limit |-> NoLimit]
By(refs) == [Plain EXCEPT !.group_by = refs]

(* Statements that show rows.                                              *)
RowQueries ==
    { [Plain EXCEPT !.where = Either, !.order_by = <<Desc(Col("", "b")), Asc(Col("", "a"))>>],
      [Plain EXCEPT !.order_by = <<Asc(Col("", "a")), Desc(Col("", "b"))>>, !.limit = 1],
      [Plain EXCEPT !.columns = <<Col("", "a"), Col(t1, "b")>>, !.limit = 2 * MaxInt + 1,   \* LIMIT -1
                    !.order_by = <<Asc(Col(t1, "a"))>>],
      [Plain EXCEPT !.order_by = <<Asc(CountAll)>>, !.where = Both],
      [Plain EXCEPT !.table = t3],
      [Plain EXCEPT !.joins = <<On("inner", "a", "a")>>],
      [Plain EXCEPT !.joins = <<On("left", "a", "a")>>, !.where = Low,
                    !.order_by = <<Desc(Col(t2, "a"))>>],
      [Plain EXCEPT !.joins = <<On("left", "a", "d"), Swapped>>,
                    !.columns = <<Col("", "a"), Col(t2, "d")>>],
      [Plain EXCEPT !.joins = <<Swapped>>] }

(* Statements that show groups.                                            *)
GroupQueries ==
    { [Plain EXCEPT !.columns = <<CountAll, Agg("SUM", "a"), Agg("MIN", "b")>>],
      [By(<<Bare("b")>>) EXCEPT !.columns = <<Col("", "b"), CountAll, Agg("SUM", "a"),
                                              Agg("AVG", "a"), Agg("COUNT", "a")>>,
                                !.order_by = <<Desc(Agg("AVG", "a")), Asc(Col(t1, "b"))>>],
      [By(<<Bare("a")>>) EXCEPT !.columns = <<Col(t1, "a"), Agg("MAX", "b")>>,
                                !.having = BothOf, !.limit = 1],
      [By(<<Bare("b")>>) EXCEPT !.columns = <<Col("", "b"), CountAll>>, !.having = Few],
      [By(<<Bare("b")>>) EXCEPT !.columns = <<Col("", "b"), CountAll>>, !.having = Sum5],
      [By(<<Bare("b")>>) EXCEPT !.columns = <<Col("", "b")>>, !.having = AnyOf],
      [By(<<Bare("b")>>) EXCEPT !.columns = <<Col("", "b")>>, !.having = Odd],
      [By(<<Bare("b")>>) EXCEPT !.columns = <<Col("", "a")>>],
      By(<<Bare("a")>>),
      [Plain EXCEPT !.columns = <<Agg("SUM", "b")>>],
      [Plain EXCEPT !.columns = <<CountAll>>, !.order_by = <<Asc(Col("", "a"))>>],
      [By(<<Col(t1, "a").ref, Bare("d")>>) EXCEPT
                                !.joins = <<On("left", "a", "a")>>,
                                !.columns = <<Col("", "d"), CountAll, Agg("MAX", "d")>>,
                                !.order_by = <<Asc(Col("", "d"))>>] }
MCQueries == RowQueries \cup GroupQueries

(* One column of rows that may leave it out.                               *)
NamesContents == {t1 :> r1 @@ t2 :> <<>> : r1 \in UpTo(2, {[b |-> T(2)], [a |-> I(1), b |-> T(1)]})}
NamesQueries == {[Plain EXCEPT !.columns = <<Col("", "a")>>]}
=============================================================================
