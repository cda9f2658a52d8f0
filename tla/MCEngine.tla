------------------------------ MODULE MCEngine -----------------------------
(* Engine on tables with an INTEGER column a and a TEXT column b.  The     *)
(* strings are '1', '2' and 'x' in byte order, written as 0, 1 and 2, so   *)
(* that both conversions between the types, and a failing one, happen.     *)
(* RowStatements work the rows of one indexed table; CatalogStatements     *)
(* work two tables and the names of their indexes.                         *)
EXTENDS Engine, TLC

CONSTANTS t1, t2

MCColumns == {"a", "b"}
MCColType == [a |-> "INTEGER", b |-> "TEXT"]
MCInts == {1, 2}
MCTexts == {0, 1, 2}
MCTextOf == 1 :> 0 @@ 2 :> 1
MCIntOf == 0 :> 1 @@ 1 :> 2 @@ 2 :> NotANumber

I(n) == <<"int", n>>
T(n) == <<"text", n>>
Cmp(column, op, value) == [kind |-> "cmp", column |-> column, op |-> op, value |-> value]
And(l, r) == [kind |-> "and", left |-> l, right |-> r]
Or(l, r) == [kind |-> "or", left |-> l, right |-> r]

Ops == {"=", "!=", "<", "<=", ">", ">="}
Atoms == {Cmp("a", op, v) : op \in Ops, v \in {I(2)}}
         \cup {Cmp("a", op, Null) : op \in {"=", ">="}}
         \cup {Cmp("b", op, T(1)) : op \in {"=", ">="}}
         \cup {Cmp("a", "=", I(1)), Cmp("nosuch", "=", I(1))}
Some == {Cmp("a", "<", I(2)), Cmp("a", "=", I(2)), Cmp("b", "=", T(2))}
Two == {p \in Some \X Some : p[1] # p[2]}
Pairs == {And(p[1], p[2]) : p \in Two} \cup {Or(p[1], p[2]) : p \in Two}
Nested == {And(Or(p[1], p[2]), Cmp("a", "<", I(2))) : p \in Two}

(* The conditions of the statements.                                       *)
OnBoth == And(Cmp("b", ">=", T(1)), Cmp("a", "=", I(2)))
OnEither == Or(Cmp("a", "<", I(2)), Cmp("b", "=", T(1)))
OnRange == And(Cmp("a", "<", I(2)), Cmp("b", "=", T(2)))

MCExprs == {OnBoth, OnEither, OnRange} \cup Atoms \cup Some \cup Pairs \cup Nested

Insert(columns, rows) == [kind |-> "insert", table |-> t1, columns |-> columns, rows |-> rows]
Update(assignments, where) ==
    [kind |-> "update", table |-> t1, assignments |-> assignments, where |-> where]
Delete(where) == [kind |-> "delete", table |-> t1, where |-> where]
Set(column, value) == [column |-> column, value |-> value]
CreateIndex(name, column) ==
    [kind |-> "create_index", table |-> t1, name |-> name, column |-> column]

RowStatements ==
    { [kind |-> "create_table", table |-> t1],
      CreateIndex("ia", "a"),
      Insert(<<"a", "b">>, <<<<I(1), T(2)>>, <<T(1), Null>>>>),
      Insert(<<"b">>, <<<<I(2)>>>>),
      Insert(<<"a">>, <<<<I(2)>>, <<T(2)>>>>),
      Insert(<<"a", "b">>, <<<<I(2)>>>>),
      Update(<<Set("a", I(2))>>, Cmp("b", ">=", T(1))),
      Update(<<Set("b", T(2)), Set("a", Null)>>, OnBoth),
      Update(<<Set("a", T(2))>>, Cmp("b", "=", T(2))),
      Delete(OnEither),
      [kind |-> "select", table |-> t1, where |-> OnRange] }
CatalogStatements ==
    { [kind |-> "create_table", table |-> t1], [kind |-> "create_table", table |-> t2],
      CreateIndex("ia", "a"), CreateIndex("ib", "b"), CreateIndex("ib", "a"),
      [CreateIndex("ia", "a") EXCEPT !.table = t2],
      [CreateIndex("ib", "nosuch") EXCEPT !.table = t2],
      Insert(<<"b", "b">>, <<<<T(2), I(2)>>>>),
      [Insert(<<"a">>, <<<<Null>>>>) EXCEPT !.table = t2],
      Update(<<Set("a", I(2)), Set("b", Null)>>, NoWhere),
      Update(<<Set("nosuch", Null)>>, NoWhere),
      [Delete(NoWhere) EXCEPT !.table = t2],
      [kind |-> "show_tables"], [kind |-> "describe", table |-> t1],
      [kind |-> "explain", table |-> t1, of |-> Update(<<Set("b", Null)>>, OnRange)] }
=============================================================================
