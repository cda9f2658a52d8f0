------------------------------- MODULE Parser ------------------------------
(***************************************************************************)
(* src/snail_core/src/sql/parser.rs over the tokens of module Lexer, and   *)
(* the syntax trees of sql/ast.rs it builds.                               *)
(*                                                                         *)
(* A parse_ operator takes the tokens and the position it starts at, and   *)
(* gives a node with the position after it, or why there is none: "eof"    *)
(* when the tokens end too early, "syntax" otherwise.                      *)
(***************************************************************************)
EXTENDS Lexer

Got(node, next)  == [ok |-> TRUE, node |-> node, next |-> next]
Wrong(why, next) == [ok |-> FALSE, node |-> why, next |-> next]

Then(r, Continue(_, _)) == IF r.ok THEN Continue(r.node, r.next) ELSE r

NoToken  == <<"none", 0>>
At(t, p) == IF p <= Len(t) THEN t[p] ELSE NoToken

(* A sequence of calls of expect and expect_ident: what the tokens say     *)
(* comes back.                                                             *)
Name == <<"name", 0>>

Expect(t, p, shape) ==
    LET Fits(i) == \/ At(t, p + i - 1) = shape[i]
                   \/ shape[i] = Name /\ At(t, p + i - 1)[1] = "ident"
        misfits == {i \in DOMAIN shape : ~Fits(i)}
    IN  IF misfits = {} THEN Got([i \in DOMAIN shape |-> t[p + i - 1][2]], p + Len(shape))
        ELSE Wrong(IF At(t, p + Min(misfits) - 1) = NoToken THEN "eof" ELSE "syntax", p)

(* One token whose class is among those given.                             *)
OneOf(t, p, toks) ==
    IF At(t, p) = NoToken THEN Wrong("eof", p)
    ELSE IF At(t, p) \in toks THEN Got(At(t, p)[2], p + 1)
    ELSE Wrong("syntax", p)

(* What is read at each place.                                             *)
Places(t) == 1 .. Len(t) + 1
Each(Item(_, _), t) == [q \in Places(t) |-> Item(t, q)]

(* The loops over items with a separator between them.                     *)
Separated(item, sep, t, p) ==
    LET items[q \in p .. Len(t) + 1] ==
            Then(item[q], LAMBDA first, r :
                IF At(t, r) # sep THEN Got(<<first>>, r)
                ELSE Then(items[r + 1], LAMBDA others, s : Got(<<first>> \o others, s)))
    IN  items[p]

Comma == Sign(",")
Open  == Sign("(")
Close == Sign(")")

----------------------------------------------------------------------------
(* Values, columns and select items.                                       *)

Null == <<"null", 0>>

parse_value(t, p) ==
    LET tok == At(t, p)
    IN  IF tok[1] \in {"int", "text"} THEN Got(tok, p + 1)
        ELSE Then(OneOf(t, p, {Keyword("NULL")}), LAMBDA word, q : Got(Null, q))

parse_cmp_op(t, p) == OneOf(t, p, {Sign(op) : op \in {"=", "!=", "<", "<=", ">", ">="}})

Bare(c) == [table |-> <<>>, column |-> c]
StarArg == [table |-> <<>>, column |-> <<"*">>]

parse_column_ref(t, p) ==
    Then(Expect(t, p, <<Name>>), LAMBDA first, q :
        IF At(t, q) # Sign(".") THEN Got(Bare(first[1]), q)
        ELSE Then(Expect(t, q + 1, <<Name>>), LAMBDA col, r :
                 Got([table |-> first[1], column |-> col[1]], r)))

(* An aggregate's name in upper case, "" for any other name.               *)
from_name(tok) ==
    IF /\ tok[1] = "ident" /\ Len(tok[2]) = 1 /\ tok[2][1] \in Words
       /\ Upper[tok[2][1]] \in {"COUNT", "SUM", "AVG", "MIN", "MAX"}
    THEN Upper[tok[2][1]] ELSE ""

(* An aggregate's name counts only before a parenthesis.                   *)
parse_select_item(t, p) ==
    LET func == IF At(t, p + 1) = Open THEN from_name(At(t, p)) ELSE ""
        arg  == IF At(t, p + 2) = Sign("*")
                THEN IF func = "COUNT" THEN Got(StarArg, p + 3) ELSE Wrong("syntax", p + 2)
                ELSE parse_column_ref(t, p + 2)
    IN  IF func = "" THEN Then(parse_column_ref(t, p), LAMBDA ref, q :
                                   Got([agg |-> "", ref |-> ref], q))
        ELSE Then(arg, LAMBDA ref, q : Then(Expect(t, q, <<Close>>), LAMBDA n, r :
                                   Got([agg |-> func, ref |-> ref], r)))

----------------------------------------------------------------------------
(* Conditions.                                                             *)

(* ((a op b) op c) op ...                                                  *)
LeftDeep(kind, parts) ==
    FoldLeft(LAMBDA l, r : [kind |-> kind, left |-> l, right |-> r], Head(parts), Tail(parts))

parse_comparison(t, p) ==
    Then(Expect(t, p, <<Name>>), LAMBDA column, q :
    Then(parse_cmp_op(t, q), LAMBDA op, r :
    Then(parse_value(t, r), LAMBDA value, s :
        Got([kind |-> "cmp", column |-> column[1], op |-> op, value |-> value], s))))

(* expr[q] is the expression at q.                                         *)
parse_primary(expr, t, p) ==
    IF At(t, p) # Open THEN parse_comparison(t, p)
    ELSE Then(expr[p + 1], LAMBDA inner, q :
         Then(Expect(t, q, <<Close>>), LAMBDA n, r : Got(inner, r)))

parse_and(expr, t, p) ==
    Then(Separated(Each(LAMBDA u, q : parse_primary(expr, u, q), t), Keyword("AND"), t, p),
         LAMBDA parts, q : Got(LeftDeep("and", parts), q))

(* Mutant: OR binds tighter than AND.                                      *)
parse_or_tight(expr, t, p) ==
    LET ors(u, q) ==
            Then(Separated(Each(LAMBDA v, r : parse_primary(expr, v, r), t), Keyword("OR"), u, q),
                 LAMBDA parts, r : Got(LeftDeep("or", parts), r))
    IN  Then(Separated(Each(ors, t), Keyword("AND"), t, p),
             LAMBDA parts, q : Got(LeftDeep("and", parts), q))

parse_or(expr, t, p) ==
    Then(Separated(Each(LAMBDA u, q : parse_and(expr, u, q), t), Keyword("OR"), t, p),
         LAMBDA parts, q : Got(LeftDeep("or", parts), q))

parse_expr(t, p) == LET expr[q \in Places(t)] == parse_or(expr, t, q) IN expr[p]

parse_having_comparison(t, p) ==
    Then(parse_select_item(t, p), LAMBDA item, q :
        IF item.agg = "" THEN Wrong("syntax", q)
        ELSE Then(parse_cmp_op(t, q), LAMBDA op, r :
             Then(parse_value(t, r), LAMBDA value, s :
                 Got([kind |-> "cmp", item |-> item, op |-> op, value |-> value], s))))

parse_having_and(t, p) ==
    Then(Separated(Each(parse_having_comparison, t), Keyword("AND"), t, p), LAMBDA parts, q :
        Got(LeftDeep("and", parts), q))

parse_having_or(t, p) ==
    Then(Separated(Each(parse_having_and, t), Keyword("OR"), t, p), LAMBDA parts, q :
        Got(LeftDeep("or", parts), q))

----------------------------------------------------------------------------
(* Statements that change tables.                                          *)

NoWhere  == [kind |-> "none"]
NoHaving == [kind |-> "none"]
NoLimit  == <<>>

(* A clause that begins with a word, or what stands for its absence.       *)
Optional(words, Clause(_, _), absent, t, p) ==
    IF At(t, p) # Head(words) THEN Got(absent, p)
    ELSE Then(Expect(t, p, words), LAMBDA n, q : Clause(t, q))

parse_where(t, p) == Optional(<<Keyword("WHERE")>>, parse_expr, NoWhere, t, p)

(* ColType::from_str.                                                      *)
ColType == "INTEGER" :> "INTEGER" @@ "INT" :> "INTEGER" @@ "TEXT" :> "TEXT" @@ "VARCHAR" :> "TEXT"

parse_column_def(t, p) ==
    Then(Expect(t, p, <<Name, Name>>), LAMBDA names, q :
        LET type == names[2][1]
        IN  IF Len(names[2]) = 1 /\ type \in Words /\ Upper[type] \in DOMAIN ColType
            THEN Got([name |-> names[1], type |-> ColType[Upper[type]]], q)
            ELSE Wrong("syntax", q))

parse_create_index(t, p) ==
    Then(Expect(t, p, <<Keyword("INDEX"), Name, Keyword("ON"), Name, Open, Name, Close>>),
         LAMBDA names, q : Got([kind |-> "create_index", name |-> names[2],
                                table |-> names[4], column |-> names[6]], q))

parse_create(t, p) ==
    IF At(t, p + 1) = Keyword("INDEX") THEN parse_create_index(t, p + 1)
    ELSE Then(Expect(t, p, <<Keyword("CREATE"), Keyword("TABLE"), Name, Open>>), LAMBDA names, q :
         Then(Separated(Each(parse_column_def, t), Comma, t, q), LAMBDA columns, r :
         Then(Expect(t, r, <<Close>>), LAMBDA n, s :
             Got([kind |-> "create_table", table |-> names[3], columns |-> columns], s))))

parse_name(t, p) == Then(Expect(t, p, <<Name>>), LAMBDA names, q : Got(names[1], q))

parse_row(t, p) ==
    Then(Expect(t, p, <<Open>>), LAMBDA n, q :
    Then(Separated(Each(parse_value, t), Comma, t, q), LAMBDA row, r :
    Then(Expect(t, r, <<Close>>), LAMBDA m, s : Got(row, s))))

parse_insert(t, p) ==
    Then(Expect(t, p, <<Keyword("INSERT"), Keyword("INTO"), Name, Open>>), LAMBDA names, q :
    Then(Separated(Each(parse_name, t), Comma, t, q), LAMBDA columns, r :
    Then(Expect(t, r, <<Close, Keyword("VALUES")>>), LAMBDA n, s :
    Then(Separated(Each(parse_row, t), Comma, t, s), LAMBDA rows, u :
        Got([kind |-> "insert", table |-> names[3], columns |-> columns, rows |-> rows], u)))))

parse_assignment(t, p) ==
    Then(Expect(t, p, <<Name, Sign("=")>>), LAMBDA names, q :
    Then(parse_value(t, q), LAMBDA value, r : Got([column |-> names[1], value |-> value], r)))

parse_update(t, p) ==
    Then(Expect(t, p, <<Keyword("UPDATE"), Name, Keyword("SET")>>), LAMBDA names, q :
    Then(Separated(Each(parse_assignment, t), Comma, t, q), LAMBDA assignments, r :
    Then(parse_where(t, r), LAMBDA where, s :
        Got([kind |-> "update", table |-> names[2], assignments |-> assignments,
             where |-> where], s))))

parse_delete(t, p) ==
    Then(Expect(t, p, <<Keyword("DELETE"), Keyword("FROM"), Name>>), LAMBDA names, q :
    Then(parse_where(t, q), LAMBDA where, r :
        Got([kind |-> "delete", table |-> names[3], where |-> where], r)))

----------------------------------------------------------------------------
(* SELECT.                                                                 *)

Star == <<>>

parse_columns(t, p) == IF At(t, p) = Sign("*") THEN Got(Star, p + 1)
                       ELSE Separated(Each(parse_select_item, t), Comma, t, p)

(* Mutant: the sides of ON change places.                                  *)
parse_join_condition_swapped(t, p) ==
    Then(Expect(t, p, <<Name, Sign("."), Name, Sign("="), Name, Sign("."), Name>>),
         LAMBDA names, q : Got([left |-> [table |-> names[5], column |-> names[7]],
                                right |-> [table |-> names[1], column |-> names[3]]], q))

parse_join_condition(t, p) ==
    Then(Expect(t, p, <<Name, Sign("."), Name, Sign("="), Name, Sign("."), Name>>),
         LAMBDA names, q : Got([left |-> [table |-> names[1], column |-> names[3]],
                                right |-> [table |-> names[5], column |-> names[7]]], q))

(* Any number of JOIN, INNER JOIN and LEFT JOIN clauses.                   *)
parse_join(joins, t, q) ==
    LET word  == At(t, q)
        shape == (IF word = Keyword("JOIN") THEN <<>> ELSE <<word>>)
                 \o <<Keyword("JOIN"), Name, Keyword("ON")>>
        type  == IF word = Keyword("LEFT") THEN "left" ELSE "inner"
    IN  IF word \notin {Keyword("INNER"), Keyword("LEFT"), Keyword("JOIN")}
        THEN Got(<<>>, q)
        ELSE Then(Expect(t, q, shape), LAMBDA names, r :
             Then(parse_join_condition(t, r), LAMBDA on, s :
             Then(joins[s], LAMBDA others, u :
                 Got(<<[type |-> type, table |-> names[Len(names) - 1],
                        left |-> on.left, right |-> on.right]>> \o others, u))))

parse_joins(t, p) == LET joins[q \in Places(t)] == parse_join(joins, t, q) IN joins[p]

(* ORDER BY keeps the column of a reference and forgets its table.         *)
parse_order_item(t, p) ==
    Then(parse_select_item(t, p), LAMBDA item, q :
        LET kept == IF item.agg = "" THEN [agg |-> "", ref |-> Bare(item.ref.column)] ELSE item
        IN  Got([item |-> kept, desc |-> At(t, q) = Keyword("DESC")],
                IF At(t, q) \in {Keyword("ASC"), Keyword("DESC")} THEN q + 1 ELSE q))

(* A literal below zero becomes the unsigned number of the same bits.      *)
as_usize(n) == n % (2 * (MaxInt + 1))

parse_limit(t, p) ==
    LET tok == At(t, p)
    IN  IF tok[1] = "int" THEN Got(IntLiteral(as_usize(tok[2])), p + 1) ELSE OneOf(t, p, {})

parse_refs(t, p)  == Separated(Each(parse_column_ref, t), Comma, t, p)
parse_orders(t, p) == Separated(Each(parse_order_item, t), Comma, t, p)

parse_select(t, p) ==
    Then(Expect(t, p, <<Keyword("SELECT")>>), LAMBDA n, p1 :
    Then(parse_columns(t, p1), LAMBDA columns, p2 :
    Then(Expect(t, p2, <<Keyword("FROM"), Name>>), LAMBDA names, p3 :
    Then(parse_joins(t, p3), LAMBDA joins, p4 :
    Then(parse_where(t, p4), LAMBDA where, p5 :
    Then(Optional(<<Keyword("GROUP"), Keyword("BY")>>, parse_refs, <<>>, t, p5),
         LAMBDA group_by, p6 :
    Then(Optional(<<Keyword("HAVING")>>, parse_having_or, NoHaving, t, p6),
         LAMBDA having, p7 :
    Then(Optional(<<Keyword("ORDER"), Keyword("BY")>>, parse_orders, <<>>, t, p7),
         LAMBDA order_by, p8 :
    Then(Optional(<<Keyword("LIMIT")>>, parse_limit, NoLimit, t, p8), LAMBDA limit, p9 :
        Got([kind |-> "select", table |-> names[2], columns |-> columns, joins |-> joins,
             where |-> where, group_by |-> group_by, having |-> having,
             order_by |-> order_by, limit |-> limit], p9))))))))))

----------------------------------------------------------------------------
(* stmt[q] is the statement at q.                                          *)
parse_explain(stmt, t, p) ==
    Then(stmt[p + 1], LAMBDA inner, q :
        IF inner.kind \in {"select", "update", "delete"}
        THEN Got([kind |-> "explain", of |-> inner], q) ELSE Wrong("syntax", q))

parse_show(t, p) ==
    Then(Expect(t, p + 1, <<Name>>), LAMBDA names, q :
        IF Len(names[1]) = 1 /\ names[1][1] \in Words /\ Upper[names[1][1]] = "TABLES"
        THEN Got([kind |-> "show_tables"], q) ELSE Wrong("syntax", q))

parse_kind(stmt, t, p) ==
    LET word == At(t, p)
    IN  CASE word = NoToken -> Wrong("eof", p)
          [] word = Keyword("CREATE") -> parse_create(t, p)
          [] word = Keyword("INSERT") -> parse_insert(t, p)
          [] word = Keyword("SELECT") -> parse_select(t, p)
          [] word = Keyword("UPDATE") -> parse_update(t, p)
          [] word = Keyword("DELETE") -> parse_delete(t, p)
          [] word = Keyword("EXPLAIN") -> parse_explain(stmt, t, p)
          [] word = Keyword("SHOW") -> parse_show(t, p)
          [] word = Keyword("DESCRIBE") ->
                Then(Expect(t, p + 1, <<Name>>), LAMBDA names, q :
                    Got([kind |-> "describe", table |-> names[1]], q))
          [] word = Keyword("BEGIN") -> Got([kind |-> "begin"], p + 1)
          [] word = Keyword("COMMIT") -> Got([kind |-> "commit"], p + 1)
          [] word = Keyword("ROLLBACK") -> Got([kind |-> "rollback"], p + 1)
          [] OTHER -> Wrong("syntax", p)

parse_stmt(t, p) == LET stmt[q \in Places(t)] == parse_kind(stmt, t, q) IN stmt[p]

(* Mutant: after a semicolon the next statement is read, and replaces it.  *)
parse_last(t) ==
    Then(parse_stmt(t, 1), LAMBDA stmt, q :
        IF At(t, q) = Sign(";") /\ q < Len(t) THEN parse_stmt(t, q + 1) ELSE Got(stmt, q))

(* One statement and a semicolon, if there is one; what follows is ignored. *)
parse(t) == Then(parse_stmt(t, 1), LAMBDA stmt, q :
                Got(stmt, IF At(t, q) = Sign(";") THEN q + 1 ELSE q))
=============================================================================
