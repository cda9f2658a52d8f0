------------------------------- MODULE Where -------------------------------
(***************************************************************************)
(* The WHERE clause of src/snail_core/src/executor/mod.rs: stored values   *)
(* and how a literal becomes one, what a condition says of a row, and      *)
(* which index the planner answers it from.                                *)
(*                                                                         *)
(* A value is <<tag, n>>.  An "int" n is the number itself; a "text" n is  *)
(* the place of the string in byte order among the strings considered, so  *)
(* that < on n is < on the strings.  What printing an integer and parsing  *)
(* a string do is given by the functions TextOf and IntOf.                 *)
(***************************************************************************)
EXTENDS Integers, Sequences, FiniteSets, FiniteSetsExt

CONSTANTS Columns,
          ColType,  \* column -> "INTEGER" or "TEXT"
          Ints,     \* the integers considered
          Texts,    \* the strings considered, as places in byte order
          TextOf,   \* integer -> the string to_string() gives
          IntOf,    \* string -> the integer parse() gives, or NotANumber
          NotANumber,
          Exprs     \* WHERE expressions, closed under subexpressions

(* The levels of an expression above its comparisons.                      *)
Depth[e \in Exprs] == IF e.kind = "cmp" THEN 0
                      ELSE 1 + Max({Depth[e.left], Depth[e.right]})

(* An expression is a finite tree: its parts are boxed inside it.  There   *)
(* is one NULL literal.                                                    *)
ASSUME WhereAssumption ==
    /\ ColType \in [Columns -> {"INTEGER", "TEXT"}]
    /\ Ints \subseteq Int /\ Texts \subseteq Int
    /\ TextOf \in [Ints -> Texts]
    /\ IntOf \in [Texts -> Ints \cup {NotANumber}] /\ NotANumber \notin Ints
    /\ \A e \in Exprs : /\ e.kind \in {"cmp", "and", "or"}
                        /\ Depth[e] \in Nat
                        /\ e.kind = "cmp" /\ e.value[1] = "null" => e.value = <<"null", 0>>
                        /\ e.kind # "cmp" =>
                               /\ {e.left, e.right} \subseteq Exprs
                               /\ Depth[e.left] < Depth[e]
                               /\ Depth[e.right] < Depth[e]

Null    == <<"null", 0>>
Missing == <<"missing", 0>>   \* the row's JSON object has no such key
TypeMismatch == <<"mismatch", 0>>

Value == {<<"int", n>> : n \in Ints} \cup {<<"text", n>> : n \in Texts} \cup {Null}
Row   == [Columns -> Value \cup {Missing}]

(* What a statement stores for literal val in a column of type col_type.   *)
coerce_value(val, col_type) ==
    CASE val = Null -> Null
      [] val[1] = "int"  /\ col_type = "INTEGER" -> val
      [] val[1] = "text" /\ col_type = "TEXT"    -> val
      [] val[1] = "int"  /\ col_type = "TEXT"    -> <<"text", TextOf[val[2]]>>
      [] val[1] = "text" /\ col_type = "INTEGER" ->
            IF IntOf[val[2]] = NotANumber THEN TypeMismatch
                                          ELSE <<"int", IntOf[val[2]]>>

----------------------------------------------------------------------------
(* Evaluation.  A comparison is [kind |-> "cmp", column, op, value]; "and" *)
(* and "or" have a left and a right side.                                  *)

Ordered(op, m, n) == \/ op = "="  /\ m = n
                     \/ op = "!=" /\ m # n
                     \/ op = "<"  /\ m < n
                     \/ op = "<=" /\ m <= n
                     \/ op = ">"  /\ m > n
                     \/ op = ">=" /\ m >= n

(* NULL, a missing column and a value of the other type match nothing, not *)
(* even with !=.                                                           *)
compare(row_val, op, literal) == /\ row_val[1] \in {"int", "text"}
                                 /\ row_val[1] = literal[1]
                                 /\ Ordered(op, row_val[2], literal[2])

(* A column the table does not have is missing from every row.             *)
Lookup(row, column) == IF column \in Columns THEN row[column] ELSE Missing

eval_expr(expr, row) ==
    LET holds[e \in Exprs] ==
            \/ e.kind = "cmp" /\ compare(Lookup(row, e.column), e.op, e.value)
            \/ e.kind = "and" /\ holds[e.left] /\ holds[e.right]
            \/ e.kind = "or"  /\ (holds[e.left] \/ holds[e.right])
    IN  holds[expr]

NoWhere == [kind |-> "none"]

Matches(where, row) == where # NoWhere => eval_expr(where, row)

----------------------------------------------------------------------------
(* Planning.                                                               *)

(* Mutant: the conditions under an OR count too.                           *)
conjuncts_underOr ==
    LET parts[e \in Exprs] == IF e.kind = "cmp" THEN <<e>>
                              ELSE parts[e.left] \o parts[e.right]
    IN  [e \in Exprs |-> parts[e]]

(* The AND-ed conditions of an expression; nothing under an OR counts.     *)
conjuncts ==
    LET parts[e \in Exprs] ==
            IF e.kind = "cmp" THEN <<e>>
            ELSE IF e.kind = "and" THEN parts[e.left] \o parts[e.right]
            ELSE <<>>
    IN  [e \in Exprs |-> parts[e]]

NoIndex == [column |-> "", op |-> "", value |-> Null]

(* The first equality on an indexed column, else the first range.          *)
choose_index(indexed, expr) ==
    LET parts      == conjuncts[expr]
        usable     == {i \in DOMAIN parts : /\ parts[i].op # "!="
                                            /\ parts[i].value # Null
                                            /\ parts[i].column \in indexed}
        equalities == {i \in usable : parts[i].op = "="}
        Answers(i) == [column |-> parts[i].column, op |-> parts[i].op,
                       value |-> parts[i].value]
    IN  IF equalities # {} THEN Answers(Min(equalities))
        ELSE IF usable # {} THEN Answers(Min(usable))
        ELSE NoIndex

(* How an index files a value: a missing column as NULL.                   *)
Filed(v) == IF v = Missing THEN Null ELSE v

(* Entries [column, value, id] of an index between the bounds of a lookup. *)
(* Keys order by type, then value, then row id (module IndexKeys), so the  *)
(* range is the values of the literal's type that compare with it.         *)
index_candidate_keys(entries, lookup) ==
    {e.id : e \in {d \in entries :
                      /\ d.column = lookup.column
                      /\ d.value[1] = lookup.value[1]
                      /\ Ordered(lookup.op, d.value[2], lookup.value[2])}}

(* Which of the rows a WHERE may select: those the chosen index names, as  *)
(* far as they exist, or all of them.                                      *)
scan_rows(ids, entries, indexed, where) ==
    LET lookup == IF where = NoWhere THEN NoIndex ELSE choose_index(indexed, where)
    IN  IF lookup = NoIndex THEN ids
                            ELSE index_candidate_keys(entries, lookup) \cap ids

(* The access path of a scan, as a plan names it.                          *)
scan_line(t, indexed, where) ==
    LET lookup == IF where = NoWhere THEN NoIndex ELSE choose_index(indexed, where)
    IN  IF lookup = NoIndex THEN <<"full scan", t>> ELSE <<"index scan", t, lookup>>

----------------------------------------------------------------------------
(* Rows come in the order of their places: their ids, or where they are in *)
(* a list.                                                                 *)

InOrder(places) ==
    CHOOSE f \in [1 .. Cardinality(places) -> places] :
        \A m, n \in DOMAIN f : m < n => f[m] < f[n]

Picked(rows, places) == [n \in 1 .. Cardinality(places) |-> rows[InOrder(places)[n]]]
=============================================================================
