---------------------------- MODULE Statements -----------------------------
(***************************************************************************)
(* The statements of the engine and what a single one says about a single  *)
(* row: which statements the handlers reject before touching a row, the    *)
(* row an INSERT stores, the row an UPDATE leaves.  Every table has the    *)
(* same columns: a statement may still name others.                        *)
(***************************************************************************)
EXTENDS Where

CONSTANTS Tables,
          Statements  \* the statements a session may execute

NoStatement == [kind |-> "none", table |-> ""]

OfKind(kinds) == {s \in Statements : s.kind \in kinds}
Selects == OfKind({"select"})
Writes  == OfKind({"create_table", "create_index", "insert", "update", "delete"})
Reports == OfKind({"show_tables", "describe", "explain"})

ASSUME StatementsAssumption ==
    \A s \in Statements :
        /\ s.kind # "show_tables" => s.table \in Tables
        /\ s.kind \in {"update", "delete", "select"} => s.where \in Exprs \cup {NoWhere}
        /\ s.kind = "explain" => /\ s.of.kind \in {"update", "delete"}
                                 /\ s.of.table = s.table
                                 /\ s.of.where \in Exprs \cup {NoWhere}
        /\ s.kind = "insert" => /\ s.columns \in Seq(STRING)
                                /\ s.rows \in Seq(Seq(Value))
        /\ s.kind = "update" => s.assignments \in Seq([column : STRING, value : Value])

(* The value an INSERT gives a column: of a column named twice the last    *)
(* one counts, a column not named is missing from the row.                 *)
Given(columns, literals, c) ==
    LET at == {i \in DOMAIN columns : columns[i] = c}
    IN  IF at = {} THEN Missing
                   ELSE coerce_value(literals[Max(at)], ColType[c])

(* All literals of a row are converted, also those a later one replaces.   *)
Coercible(columns, literals) ==
    \A i \in DOMAIN columns :
        coerce_value(literals[i], ColType[columns[i]]) # TypeMismatch

InsertedRow(columns, literals) == [c \in Columns |-> Given(columns, literals, c)]

AssignableAll(assignments) ==
    \A i \in DOMAIN assignments :
        coerce_value(assignments[i].value, ColType[assignments[i].column]) # TypeMismatch

(* Assignments apply in order, so of two to one column the last one counts.*)
UpdatedRow(assignments, row) ==
    [c \in Columns |->
        LET at == {i \in DOMAIN assignments : assignments[i].column = c}
        IN  IF at = {} THEN row[c]
                       ELSE coerce_value(assignments[Max(at)].value, ColType[c])]

(* What the handlers check of a statement itself, once its table is known  *)
(* to exist: row lengths before column names.                              *)
WellFormed(s) ==
    CASE s.kind = "insert" -> /\ \A i \in DOMAIN s.rows : Len(s.rows[i]) = Len(s.columns)
                              /\ \A i \in DOMAIN s.columns : s.columns[i] \in Columns
      [] s.kind = "update" -> \A i \in DOMAIN s.assignments :
                                  s.assignments[i].column \in Columns
      [] s.kind = "create_index" -> s.column \in Columns
      [] OTHER -> TRUE

----------------------------------------------------------------------------
(* What is reported of a table with the indexes defs.                      *)

exec_describe(defs) ==
    [c \in Columns |-> [type |-> ColType[c],
                        index |-> {d.name : d \in {e \in defs : e.column = c}}]]

exec_explain(s, defs) ==
    <<scan_line(s.table, {d.column : d \in defs}, s.where)>>
    \o (IF s.where = NoWhere THEN <<>> ELSE <<<<"filter", s.where>>>>)
    \o (IF s.kind = "delete" THEN <<<<"delete">>>>
        ELSE <<<<"update", [i \in DOMAIN s.assignments |-> s.assignments[i].column]>>>>)
=============================================================================
