------------------------------- MODULE Query -------------------------------
(***************************************************************************)
(* A SELECT after it was parsed: exec_select and exec_grouped of           *)
(* src/snail_core/src/executor/mod.rs.  The statement passes the stages    *)
(*    scan, join (once per JOIN), filter, then order and project,          *)
(*    or, when it groups, group, compute and arrange,                      *)
(* and may be refused on the way.  Statements follow one another; what     *)
(* is stored does not change here.                                         *)
(*                                                                         *)
(* A combined row maps keys <<table, column>> to values and has no key     *)
(* where the stored row has no column.  Columns of one name have one type  *)
(* in all tables.  Integers are exact as f64 up to Exact (2^53 in the      *)
(* code), and those of 64 bits lie between -MaxInt - 1 and MaxInt.         *)
(***************************************************************************)
EXTENDS Where, SequencesExt

CONSTANTS Tables,
          ColumnsOf, \* table -> its columns
          IndexedOf, \* table -> its columns with an index
          Place,     \* table -> place of its name in byte order
          Contents,  \* what may be stored: table -> sequence of rows
          Queries,   \* the statements as written
          Havings,   \* HAVING conditions, closed under subexpressions
          Exact, MaxInt,
          NoLimit

VARIABLES store,  \* table -> its rows by row id
          query,  \* the statement being executed
          stage,  \* the next thing to do; "done" between statements
          joined, \* JOINs done
          rows,   \* combined rows
          groups, \* sequences of combined rows
          answer  \* the rows shown, a plan, Unanswered or Refused

(* A row of a table: a column left out is absent, the others hold NULL or  *)
(* a value of their type (coerce_value).                                   *)
InColumn(c) == {v \in Value : v # Null => v[1] = IF ColType[c] = "INTEGER" THEN "int" ELSE "text"}
StoredRow(t) == {r \in UNION {[C -> Value] : C \in SUBSET ColumnsOf[t]} :
                    \A c \in DOMAIN r : r[c] \in InColumn(c)}

NoHaving == [kind |-> "none"]
StarArg  == [table |-> "", column |-> "*"]   \* COUNT alone takes it

(* The levels of a HAVING condition above its comparisons.                 *)
HavingDepth[h \in Havings] == IF h.kind = "cmp" THEN 0
                              ELSE 1 + Max({HavingDepth[h.left], HavingDepth[h.right]})

(* A statement is a record of its clauses, lists in the order written.     *)
Statement(q) ==
    /\ q = [table |-> q.table, columns |-> q.columns, joins |-> q.joins, where |-> q.where,
            group_by |-> q.group_by, having |-> q.having, order_by |-> q.order_by,
            limit |-> q.limit]
    /\ \A list \in {q.columns, q.joins, q.group_by, q.order_by} : list \in Seq(Range(list))
    /\ q.where \in Exprs \cup {NoWhere}
    /\ q.having \in Havings \cup {NoHaving}
    /\ \A i \in DOMAIN q.columns : q.columns[i].ref = StarArg => q.columns[i].agg = "COUNT"
    /\ q.limit = NoLimit \/ q.limit \in 0 .. 2 * MaxInt + 1   \* unsigned

(* An identifier has at least one character: "" names no table.            *)
ASSUME QueryAssumption ==
    /\ "" \notin Tables
    /\ ColumnsOf \in [Tables -> SUBSET Columns]
    /\ \A t \in Tables : IndexedOf[t] \subseteq ColumnsOf[t]
    /\ Place \in [Tables -> Nat] /\ IsInjective(Place)
    /\ \A s \in Contents, t \in Tables : s[t] \in Seq(StoredRow(t))
    /\ Queries # {} /\ \A q \in Queries : Statement(q)
    /\ Exact \in Nat /\ MaxInt \in Nat

(* A HAVING condition is a finite tree.                                    *)
ASSUME HavingAssumption ==
    \A h \in Havings : /\ h.kind \in {"cmp", "and", "or"}
                       /\ HavingDepth[h] \in Nat
                       /\ h.kind = "cmp" /\ h.item.ref = StarArg => h.item.agg = "COUNT"
                       /\ h.kind # "cmp" => /\ {h.left, h.right} \subseteq Havings
                                            /\ HavingDepth[h.left] < HavingDepth[h]
                                            /\ HavingDepth[h.right] < HavingDepth[h]

vars == <<store, query, stage, joined, rows, groups, answer>>

Unanswered == <<"unanswered">>
Refused    == <<"refused">>
Shown(out) == <<"rows", out>>
Plan(lines) == <<"plan", lines>>

Star    == <<>>   \* for no select list
Grouping(q) == \/ q.group_by # <<>>
               \/ q.having # NoHaving
               \/ \E i \in DOMAIN q.columns : q.columns[i].agg # ""

TablesIn(q) == {q.table} \cup {q.joins[i].table : i \in DOMAIN q.joins}

(* ORDER BY keeps the column of a reference and forgets its table.         *)
parse_order_by(q) ==
    [q EXCEPT !.order_by = [i \in DOMAIN @ |->
        IF @[i].item.agg = "" THEN [@[i] EXCEPT !.item.ref.table = ""] ELSE @[i]]]

----------------------------------------------------------------------------
(* Columns of a combined row.                                              *)

qualify_row(t, row) ==
    [k \in {<<t, c>> : c \in DOMAIN row} |-> row[k[2]]]

Keys(row, ref) == {k \in DOMAIN row : k[2] = ref.column /\ ref.table \in {"", k[1]}}

(* A bare name stands for the first key, in byte order, that ends in it.   *)
FirstKey(row, ref) == CHOOSE k \in Keys(row, ref) :
                          \A l \in Keys(row, ref) : Place[k[1]] <= Place[l[1]]

lookup_ref(row, ref) == IF Keys(row, ref) = {} THEN Missing ELSE row[FirstKey(row, ref)]

Bare(c) == [table |-> "", column |-> c]
Flat(row) == [c \in Columns |-> lookup_ref(row, Bare(c))]

validate_column(ref, q) ==
    \E t \in TablesIn(q) : ref.table \in {"", t} /\ ref.column \in ColumnsOf[t]

----------------------------------------------------------------------------
(* Comparisons: -1, 0 or 1.                                                *)

Sign(m, n) == IF m < n THEN -1 ELSE IF m = n THEN 0 ELSE 1

(* The nearest float; a tie goes to the even mantissa.                     *)
as_f64(n) == IF n \in -Exact .. Exact \/ n % 2 = 0 THEN n
             ELSE CHOOSE m \in {n - 1, n + 1} : m % 4 = 0

(* Mutant: a missing value is equal to everything, too.                    *)
compare_json_values_lax(a, b) ==
    CASE a[1] = "int" /\ b[1] = "int"   -> Sign(as_f64(a[2]), as_f64(b[2]))
      [] a[1] = "text" /\ b[1] = "text" -> Sign(a[2], b[2])
      [] OTHER -> 0

(* A missing value sorts first; a NULL is equal to every other value.      *)
compare_json_values(a, b) ==
    CASE a[1] = "int" /\ b[1] = "int"   -> Sign(as_f64(a[2]), as_f64(b[2]))
      [] a[1] = "text" /\ b[1] = "text" -> Sign(a[2], b[2])
      [] a = Missing /\ b # Missing -> -1
      [] a # Missing /\ b = Missing -> 1
      [] OTHER -> 0

(* Computed cells add <<"avg", sum, count>>, a float.                      *)
Ratio(a) == [num |-> as_f64(a[2]), den |-> IF a[1] = "avg" THEN a[3] ELSE 1]

compare_cells(a, b) ==
    CASE a = Null \/ b = Null -> Sign(IF a = Null THEN 0 ELSE 1, IF b = Null THEN 0 ELSE 1)
      [] a[1] = "text" /\ b[1] = "text" -> Sign(a[2], b[2])
      [] a[1] # "text" /\ b[1] # "text" ->
            Sign(Ratio(a).num * Ratio(b).den, Ratio(b).num * Ratio(a).den)
      [] OTHER -> 0

TotalOrder(s, cmp(_, _)) ==
    \A i, j, k \in DOMAIN s :
        cmp(s[i], s[j]) <= 0 /\ cmp(s[j], s[k]) <= 0 => cmp(s[i], s[k]) <= 0

(* sort_by: stable.  The order is unspecified when cmp is not total.       *)
SortedBy(s, cmp(_, _)) ==
    LET Before(i, j) == cmp(s[i], s[j]) < 0 \/ (cmp(s[i], s[j]) = 0 /\ i < j)
        InTurn(p) == \A m, n \in DOMAIN p : m < n => Before(p[m], p[n])
    IN  {[i \in DOMAIN s |-> s[p[i]]] :
            p \in {q \in SetToSeqs(DOMAIN s) : TotalOrder(s, cmp) => InTurn(q)}}

(* The first clause that tells two rows apart; DESC turns it round.        *)
by_clauses(clauses, cmp(_, _)) ==
    LET Differ == {i \in DOMAIN clauses : cmp(clauses[i], i) # 0}
        first  == Min(Differ)
    IN  IF Differ = {} THEN 0
        ELSE IF clauses[first].desc THEN -cmp(clauses[first], first)
                                    ELSE cmp(clauses[first], first)

Truncated(s, limit) ==
    IF limit = NoLimit \/ limit >= Len(s) THEN s ELSE SubSeq(s, 1, limit)

----------------------------------------------------------------------------
Init == /\ store \in Contents
        /\ query = CHOOSE q \in Queries : TRUE
        /\ stage = "done"
        /\ joined = 0
        /\ rows = <<>>
        /\ groups = <<>>
        /\ answer = Unanswered

Ask(q) == /\ stage = "done"
          /\ query' = parse_order_by(q)
          /\ stage' = "scan"
          /\ joined' = 0 /\ rows' = <<>> /\ groups' = <<>> /\ answer' = Unanswered
          /\ UNCHANGED store

Refuse == /\ answer' = Refused
          /\ stage' = "done"
          /\ UNCHANGED <<store, query, joined, rows, groups>>

(* Only without JOINs may an index narrow the scan of the base table.      *)
index_where(q) == IF q.joins = <<>> THEN q.where ELSE NoWhere

(* The rows of a table that a scan reads, in the order of their ids.       *)
ReadRows(t, where) ==
    LET base == store[t]
        Stored(i, c) == IF c \in DOMAIN base[i] THEN base[i][c] ELSE Missing
        entries == {[column |-> c, value |-> Filed(Stored(i, c)), id |-> i] :
                        c \in IndexedOf[t], i \in DOMAIN base}
    IN  Picked(base, scan_rows(DOMAIN base, entries, IndexedOf[t], where))

Scan == /\ stage = "scan" /\ TablesIn(query) \subseteq Tables
        /\ LET read == ReadRows(query.table, index_where(query))
           IN  rows' = [i \in DOMAIN read |-> qualify_row(query.table, read[i])]
        /\ stage' = "join"
        /\ UNCHANGED <<store, query, joined, groups, answer>>

NoSuchTable == stage = "scan" /\ ~(TablesIn(query) \subseteq Tables) /\ Refuse

(* Mutant: two absent columns match.                                       *)
Partners_absentMatch(left_row, join) ==
    LET right == store[join.table]
        Beside(r) == qualify_row(join.table, r)
        OnHolds(r) == lookup_ref(left_row, join.left) = lookup_ref(Beside(r), join.right)
    IN  Picked([j \in DOMAIN right |-> Beside(right[j])],
               {j \in DOMAIN right : OnHolds(right[j])})

(* The rows of the joined table that go with a row; an absent column       *)
(* matches nothing, a NULL matches a NULL.                                 *)
Partners(left_row, join) ==
    LET right == store[join.table]
        Beside(r) == qualify_row(join.table, r)
        OnHolds(r) == /\ lookup_ref(left_row, join.left) # Missing
                      /\ lookup_ref(left_row, join.left) = lookup_ref(Beside(r), join.right)
    IN  Picked([j \in DOMAIN right |-> Beside(right[j])],
               {j \in DOMAIN right : OnHolds(right[j])})

(* Mutant: the row beside nothing has no values instead of NULLs.          *)
NullRow_missing(t) == [k \in {<<t, c>> : c \in ColumnsOf[t]} |-> Missing]

NullRow(t) == [k \in {<<t, c>> : c \in ColumnsOf[t]} |-> Null]

With(row, more) == [k \in (DOMAIN row) \cup (DOMAIN more) |->
                       IF k \in DOMAIN more THEN more[k] ELSE row[k]]

Join == /\ stage = "join" /\ joined < Len(query.joins)
        /\ LET join == query.joins[joined + 1]
               Merged(left_row) ==
                   LET found == Partners(left_row, join)
                   IN  IF found = <<>> /\ join.type = "left"
                       THEN <<With(left_row, NullRow(join.table))>>
                       ELSE [i \in DOMAIN found |-> With(left_row, found[i])]
           IN  rows' = FlattenSeq([i \in DOMAIN rows |-> Merged(rows[i])])
        /\ joined' = joined + 1
        /\ UNCHANGED <<store, query, stage, groups, answer>>

Filter == /\ stage = "join" /\ joined = Len(query.joins)
          /\ rows' = Picked(rows, {i \in DOMAIN rows : Matches(query.where, Flat(rows[i]))})
          /\ stage' = IF Grouping(query) THEN "group" ELSE "order"
          /\ UNCHANGED <<store, query, joined, groups, answer>>

----------------------------------------------------------------------------
(* Without grouping.                                                       *)

OrderedByAggregate == \E i \in DOMAIN query.order_by : query.order_by[i].item.agg # ""

AggregateUngrouped == stage = "order" /\ OrderedByAggregate /\ Refuse

CompareRows(a, b) ==
    LET Cmp(clause, i) == compare_json_values(lookup_ref(a, clause.item.ref),
                                              lookup_ref(b, clause.item.ref))
    IN  by_clauses(query.order_by, Cmp)

Order == /\ stage = "order" /\ ~OrderedByAggregate
         /\ rows' \in SortedBy(rows, CompareRows)
         /\ stage' = "project"
         /\ UNCHANGED <<store, query, joined, groups, answer>>

(* The library may also panic when the order is not total.                 *)
SortPanics == stage = "order" /\ ~TotalOrder(rows, CompareRows) /\ Refuse

(* The key an output column is read from: of a bare name the one the first *)
(* row shown has, whatever the other rows have.                            *)
OutKey(ref, out) ==
    IF ref.table # "" THEN <<ref.table, ref.column>>
    ELSE IF out # <<>> /\ Keys(Head(out), ref) # {} THEN FirstKey(Head(out), ref)
    ELSE <<"", ref.column>>

OutKeys(out) ==
    IF query.columns # Star THEN [i \in DOMAIN query.columns |->
                                     OutKey(query.columns[i].ref, out)]
    ELSE IF query.joins = <<>> THEN SetToSeq({<<query.table, c>> : c \in ColumnsOf[query.table]})
    ELSE IF out = <<>> THEN <<>> ELSE SetToSeq(DOMAIN Head(out))

Project ==
    /\ stage = "project"
    /\ LET out == Truncated(rows, query.limit)
           keys == OutKeys(out)
           Cell(row, k) == IF k \in DOMAIN row THEN row[k] ELSE Missing
       IN  answer' = Shown([i \in DOMAIN out |->
                               [n \in DOMAIN keys |-> Cell(out[i], keys[n])]])
    /\ stage' = "done"
    /\ UNCHANGED <<store, query, joined, rows, groups>>

----------------------------------------------------------------------------
(* With grouping.                                                          *)

Failed == <<"failed", 0>>

Values(ref, group) ==
    LET values == [i \in DOMAIN group |-> lookup_ref(group[i], ref)]
    IN  Picked(values, {i \in DOMAIN group : values[i] \notin {Null, Missing}})

(* Mutant: the sum wraps round.                                            *)
checked_add_wrapping(sum, v) ==
    IF sum = Failed \/ v[1] # "int" THEN Failed
    ELSE <<"int", ((sum[2] + v[2] + MaxInt + 1) % (2 * MaxInt + 2)) - MaxInt - 1>>

checked_add(sum, v) ==
    IF sum = Failed \/ v[1] # "int" \/ sum[2] + v[2] \notin -MaxInt - 1 .. MaxInt
    THEN Failed ELSE <<"int", sum[2] + v[2]>>

(* MIN and MAX keep the earlier of two equal values.                       *)
Best(func, values) ==
    LET Keep(a, b) == IF func = "MIN" THEN IF compare_json_values(a, b) <= 0 THEN a ELSE b
                                      ELSE IF compare_json_values(a, b) >= 0 THEN a ELSE b
    IN  IF values = <<>> THEN Null ELSE FoldLeft(Keep, Head(values), Tail(values))

compute_aggregate(item, group) ==
    LET values == Values(item.ref, group)
        sum == FoldLeft(checked_add, <<"int", 0>>, values)
    IN  IF item.ref = StarArg THEN <<"int", Len(group)>>
        ELSE CASE item.agg = "COUNT" -> <<"int", Len(values)>>
               [] item.agg \in {"SUM", "AVG"} ->
                     IF sum = Failed THEN Failed
                     ELSE IF values = <<>> THEN Null
                     ELSE IF item.agg = "SUM" THEN sum
                     ELSE <<"avg", sum[2], Len(values)>>
               [] item.agg \in {"MIN", "MAX"} -> Best(item.agg, values)

(* Mutant: NULL counts as the smallest number.                             *)
cmp_matches_nullSmallest(lhs, op, rhs) == Ordered(op, compare_cells(lhs, rhs), 0)

(* NULL, and a text beside a number, satisfy nothing.                      *)
cmp_matches(lhs, op, rhs) ==
    /\ Null \notin {lhs, rhs}
    /\ (lhs[1] = "text") = (rhs[1] = "text")
    /\ Ordered(op, compare_cells(lhs, rhs), 0)

(* "yes", "no" or "failed"; AND and OR leave out what they need not know.  *)
eval_comparison(having, group) ==
    LET lhs == compute_aggregate(having.item, group)
    IN  IF lhs = Failed THEN "failed"
        ELSE IF cmp_matches(lhs, having.op, having.value) THEN "yes" ELSE "no"

eval_having(having, group) ==
    LET verdict[h \in Havings] ==
            IF h.kind = "cmp" THEN eval_comparison(h, group)
            ELSE IF h.kind = "and"
                 THEN IF verdict[h.left] = "yes" THEN verdict[h.right] ELSE verdict[h.left]
                 ELSE IF verdict[h.left] = "no" THEN verdict[h.right] ELSE verdict[h.left]
    IN  IF having = NoHaving THEN "yes" ELSE verdict[having]

validate_having(having) ==
    LET valid[h \in Havings] ==
            IF h.kind = "cmp" THEN h.item.ref = StarArg \/ validate_column(h.item.ref, query)
                              ELSE valid[h.left] /\ valid[h.right]
    IN  having # NoHaving => valid[having]

is_grouped_column(ref, group_by) ==
    \E i \in DOMAIN group_by : /\ group_by[i].column = ref.column
                               /\ \/ group_by[i].table = ref.table
                                  \/ "" \in {group_by[i].table, ref.table}

Valid == /\ query.columns # Star
         /\ \A i \in DOMAIN query.group_by : validate_column(query.group_by[i], query)
         /\ \A i \in DOMAIN query.columns :
                LET item == query.columns[i] IN
                /\ item.ref = StarArg \/ validate_column(item.ref, query)
                /\ item.agg = "" => is_grouped_column(item.ref, query.group_by)
         /\ validate_having(query.having)

Invalid == stage = "group" /\ ~Valid /\ Refuse

(* Mutant: NULLs are left out of the key.                                  *)
GroupKey_nullsLeftOut(row) ==
    LET key == [i \in DOMAIN query.group_by |-> Filed(lookup_ref(row, query.group_by[i]))]
    IN  Picked(key, {i \in DOMAIN key : key[i] # Null})

GroupKey(row) ==
    [i \in DOMAIN query.group_by |-> Filed(lookup_ref(row, query.group_by[i]))]

(* One group per key in the order first seen; all rows without GROUP BY.   *)
FirstSeen == {i \in DOMAIN rows : \A j \in 1 .. i - 1 : GroupKey(rows[j]) # GroupKey(rows[i])}
SameGroup(i) == {j \in DOMAIN rows : GroupKey(rows[j]) = GroupKey(rows[i])}

Group ==
    /\ stage = "group" /\ Valid
    /\ groups' = IF query.group_by = <<>> THEN <<rows>>
                 ELSE [g \in 1 .. Cardinality(FirstSeen) |->
                          Picked(rows, SameGroup(InOrder(FirstSeen)[g]))]
    /\ stage' = "compute"
    /\ UNCHANGED <<store, query, joined, rows, answer>>

CellOf(item, group) ==
    IF item.agg # "" THEN compute_aggregate(item, group)
    ELSE IF group = <<>> THEN Null ELSE Filed(lookup_ref(Head(group), item.ref))

(* The groups HAVING keeps, as rows of cells.  An error in any stops it.   *)
Kept == Picked(groups, {g \in DOMAIN groups : eval_having(query.having, groups[g]) = "yes"})
Cells(group) == [n \in DOMAIN query.columns |-> CellOf(query.columns[n], group)]

Computable == /\ \A i \in DOMAIN groups : eval_having(query.having, groups[i]) # "failed"
              /\ \A i \in DOMAIN Kept : Failed \notin Range(Cells(Kept[i]))

(* An ORDER BY entry names a column of the select list by its header.      *)
Headed(clause) ==
    {n \in DOMAIN query.columns :
        LET item == query.columns[n] IN
        IF clause.item.agg # "" THEN item = clause.item
        ELSE item.agg = "" /\ item.ref.column = clause.item.ref.column}

Sortable == \A i \in DOMAIN query.order_by : Headed(query.order_by[i]) # {}

NotComputable == stage = "compute" /\ ~(Computable /\ Sortable) /\ Refuse

CompareCells(a, b) ==
    LET Cmp(clause, i) == compare_cells(a[Min(Headed(clause))], b[Min(Headed(clause))])
    IN  by_clauses(query.order_by, Cmp)

Compute ==
    /\ stage = "compute" /\ Computable /\ Sortable
    /\ \E out \in SortedBy([i \in DOMAIN Kept |-> Cells(Kept[i])], CompareCells) :
           answer' = Shown(Truncated(out, query.limit))
    /\ stage' = "done"
    /\ UNCHANGED <<store, query, joined, rows, groups>>

----------------------------------------------------------------------------
(* EXPLAIN.                                                                *)

(* Mutant: the plan of a SELECT with JOINs names an index, too.            *)
first_line_indexed(q) == scan_line(q.table, IndexedOf[q.table], q.where)

first_line(q) == IF q.joins = <<>> THEN scan_line(q.table, IndexedOf[q.table], q.where)
                                   ELSE <<"full scan", q.table>>

exec_explain(q) ==
    LET Line(there, line) == IF there THEN <<line>> ELSE <<>>
        aggregates == \E i \in DOMAIN q.columns : q.columns[i].agg # ""
    IN  IF ~(TablesIn(q) \subseteq Tables) THEN Refused
        ELSE Plan(<<first_line(q)>>
                  \o [i \in DOMAIN q.joins |-> <<"join", q.joins[i]>>]
                  \o Line(q.where # NoWhere, <<"filter", q.where>>)
                  \o Line(q.group_by # <<>>, <<"group by", q.group_by>>)
                  \o Line(q.group_by = <<>> /\ aggregates, <<"aggregate">>)
                  \o Line(q.having # NoHaving, <<"having", q.having>>)
                  \o Line(q.order_by # <<>>, <<"sort by", q.order_by>>)
                  \o Line(q.limit # NoLimit, <<"limit", q.limit>>))

(* The statement is described and not run.                                 *)
Explain(q) == /\ stage = "done"
              /\ query' = parse_order_by(q)
              /\ answer' = exec_explain(query')
              /\ joined' = 0 /\ rows' = <<>> /\ groups' = <<>>
              /\ UNCHANGED <<store, stage>>

Next == \/ \E q \in Queries : Ask(q) \/ Explain(q)
        \/ Scan \/ NoSuchTable \/ Join \/ Filter
        \/ AggregateUngrouped \/ SortPanics \/ Order \/ Project
        \/ Invalid \/ Group \/ NotComputable \/ Compute

Spec == Init /\ [][Next]_vars

----------------------------------------------------------------------------
(* Properties.                                                             *)

TypeOK == /\ store \in Contents
          /\ stage \in {"scan", "join", "order", "project", "group", "compute", "done"}
          /\ joined \in 0 .. Len(query.joins)
          /\ \A i \in DOMAIN rows : \A k \in DOMAIN rows[i] :
                 k[2] \in ColumnsOf[k[1]] /\ rows[i][k] \in Value
          /\ answer \in {Unanswered, Refused} \/ answer[1] \in {"rows", "plan"}

Answered == stage = "done" /\ answer[1] = "rows"
Count(s, x) == Cardinality({i \in DOMAIN s : s[i] = x})

(* Before they are cut to LIMIT, the rows are the pairs of stored rows     *)
(* that satisfy ON and WHERE, each once, and in a LEFT JOIN every base row *)
(* without a partner beside NULLs, whether or not an index narrowed the    *)
(* scan; sorting loses none (exec_select, executor/mod.rs:241-320).        *)
RowsComplete ==
    LET base == store[query.table]
        join == query.joins[1]
        other == store[join.table]
        On(i, j) == /\ join.left.column \in DOMAIN base[i]
                    /\ join.right.column \in DOMAIN other[j]
                    /\ base[i][join.left.column] = other[j][join.right.column]
        Alone(i) == join.type = "left" /\ ~\E j \in DOMAIN other : On(i, j)
        Pairs == IF query.joins = <<>> THEN {<<i, 0>> : i \in DOMAIN base}
                 ELSE {p \in (DOMAIN base) \X (DOMAIN other) : On(p[1], p[2])}
                      \cup {<<i, 0>> : i \in {k \in DOMAIN base : Alone(k)}}
        Combined(p) ==
            With(qualify_row(query.table, base[p[1]]),
                 CASE query.joins = <<>> -> <<>>
                   [] p[2] # 0 -> qualify_row(join.table, other[p[2]])
                   [] OTHER -> NullRow(join.table))
        Expected == {p \in Pairs : Matches(query.where, Flat(Combined(p)))}
    IN  /\ stage \in {"order", "project", "group"}
        /\ \A i \in DOMAIN query.joins : /\ i = 1
                                         /\ join.left.table = query.table
                                         /\ join.right.table = join.table
                                         /\ join.table # query.table
        => \A row \in Range(rows) \cup {Combined(p) : p \in Expected} :
               Count(rows, row) = Cardinality({p \in Expected : Combined(p) = row})

(* ORDER BY sorts by its clauses in turn, each in its own direction, a     *)
(* missing value first, and keeps the order of rows it does not tell       *)
(* apart, as long as no NULL is sorted and numbers are exact               *)
(* (executor/mod.rs:324-338).                                              *)
RowsSorted ==
    LET Key(i, n) == lookup_ref(rows[i], query.order_by[n].item.ref)
        Below(v, w) == v # w /\ (v = Missing \/ (w # Missing /\ v[2] < w[2]))
        Precedes(i, j) ==
            \E n \in DOMAIN query.order_by :
                /\ \A m \in 1 .. n - 1 : Key(i, m) = Key(j, m)
                /\ IF query.order_by[n].desc THEN Below(Key(j, n), Key(i, n))
                                             ELSE Below(Key(i, n), Key(j, n))
        Plain == \A i \in DOMAIN rows, n \in DOMAIN query.order_by :
                     Key(i, n) # Null /\ Key(i, n)[2] \in -Exact .. Exact
    IN  stage = "project" /\ Plain =>
            \A i, j \in DOMAIN rows : i < j => ~Precedes(j, i)

(* GROUP BY puts every row into exactly one group, two rows into one group *)
(* exactly when they agree on all grouping columns, a missing value and    *)
(* NULL being the same; groups are in first-seen order                     *)
(* (executor/mod.rs:1221-1241).                                            *)
GroupsPartition ==
    LET Agree(r1, r2) == \A i \in DOMAIN query.group_by :
            Filed(lookup_ref(r1, query.group_by[i])) = Filed(lookup_ref(r2, query.group_by[i]))
        First(g) == Min({i \in DOMAIN rows : rows[i] = Head(groups[g])})
    IN  stage = "compute" =>
            /\ \A row \in Range(rows) \cup Range(FlattenSeq(groups)) :
                   Count(FlattenSeq(groups), row) = Count(rows, row)
            /\ query.group_by # <<>> =>
                   \A g, h \in DOMAIN groups :
                       /\ groups[g] # <<>>
                       /\ g < h => First(g) < First(h)
                       /\ \A r1 \in Range(groups[g]), r2 \in Range(groups[h]) :
                              Agree(r1, r2) <=> g = h

Total(values) == FoldLeft(LAMBDA n, v : n + v[2], 0, values)

(* Every row is counted and every number added in some group: over the     *)
(* groups shown, COUNT and SUM add up to those of all rows, however the    *)
(* rows were grouped and wherever 64 bits end (compute_aggregate,          *)
(* executor/mod.rs:1318).                                                  *)
TotalsAgree ==
    Answered /\ Grouping(query) /\ query.having = NoHaving /\ query.limit = NoLimit =>
        \A n \in DOMAIN query.columns :
            LET item == query.columns[n]
                cells == [i \in DOMAIN answer[2] |-> answer[2][i][n]]
            IN  /\ item.ref = StarArg => Total(cells) = Len(rows)
                /\ item.agg = "COUNT" /\ item.ref # StarArg =>
                       Total(cells) = Len(Values(item.ref, rows))
                /\ item.agg \in {"SUM", "AVG"} => Total(cells) = Total(Values(item.ref, rows))

(* HAVING keeps exactly the groups whose COUNT or SUM satisfies it as a    *)
(* number, a SUM of nothing satisfying nothing, up to the integers a float *)
(* can tell apart (eval_having, executor/mod.rs:1144).                     *)
HavingNumeric ==
    LET h == query.having
        Number(g) == IF h.item.ref = StarArg THEN Len(g)
                     ELSE IF h.item.agg = "COUNT" THEN Len(Values(h.item.ref, g))
                     ELSE Total(Values(h.item.ref, g))
        Holds(g) == /\ h.item.agg = "SUM" => Values(h.item.ref, g) # <<>>
                    /\ Ordered(h.op, Number(g), h.value[2])
        Exactly == /\ h.item.agg \in {"COUNT", "SUM"}
                   /\ h.value[1] = "int" /\ h.value[2] \in -Exact .. Exact
                   /\ \A g \in Range(groups) : Number(g) \in -Exact .. Exact
    IN  Answered /\ query.limit = NoLimit /\ h.kind = "cmp" /\ Exactly =>
            Len(answer[2]) = Cardinality({g \in DOMAIN groups : Holds(groups[g])})

(* What a step does, the plan has a line for.                              *)
AsPlanned ==
    LET plan == exec_explain(query)
        Says(what) == \E n \in DOMAIN plan[2] : plan[2][n][1] = what
        first == plan[2][1]
        Reads(row) == first[1] = "index scan" =>
            LET lookup == first[3] IN
            /\ lookup.column \in DOMAIN row
            /\ compare(row[lookup.column], lookup.op, lookup.value)
    IN  /\ stage = "scan" /\ stage' = "join" =>
               /\ plan # Refused
               /\ rows' = LET there == store[first[2]]
                          IN  Picked([i \in DOMAIN there |-> qualify_row(first[2], there[i])],
                                     {i \in DOMAIN there : Reads(there[i])})
        /\ stage # "done" /\ joined' # joined =>
               plan[2][joined + 2] = <<"join", query.joins[joined + 1]>>
        /\ stage = "join" /\ stage' # "join" /\ rows' # rows => Says("filter")
        /\ stage = "order" /\ rows' # rows => Says("sort by")
        /\ stage = "group" /\ stage' = "compute" => Says("group by") \/ Says("aggregate")
        /\ stage = "compute" /\ answer' # Refused /\ Len(answer'[2]) # Len(groups) =>
               Says("having") \/ Says("limit")
        /\ stage = "project" /\ Len(answer'[2]) # Len(rows) => Says("limit")

(* "EXPLAIN reuses the same planner as execution, so it cannot drift from  *)
(* what actually runs" (docs/ARCHITECTURE.md:51): a SELECT that finds its  *)
(* tables has a plan, the plan's first line says which rows are read, and  *)
(* no step joins, leaves out, orders or groups rows without a line for it  *)
(* (exec_explain, executor/mod.rs:533).                                    *)
PlanAsExecuted == [][AsPlanned]_vars

(* A bare column in the select list shows each row's value of a column of  *)
(* that name ("Unqualified - find which table has this column",            *)
(* executor/mod.rs:373).                                                   *)
NamedColumnsShown ==
    Answered /\ ~Grouping(query) /\ query.columns # Star =>
        \A i \in DOMAIN answer[2], n \in DOMAIN query.columns :
            validate_column(query.columns[n].ref, query) =>
                answer[2][i][n] = lookup_ref(rows[i], query.columns[n].ref)
=============================================================================
