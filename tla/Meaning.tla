------------------------------ MODULE Meaning ------------------------------
(***************************************************************************)
(* What the statements that Bridge reads say, and what their conditions    *)
(* mean: read off the syntax tree, off the text it was parsed from, and    *)
(* off a plan, which prints conditions again (executor/mod.rs).            *)
(***************************************************************************)
EXTENDS Bridge

----------------------------------------------------------------------------
(* How a plan prints conditions, as tokens.                                *)

(* Mutant: what is inside is not wrapped.                                  *)
wrap_never(s, top) == s

wrap(s, top) == IF top THEN s ELSE <<Open>> \o s \o <<Close>>

fmt_value(v) == IF v = Null THEN Keyword("NULL") ELSE v

display_ref(ref) ==
    (IF ref.table = <<>> THEN <<>> ELSE <<Ident(ref.table), Sign(".")>>)
    \o <<IF ref = StarArg THEN Sign("*") ELSE Ident(ref.column)>>

display_item(item) == IF item.agg = "" THEN display_ref(item.ref)
                      ELSE <<Ident(<<item.agg>>), Open>> \o display_ref(item.ref) \o <<Close>>

RECURSIVE fmt_expr(_, _)
fmt_expr(e, top) ==
    IF e.kind = "cmp"
    THEN (IF "item" \in DOMAIN e THEN display_item(e.item) ELSE <<Ident(e.column)>>)
         \o <<Sign(e.op), fmt_value(e.value)>>
    ELSE wrap(fmt_expr(e.left, FALSE)
              \o <<Keyword(IF e.kind = "and" THEN "AND" ELSE "OR")>>
              \o fmt_expr(e.right, FALSE), top)

----------------------------------------------------------------------------
(* What conditions mean, comparisons being told apart by their literals:   *)
(* read off the tree, and off the tokens by the standard precedence.       *)

RECURSIVE True(_, _)
True(e, truths) == CASE e.kind = "cmp" -> e.value \in truths
                     [] e.kind = "and" -> True(e.left, truths) /\ True(e.right, truths)
                     [] e.kind = "or"  -> True(e.left, truths) \/ True(e.right, truths)

Count(t, tok, i) == Cardinality({j \in 1 .. i - 1 : t[j] = tok})

RECURSIVE StandardReading(_, _)
StandardReading(t, truths) ==
    LET outside(word) == {i \in DOMAIN t : /\ t[i] = Keyword(word)
                                           /\ Count(t, Open, i) = Count(t, Close, i)}
        Left(i)  == StandardReading(SubSeq(t, 1, i - 1), truths)
        Right(i) == StandardReading(SubSeq(t, i + 1, Len(t)), truths)
    IN  IF outside("OR") # {} THEN \E i \in {Min(outside("OR"))} : Left(i) \/ Right(i)
        ELSE IF outside("AND") # {} THEN \E i \in {Min(outside("AND"))} : Left(i) /\ Right(i)
        ELSE IF t[1] = Open THEN StandardReading(SubSeq(t, 2, Len(t) - 1), truths)
        ELSE Last(t) \in truths

Literals(t) == {tok \in Range(t) : tok[1] \in {"int", "text"}}

Taken == SubSeq(tokens, 1, reading.next - 1)

(* The tokens of a clause: from its word to the next clause or the end.    *)
Clause(word) ==
    LET starts == {i \in DOMAIN Taken : Taken[i] = Keyword(word)}
        Ends(i) == {j \in i + 1 .. Len(Taken) :
                       Taken[j] \in {Keyword("GROUP"), Keyword("HAVING"), Keyword("ORDER"),
                                     Keyword("LIMIT"), Sign(";")}} \cup {Len(Taken) + 1}
    IN  IF starts = {} THEN <<>> ELSE SubSeq(Taken, Min(starts) + 1, Min(Ends(Min(starts))) - 1)

Statement == IF reading.node.kind = "explain" THEN reading.node.of ELSE reading.node

(* A clause's condition and the tokens it was read from.                   *)
Conditions ==
    IF ~reading.ok THEN {}
    ELSE {c \in {<<Statement.where, Clause("WHERE")>> :
                    k \in {Statement.kind} \cap {"select", "update", "delete"}}
              \cup {<<Statement.having, Clause("HAVING")>> :
                    k \in {Statement.kind} \cap {"select"}} : c[1].kind # "none"}

----------------------------------------------------------------------------
(* Properties.                                                             *)

(* "WHERE and HAVING both parse AND tighter than OR, with parentheses      *)
(* supported in WHERE" (docs/ARCHITECTURE.md:79): whichever comparisons    *)
(* hold, a condition means what its text says (parse_or, parse_having_or,  *)
(* sql/parser.rs:483-548).                                                 *)
StandardPrecedence ==
    \A c \in Conditions : \A truths \in SUBSET Literals(c[2]) :
        True(c[1], truths) = StandardReading(c[2], truths)

(* The FILTER and HAVING lines of a plan, read by the standard precedence, *)
(* mean what is executed (fmt_expr, fmt_having, executor/mod.rs:867-905).  *)
PlanConditionsFaithful ==
    \A c \in Conditions : \A truths \in SUBSET Literals(c[2]) :
        StandardReading(fmt_expr(c[1], TRUE), truths) = True(c[1], truths)

(* A statement as its text would be written.                               *)
Listed(parts) == FoldLeft(LAMBDA s, part : IF s = <<>> THEN part ELSE s \o <<Comma>> \o part,
                          <<>>, parts)
On(word, s) == IF s = <<>> THEN <<>> ELSE word \o s
Shown(Spell(_), s) == Listed([i \in DOMAIN s |-> Spell(s[i])])
Condition(word, e) == IF e.kind = "none" THEN <<>> ELSE <<Keyword(word)>> \o fmt_expr(e, TRUE)

Joined(j) ==
    (IF j.type = "left" THEN <<Keyword("LEFT")>> ELSE <<>>)
    \o <<Keyword("JOIN"), Ident(j.table), Keyword("ON")>>
    \o display_ref(j.left) \o <<Sign("=")>> \o display_ref(j.right)

Bracketed(s) == <<Open>> \o s \o <<Close>>

(* A limit above MaxInt was written below zero.                            *)
Signed(n) == IntLiteral(IF n > MaxInt THEN n - 2 * (MaxInt + 1) ELSE n)

Sorted(o) == display_item(o.item) \o IF o.desc THEN <<Keyword("DESC")>> ELSE <<>>

RECURSIVE Spelled(_)
Spelled(s) ==
    CASE s.kind = "select" ->
            <<Keyword("SELECT")>>
            \o (IF s.columns = Star THEN <<Sign("*")>> ELSE Shown(display_item, s.columns))
            \o <<Keyword("FROM"), Ident(s.table)>>
            \o FlattenSeq([i \in DOMAIN s.joins |-> Joined(s.joins[i])])
            \o Condition("WHERE", s.where)
            \o On(<<Keyword("GROUP"), Keyword("BY")>>, Shown(display_ref, s.group_by))
            \o Condition("HAVING", s.having)
            \o On(<<Keyword("ORDER"), Keyword("BY")>>, Shown(Sorted, s.order_by))
            \o (IF s.limit = NoLimit THEN <<>> ELSE <<Keyword("LIMIT"), Signed(s.limit[2])>>)
      [] s.kind = "insert" ->
            <<Keyword("INSERT"), Keyword("INTO"), Ident(s.table)>>
            \o Bracketed(Shown(LAMBDA c : <<Ident(c)>>, s.columns)) \o <<Keyword("VALUES")>>
            \o Shown(LAMBDA row : Bracketed(Shown(LAMBDA v : <<fmt_value(v)>>, row)), s.rows)
      [] s.kind = "update" ->
            <<Keyword("UPDATE"), Ident(s.table), Keyword("SET")>>
            \o Shown(LAMBDA a : <<Ident(a.column), Sign("="), fmt_value(a.value)>>, s.assignments)
            \o Condition("WHERE", s.where)
      [] s.kind = "delete" -> <<Keyword("DELETE"), Keyword("FROM"), Ident(s.table)>>
                              \o Condition("WHERE", s.where)
      [] s.kind = "create_table" ->
            <<Keyword("CREATE"), Keyword("TABLE"), Ident(s.table)>>
            \o Bracketed(Shown(LAMBDA c : <<Ident(c.name), Ident(<<c.type>>)>>, s.columns))
      [] s.kind = "create_index" ->
            <<Keyword("CREATE"), Keyword("INDEX"), Ident(s.name), Keyword("ON"),
              Ident(s.table)>> \o Bracketed(<<Ident(s.column)>>)
      [] s.kind = "explain" -> <<Keyword("EXPLAIN")>> \o Spelled(s.of)
      [] s.kind = "show_tables" -> <<Keyword("SHOW"), Ident(<<"TABLES">>)>>
      [] s.kind = "describe" -> <<Keyword("DESCRIBE"), Ident(s.table)>>
      [] s.kind = "begin" -> <<Keyword("BEGIN")>>
      [] s.kind = "commit" -> <<Keyword("COMMIT")>>
      [] s.kind = "rollback" -> <<Keyword("ROLLBACK")>>

(* A type has two names.                                                   *)
Typed(tok) == IF tok[1] = "ident" /\ tok[2][1] \in DOMAIN ColType
              THEN Ident(<<ColType[tok[2][1]]>>) ELSE tok

(* What need not be said: the brackets of a condition, INNER, ASC, a       *)
(* semicolon at the end and the table of a column to sort by.              *)
Unsaid(t, i) ==
    \/ t[i] \in {Sign(";"), Keyword("INNER"), Keyword("ASC")}
    \/ /\ t[i] \in {Open, Close}
       /\ \E j \in 1 .. i - 1 : /\ t[j] \in {Keyword("WHERE"), Keyword("HAVING")}
                                /\ Keyword("ORDER") \notin Range(SubSeq(t, j, i))
    \/ /\ \E j \in 1 .. i - 1 : t[j] = Keyword("ORDER")
       /\ \/ At(t, i + 1) = Sign(".") /\ t[i - 1] # Open
          \/ t[i] = Sign(".") /\ t[i - 2] # Open
Said(t) == LET said == SelectSeq([i \in DOMAIN t |-> i], LAMBDA i : ~Unsaid(t, i))
           IN  [n \in DOMAIN said |-> Typed(Fold(t[said[n]]))]

(* A statement says everything its text says, in the same order and with   *)
(* the same lists, and nothing else, up to the token at which parsing      *)
(* stopped; of a LIMIT below zero it has the bits, so that it limits       *)
(* nothing (parse_stmt, sql/parser.rs:82-584).                             *)
SaysWhatWasRead == reading.ok => Said(Spelled(reading.node)) = Said(Taken)
=============================================================================
