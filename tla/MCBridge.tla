------------------------------ MODULE MCBridge -----------------------------
(* Bridge with texts of a few characters, and with statements written      *)
(* phrase by phrase, right or wrong.  Integers end at 9.                   *)
EXTENDS Meaning, TLC

MCDigitOf == "1" :> 1 @@ "2" :> 2 @@ "3" :> 3 @@ "4" :> 4 @@ "9" :> 9
Names == {"a", "A", "b", "t", "u", "select", "count", "int", "COUNT", "SUM", "TEXT", "TABLES"}
MCWords == Keywords \cup Names \cup {"INT", "INTEGER"}
MCUpper == [w \in MCWords |-> CASE w = "select" -> "SELECT" [] w = "count" -> "COUNT"
                                [] w = "int" -> "INT" [] w = "a" -> "A" [] OTHER -> w]
MCCharacters == {Quote, Space, "a", "A", "1", "9", "-", "!", "=", "<", ";", "$"}
MCSymbols == MCWords \cup MCCharacters \cup DOMAIN MCDigitOf
             \cup {"(", ")", ",", ".", "*", ">"}

S == Space
Has(x, w) == w \in Range(x)
Times(x, w) == Cardinality({i \in DOMAIN x : x[i] = w})

(* Up to n comparisons of a WHERE in a fixed order, between brackets.      *)
Cmp == <<<<"a", "=", "1">>, <<"a", "<", "2">>, <<"a", "!", "=", "3">>, <<"a", ">", "=", "4">>>>
Wheres(x, n, brackets) ==
    IF ~Has(x, "WHERE") THEN {<<"WHERE">>, <<";">>}
    ELSE LET used == Times(x, "=") + Times(x, "<") 
             more == Times(x, "(") < brackets /\ Times(x, "(") + used < 5
         IN  (IF used < n THEN {Cmp[used + 1], <<"AND">>, <<"OR">>} ELSE {})
             \cup (IF more THEN {<<"(">>} ELSE {})
             \cup {<<")">>, <<";">>}

Deletes(x) == Wheres(x, 4, 2)
Updates(x) == IF Has(x, "WHERE") \/ Len(x) > 18 THEN {<<";">>, <<"a", "=", "1">>}
              ELSE {<<";">>, <<"a", "=", "1">>, <<"b", "=", "NULL">>, <<",">>, <<"WHERE">>}

Creates(x) ==
    IF Len(x) > 24 THEN {}
    ELSE {<<"TABLE", S, "t", "(">>, <<"a", S, "int">>, <<"b", S, "TEXT">>, <<"a", S, "b">>,
          <<",">>, <<")">>, <<"INDEX", S, "u">>, <<"ON", S, "t", "(", "a", ")">>}

Inserts(x) ==
    IF Len(x) > 30 THEN {}
    ELSE IF Has(x, "VALUES") THEN {<<"(">>, <<"-", "1">>, <<"NULL">>, <<",">>, <<")">>,
                                   <<Quote, "a", Quote, Quote, S, Quote>>}
    ELSE {<<"a">>, <<",">>, <<")", S, "VALUES">>}

Clauses ==
    {<<"JOIN", S, "u", S, "ON", S, "t", ".", "a", "=", "u", ".", "b">>,
     <<"INNER", S, "JOIN", S, "u", S, "ON", S, "u", ".", "b", "=", "t", ".", "a">>,
     <<"LEFT", S, "JOIN", S, "t", S, "ON", S, "t", ".", "a", "=", "u", ".", "b">>,
     <<"RIGHT", S, "JOIN", S, "u">>, <<"WHERE", S, "a", "=", "1">>, <<"AND", S, "b", "<", "2">>,
     <<"GROUP", S, "BY", S, "a">>, <<",", S, "t", ".", "b">>,
     <<"HAVING", S, "COUNT", "(", "*", ")", "=", "1">>, <<"OR", S, "SUM", "(", "a", ")", ">", "2">>,
     <<"AND", S, "count", "(", "b", ")", "<", "=", "3">>, <<"HAVING", S, "a", "=", "1">>,
     <<"ORDER", S, "BY", S, "t", ".", "a">>, <<"DESC">>, <<"ASC">>, <<",", S, "SUM", "(", "a", ")">>,
     <<"LIMIT">>, <<"-", "1">>, <<"2">>, <<";">>}

Selects(x) ==
    IF ~Has(x, "FROM")
    THEN {<<"*">>, <<"a">>, <<"t", ".", "b">>, <<"COUNT", "(", "*", ")">>, <<"SUM", "(", "*", ")">>,
          <<"count">>, <<"FROM", S, "t">>} \cup IF Has(x, ",") THEN {} ELSE {<<",">>}
    ELSE IF Len(x) > 36 \/ Has(x, "b") \/ ~(x[4] = "a" \/ Has(x, "LIMIT")) THEN {<<";">>, <<"LIMIT", S, "1">>}
    ELSE Clauses

Begins == {<<"DELETE", S, "FROM", S, "t">>, <<"UPDATE", S, "t", S, "SET">>, <<"CREATE">>,
           <<"INSERT", S, "INTO", S, "t", "(">>, <<"select">>, <<"SHOW">>, <<"DESCRIBE">>,
           <<"BEGIN">>, <<"COMMIT">>, <<"ROLLBACK">>, <<"SET">>}
Short == {<<"TABLES">>, <<"a">>, <<";">>, <<"DESC">>}

MCPhrases(x) ==
    CASE x = <<>> -> Begins \cup {<<"EXPLAIN">>}
      [] Last(x) = "EXPLAIN" -> Begins
      [] Has(x, "EXPLAIN") /\ Len(x) > 14 -> {<<";">>}
      [] Has(x, "DELETE") -> Deletes(x)
      [] Has(x, "UPDATE") -> Updates(x)
      [] Has(x, "CREATE") -> Creates(x)
      [] Has(x, "INSERT") -> Inserts(x)
      [] Has(x, "select") -> Selects(x)
      [] OTHER -> Short

MCTails == {<<"OR">>, <<"$">>, <<";">>, <<"select", S, "*", S, "FROM", S, "t">>}
=============================================================================
