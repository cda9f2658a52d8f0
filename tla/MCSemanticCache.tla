-------------------------- MODULE MCSemanticCache --------------------------
(* SemanticCache over an engine with tables t and T of rows <<a, b>>.      *)
(* A script is a text with what the engine takes it for; each .cfg chooses *)
(* the scripts of a session.                                               *)
EXTENDS SemanticCache, TLC

CONSTANTS Scripts

Token(class, as, low) == [class |-> class, as |-> as, low |-> low, glued |-> FALSE]
Word(as, low) == Token("word", as, low)
Name(as)      == Word(as, IF as = "T" THEN "t" ELSE as)
Sign(as)      == Token("sign", as, as)
Num(as)       == Token("int", as, as)
Glue(tok)     == [tok EXCEPT !.glued = TRUE]

From(table) == <<Word("SELECT", "select"), Sign("*"), Word("FROM", "from"), Name(table)>>
Cond(column, op, n) == <<Name(column), Sign(op), Num(n)>>
Where(c, d) == <<Word("WHERE", "where")>> \o c \o <<Word("AND", "and")>> \o d

Read(text, table, conds) ==
    [text |-> text, kind |-> "read", table |-> table, conds |-> conds]
Write(text, table) == [text |-> text, kind |-> "write", table |-> table, conds |-> {}]
Control(text, kind) == [text |-> text, kind |-> kind, table |-> "", conds |-> {}]

Both(table, c1, op1, n1, c2, op2, n2) ==
    Read(From(table) \o Where(Cond(c1, op1, n1), Cond(c2, op2, n2)),
         table, {<<c1, op1, n1>>, <<c2, op2, n2>>})

Lowered(script) ==
    [script EXCEPT !.text = [i \in DOMAIN @ |-> [@[i] EXCEPT !.as = script.text[i].low]]
                            \o <<Glue(Sign(";"))>>]

Begin == Control(<<Word("BEGIN", "begin")>>, "begin")
Commit == Control(<<Word("commit", "commit"), Glue(Sign(";"))>>, "commit")
Rollback == Control(<<Word("ROLLBACK", "rollback")>>, "rollback")
Insert == Write(<<Word("INSERT", "insert"), Word("INTO", "into"), Name("t")>>, "t")
InsertT == Write(<<Word("INSERT", "insert"), Word("INTO", "into"), Name("T")>>, "T")
Ones == Both("t", "a", "=", "1", "b", "=", "1")
OnesSwapped == Both("t", "b", "=", "1", "a", "=", "1")

(* Tables t and T, whose names differ only in case.                        *)
CaseScripts == {InsertT, Read(From("t"), "t", {}), Read(From("T"), "T", {}), Begin, Rollback}

(* Two conditions that exchange their operators.                           *)
OperatorScripts == {Insert, Begin, Commit,
                    Both("t", "a", "<", "2", "b", ">", "1"),
                    Both("t", "a", ">", "2", "b", "<", "1")}

(* COMMIT followed by a character the lexer does not know.                 *)
InvalidScripts == {Begin, Commit, Control(Commit.text \o <<Sign("$")>>, "invalid"),
                   Insert, Read(From("t"), "t", {})}

MCTexts == {s.text : s \in Scripts}
ScriptOf(x) == CHOOSE s \in Scripts : s.text = x

Rows == {<<1, 1>>, <<1, 2>>}
MCContents == [{"t", "T"} -> SUBSET Rows]

Number == "1" :> 1 @@ "2" :> 2

Holds(row, cond) ==
    LET v == IF cond[1] = "a" THEN row[1] ELSE row[2]
        n == Number[cond[3]]
    IN  \/ cond[2] = "=" /\ v = n
        \/ cond[2] = "<" /\ v < n
        \/ cond[2] = ">" /\ v > n

MCKindOf(x) == ScriptOf(x).kind
MCAnswer(x, d) == IF MCKindOf(x) # "read" THEN {}
                  ELSE {row \in d[ScriptOf(x).table] :
                            \A cond \in ScriptOf(x).conds : Holds(row, cond)}
MCOutcomes(x, d) == IF MCKindOf(x) # "write" THEN {}
                    ELSE {[d EXCEPT ![ScriptOf(x).table] = R] : R \in SUBSET Rows}
=============================================================================
