-------------------------------- MODULE Repl --------------------------------
(***************************************************************************)
(* The loop of src/snail_cli/main.py: a line is SQL, a \tables command or  *)
(* an ASK.  An ASK is translated by rules, by a local model whose text     *)
(* EXPLAIN has to accept, or by the history of earlier questions; whatever *)
(* SQL comes out goes through the semantic cache.                          *)
(*                                                                         *)
(* A question is a value: where it names tables, and the SQL the rules     *)
(* make of it, are given.  What the model answers, whether it answers, and *)
(* which earlier question is the most similar is open.  The name of a      *)
(* table is the sequence of the spellings it is made of.                   *)
(***************************************************************************)
EXTENDS SemanticCache

CONSTANTS Typed,            \* the texts typed as SQL
          Registered,       \* the names given to \tables
          Questions,
          Mentions,         \* Mentions[q]: table name -> where q names it
          Loosely,          \* Loosely[q]: the names within words of q
          RuleSQL(_, _),    \* what the rules make of a question about a table
          ModelAnswers,     \* what the model may say
          TablesIn(_),      \* the tables of some contents
          Explains(_, _),   \* does EXPLAIN accept a text over some contents?
          NoText, NoTable,
          MaxHistory        \* bound on history

VARIABLES known_tables,     \* in the order they became known
          history           \* [sql, by]; by, "rules" or "llm", is for the properties

replVars == <<vars, known_tables, history>>

----------------------------------------------------------------------------
(* Names of tables.                                                        *)

Known == {known_tables[i] : i \in DOMAIN known_tables}

Registering(name) == IF name \in Known THEN known_tables ELSE Append(known_tables, name)

(* SHOW TABLES when the loop starts.                                       *)
discover_tables(d) ==
    {s \in [1 .. Cardinality(TablesIn(d)) -> TablesIn(d)] :
        TablesIn(d) = {s[i] : i \in DOMAIN s}}

(* words[2]: the tokens up to white space from the third word on.          *)
ThirdWord(x) ==
    LET starts(i) == ~x[i].glued
        first == {i \in DOMAIN x : starts(i)
                     /\ Cardinality({j \in 2 .. i : starts(j)}) = 2}
    IN  {i \in DOMAIN x : \E f \in first : f <= i /\ \A j \in f + 1 .. i : x[j].glued}

(* .strip("("): without the parentheses at either end.                     *)
stripped(x, word) ==
    LET name == {i \in word : \E j, k \in word : j <= i /\ i <= k
                                /\ x[j].as # "(" /\ x[k].as # "("}
        start == CHOOSE i \in name : \A j \in name : i <= j
    IN  [n \in 1 .. Cardinality(name) |-> x[start + n - 1].as]

IsCreateTable(x) == Len(x) >= 2 /\ x[1].low = "create" /\ x[2].low = "table" /\ ~x[2].glued

(* The name a text seems to create, if any.                                *)
NamesIn(x) == IF IsCreateTable(x) /\ ThirdWord(x) # {}
              THEN {stripped(x, ThirdWord(x))} ELSE {}

(* Mutant: only a new database has its tables tracked.                     *)
Tracked_once(x) == IF known_tables = <<>> /\ NamesIn(x) # {}
                   THEN Registering(stripped(x, ThirdWord(x)))
                   ELSE known_tables

(* The table of a CREATE TABLE is known before the statement is run.       *)
Tracked(x) == IF NamesIn(x) # {} THEN Registering(stripped(x, ThirdWord(x)))
                                 ELSE known_tables

----------------------------------------------------------------------------
(* Translating a question.                                                 *)

Before(q, i, j) == LET at(n) == Mentions[q][known_tables[n]]
                   IN  at(i) < at(j) \/ (at(i) = at(j) /\ i <= j)

(* The known table named first; else the first known one within a word.    *)
find_table(q) ==
    LET named == {i \in DOMAIN known_tables : known_tables[i] \in DOMAIN Mentions[q]}
        loose == {i \in DOMAIN known_tables : known_tables[i] \in Loosely[q]}
    IN  IF named # {} THEN known_tables[CHOOSE i \in named : \A j \in named : Before(q, i, j)]
        ELSE IF loose # {} THEN known_tables[CHOOSE i \in loose : \A j \in loose : i <= j]
        ELSE NoTable

rule_based(q) == IF find_table(q) = NoTable THEN NoText
                  ELSE RuleSQL(q, find_table(q))

Unended(raw) ==
    SubSeq(raw, 1, Cardinality({i \in DOMAIN raw : \E j \in i .. Len(raw) : raw[j].as # ";"}))

Single(sql) == sql # <<>> /\ \A i \in DOMAIN sql : sql[i].as # ";"

(* Mutant: any single statement will do.                                   *)
clean_sql_anyStatement(raw) == IF Single(Unended(raw)) THEN Unended(raw) ELSE NoText

(* One statement, and that a SELECT.                                       *)
clean_sql(raw) == IF Single(Unended(raw)) /\ Unended(raw)[1].low = "select"
                  THEN Unended(raw) ELSE NoText

(* Every translation is a text; it need not be one that runs.              *)
ASSUME TranslationsAssumption ==
    /\ Typed \subseteq Texts /\ NoText \notin Texts
    /\ \A q \in Questions : \A t \in DOMAIN Mentions[q] \cup Loosely[q] :
          t # NoTable /\ RuleSQL(q, t) \in Texts \cup {NoText}
    /\ \A raw \in ModelAnswers : clean_sql(raw) \in Texts \cup {NoText}

ASSUME TablesAssumption == \A d \in Contents : IsFiniteSet(TablesIn(d))

Noted(sql, by) == /\ Len(history) < MaxHistory
                  /\ history' = Append(history, [sql |-> sql, by |-> by])

----------------------------------------------------------------------------
(* One turn of the loop per action.                                        *)

ReplInit == Init /\ known_tables \in discover_tables(committed) /\ history = <<>>

Run(x) == execute(x) /\ known_tables' = Tracked(x)

line(x) == Run(x) /\ UNCHANGED history

tables(name) == /\ known_tables' = Registering(name)
                /\ UNCHANGED <<vars, history>>

ask_rules(q) == /\ rule_based(q) \in Texts
                /\ Noted(rule_based(q), "rules")
                /\ Run(rule_based(q))

(* The model answers raw, EXPLAIN accepts it, and it runs.                 *)
ask_model(q, raw) == /\ rule_based(q) = NoText
                     /\ clean_sql(raw) # NoText
                     /\ Noted(clean_sql(raw), "llm")
                     /\ Explains(clean_sql(raw), current)
                     /\ Run(clean_sql(raw))

(* EXPLAIN refuses the text, which is in the history by then.              *)
ask_rejected(q, raw) == /\ rule_based(q) = NoText
                        /\ clean_sql(raw) # NoText
                        /\ Noted(clean_sql(raw), "llm")
                        /\ ~Explains(clean_sql(raw), current)
                        /\ UNCHANGED <<vars, known_tables>>

(* There is no model, it is out of reach or its answer is no SELECT, and   *)
(* an earlier question is similar.                                         *)
ask_history(q, i) == /\ rule_based(q) = NoText
                     /\ Run(history[i].sql)
                     /\ UNCHANGED history

(* The loop ends, by \quit or a crash, and is started again.               *)
again == /\ restart
         /\ known_tables' \in discover_tables(committed')
         /\ history' = <<>>

ReplNext == \/ \E x \in Typed : line(x)
            \/ \E name \in Registered : tables(name)
            \/ \E q \in Questions : ask_rules(q)
            \/ \E q \in Questions, raw \in ModelAnswers : ask_model(q, raw)
            \/ \E q \in Questions, raw \in ModelAnswers : ask_rejected(q, raw)
            \/ \E q \in Questions, i \in DOMAIN history : ask_history(q, i)
            \/ again

ReplSpec == ReplInit /\ [][ReplNext]_replVars

----------------------------------------------------------------------------
(* Properties.                                                             *)

(* Every table there is is known to ASK, whatever was created, rolled back *)
(* or found at the start (main.py:24, "Tables are discovered               *)
(* automatically"; main.py:190, "so ASK knows what tables exist").         *)
TablesKnown == TablesIn(current) \subseteq Known

(* A text creates no table but the one it seems to: what TablesKnown rests *)
(* on, and what t(a INTEGER) breaks.                                       *)
NamesTell == \A x \in Texts, d \in Contents : \A e \in Outcomes(x, d) :
                TablesIn(e) \subseteq TablesIn(d) \cup NamesIn(x)

(* Only SELECTs start with SELECT: what ModelOnlyReads rests on.           *)
SelectsRead == \A x \in Texts : x[1].low = "select" => KindOf(x) \in {"read", "invalid"}

(* SQL that came from the model, run at once or later out of the history,  *)
(* changes neither data nor the transaction (llm_ask.py:7-8, "the LLM can    *)
(* read data but never change it").                                        *)
ModelOnlyReads ==
    [][ engine' # engine =>
            /\ \A q \in Questions, raw \in ModelAnswers : ~ask_model(q, raw)
            /\ \A q \in Questions, i \in DOMAIN history :
                  history[i].by = "llm" => ~ask_history(q, i) ]_replVars
=============================================================================
