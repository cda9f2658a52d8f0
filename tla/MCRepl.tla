------------------------------- MODULE MCRepl -------------------------------
(* Repl over a database that may or may not have table t: SQL about t is   *)
(* typed, asked for in words the rules know and asked for in words only    *)
(* the model knows.                                                        *)
EXTENDS MCSemanticCache, Repl

CONSTANT Missing   \* there is no t

t == <<"t">>
u == <<"u">>   \* no table has this name

Create(name) ==
    Write(<<Word("CREATE", "create"), Word("TABLE", "table")>> \o name
          \o <<Word("INTEGER", "integer"), Glue(Sign(")"))>>, "t")
Spaced  == <<Name("t"), Sign("("), Glue(Name("a"))>>
Touched == <<Name("t"), Glue(Sign("(")), Glue(Name("a"))>>

All    == Read(From("t"), "t", {})
OfU    == Read(From("u"), "u", {})
Delete == Write(<<Word("DELETE", "delete"), Word("FROM", "from"), Name("t")>>, "t")

TypedScripts == {Begin, Commit, Rollback, Create(Spaced), Insert, Ones, Lowered(Ones), OnesSwapped}
AllScripts   == TypedScripts \cup {All, OfU, Delete}

(* t(a INTEGER) written without the blank the rest of the session has.     *)
TouchingScripts == {Create(Touched)}

TextsOf(scripts) == {s.text : s \in scripts}
MCTyped == TextsOf(Scripts)
MCRegistered == {t, u}
SessionTexts == TextsOf(Scripts \cup AllScripts)

(* One question names t, and then u; one has t within a word; and one has  *)
(* neither.                                                                *)
MCQuestions == {"all", "delete", "oldest"}
MCMentions == [q \in MCQuestions |-> IF q = "all" THEN t :> 1 @@ u :> 2 ELSE <<>>]
MCLoosely  == [q \in MCQuestions |-> IF q = "delete" THEN {t} ELSE {}]
MCRuleSQL(q, table) == CASE q = "delete" -> Delete.text
                         [] table = t    -> All.text
                         [] OTHER        -> OfU.text

Ended(script) == script.text \o <<Glue(Sign(";"))>>
MCModelAnswers == {Ended(All), Delete.text, Ended(All) \o Delete.text, Ones.text}

ReplContents == [{"t"} -> {{}, {<<1, 1>>}, Missing}]
MCTablesIn(d) == IF d["t"] = Missing THEN {} ELSE {t}

ReplScript(x) == CHOOSE s \in Scripts \cup AllScripts : s.text = x
ReplKindOf(x) == ReplScript(x).kind

ReplAnswer(x, d) ==
    IF ReplKindOf(x) # "read" \/ x = OfU.text \/ d["t"] = Missing THEN NoAnswer
    ELSE {row \in d["t"] : \A cond \in ReplScript(x).conds : Holds(row, cond)}

ReplOutcomes(x, d) ==
    CASE first_word(x) = "create" -> {e \in ReplContents : d["t"] = Missing /\ e["t"] = {}}
      [] first_word(x) \in {"insert", "delete"} ->
            {e \in ReplContents : d["t"] # Missing /\ e["t"] # Missing}
      [] OTHER -> {}

MCExplains(x, d) == ReplAnswer(x, d) # NoAnswer \/ (x = Delete.text /\ d["t"] # Missing)

ASSUME ReplScriptsTell == TextsTell /\ SelectsRead
=============================================================================
