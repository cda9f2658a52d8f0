------------------------------- MODULE Bridge ------------------------------
(***************************************************************************)
(* SnailDB.execute of src/snail_core/src/lib.rs up to the engine: a text   *)
(* is read by the lexer and the parser of modules Lexer and Parser.  Beside *)
(* it, how the cache reads the same text (semantic_cache.py).              *)
(*                                                                         *)
(* A text grows by one character, or by one phrase with a space before it, *)
(* and is read again each time.                                            *)
(***************************************************************************)
EXTENDS Parser

CONSTANTS Symbols,         \* all that texts are made of
          Characters,      \* bound: texts of up to MaxCharacters of these,
          MaxCharacters,
          Phrases(_),      \* the phrases that may follow a text, and
          Tails            \* those that may follow a text already decided

ASSUME BridgeAssumption == /\ Words \cup {Space} \subseteq Symbols
                           /\ Tails \subseteq Seq(Symbols)

VARIABLES text,    \* as typed so far
          tokens,  \* what the lexer makes of it
          reading  \* the statement execute hands to the engine, or why not

vars == <<text, tokens, reading>>

(* All tokens are read before the first is parsed.                         *)
execute(t) == IF Unreadable(t) THEN Wrong("lexical", 1) ELSE parse(t)

(* The statement has ended before the text, or was refused before it.      *)
Ignored == SubSeq(tokens, reading.next, Len(tokens))
Decided == IF reading.ok THEN Ignored # <<>> ELSE reading.node # "eof"

Init == /\ text = <<>>
        /\ tokens = <<>>
        /\ reading = execute(<<>>)

Extend(more) == /\ more \in Seq(Symbols)
                /\ text' = text \o more
                /\ tokens' = tokenize(text')
                /\ reading' = execute(tokens')

Character(c) == /\ Len(text) < MaxCharacters /\ Range(text) \subseteq Characters
                /\ Extend(<<c>>)

Phrase == ~Decided /\ \E f \in Phrases(text) : Extend(<<Space>> \o f)

(* Bound: one phrase after the first ignored token.                        *)
Trailing == /\ reading.ok /\ Len(Ignored) = 1
            /\ \E f \in Tails : Extend(<<Space>> \o f)

Next == (\E c \in Characters : Character(c)) \/ Phrase \/ Trailing

Spec == Init /\ [][Next]_vars

----------------------------------------------------------------------------
(* The cache's reading of a text.                                          *)

(* Mutant: the two characters of <> are one token.                         *)
TokenEnd_unequal(x, p) ==
    LET c == x[p]
    IN  CASE c = Quote /\ \E q \in p + 1 .. Len(x) : x[q] = Quote ->
                RunEnd(x, p + 1, Range(x) \ {Quote}) + 1
          [] c \in Digits \/ (c = "-" /\ Is(x, p + 1, Digits)) -> RunEnd(x, p + 1, Digits)
          [] c \in {"<", ">"} /\ Is(x, p + 1, {"="}) -> p + 2
          [] c \in Letters -> RunEnd(x, p, Letters \cup Digits)
          [] OTHER -> p + 1

(* Where the token of _TOKEN_RE that begins at p ends.  A doubled quote is *)
(* the end of one literal and the beginning of the next.                   *)
TokenEnd(x, p) ==
    LET c == x[p]
    IN  CASE c = Quote /\ \E q \in p + 1 .. Len(x) : x[q] = Quote ->
                RunEnd(x, p + 1, Range(x) \ {Quote}) + 1
          [] c \in Digits \/ (c = "-" /\ Is(x, p + 1, Digits)) -> RunEnd(x, p + 1, Digits)
          [] c \in {"<", ">", "!"} /\ Is(x, p + 1, {"="}) -> p + 2
          [] c \in Letters -> RunEnd(x, p, Letters \cup Digits)
          [] OTHER -> p + 1

(* One spelling stands for all that differ in case.                        *)
Folded(s) == [i \in DOMAIN s |-> IF s[i] \in Words THEN Upper[s[i]] ELSE s[i]]

(* The key of a text, as a text: the tokens but for semicolons.            *)
normalize_sql(x) ==
    LET from[p \in 1 .. Len(x) + 1] ==
            IF p > Len(x) THEN <<>>
            ELSE IF x[p] \in {Space, ";"} THEN from[p + 1]
            ELSE LET tok == SubSeq(x, p, TokenEnd(x, p) - 1)
                 IN  <<Space>> \o (IF x[p] = Quote THEN tok ELSE Folded(tok))
                     \o from[TokenEnd(x, p)]
    IN  from[1]

----------------------------------------------------------------------------
(* Properties.                                                             *)

(* What follows a statement that has ended changes nothing, except that it *)
(* must consist of tokens (parse, sql/parser.rs:38; execute,               *)
(* lib.rs:34-41).                                                          *)
PrefixDecides ==
    [][ Trailing =>
            \/ reading' = reading
            \/ Unreadable(tokens') /\ ~reading'.ok ]_vars

(* Names that differ in case are one.                                     *)
Fold(tok) == IF tok[1] = "ident" THEN Ident(Folded(tok[2])) ELSE tok

(* Tokens but for semicolons.                                             *)
Same(t) ==
    LET from[i \in 1 .. Len(t) + 1] ==
            IF i > Len(t) THEN <<>>
            ELSE IF t[i] = Sign(";") THEN from[i + 1]
            ELSE <<Fold(t[i])>> \o from[i + 1]
    IN  from[1]

Unquoted(t) == \A tok \in Range(t) : tok[1] = "text" => Quote \notin Range(tok[2])

(* The key of a text without quotes in its literals has the tokens of the  *)
(* text, but for case and semicolons: two texts with one key, if neither   *)
(* has a semicolon inside, are one statement up to the case of names       *)
(* (normalize_sql, semantic_cache.py:20-28).                               *)
KeysKeepTokens ==
    ~Unreadable(tokens) /\ Unquoted(tokens)
        => Same(tokenize(normalize_sql(text))) = Same(tokens)
=============================================================================
