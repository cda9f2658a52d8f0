------------------------------- MODULE Lexer -------------------------------
(***************************************************************************)
(* tokenize of src/snail_core/src/sql/lexer.rs.                            *)
(*                                                                         *)
(* A text is a sequence of symbols.  A symbol is one character or, to keep *)
(* texts short, a run of letters that is written together: a word.         *)
(* Integers of 64 bits lie between -MaxInt - 1 and MaxInt.                 *)
(***************************************************************************)
EXTENDS Integers, FiniteSets, SequencesExt

CONSTANTS Words,    \* words in every spelling
          Upper,    \* word -> its spelling in upper case
          DigitOf,  \* digit -> its value
          MaxInt

(* White space, the underscore and what else is no letter or digit.        *)
Marks == {" ", "'", "_", "-", "!", "<", ">", "=", "(", ")", ",", ";", "*", "."}

ASSUME LexerAssumption == /\ Upper \in [Words -> Words]
                          /\ \A w \in Words : Upper[Upper[w]] = Upper[w]
                          /\ DOMAIN DigitOf \cap Words = {}
                          /\ Marks \cap (DOMAIN DigitOf \cup Words) = {}
                          /\ MaxInt \in Nat

Keywords ==
    {"CREATE", "TABLE", "INSERT", "INTO", "VALUES", "SELECT", "FROM", "WHERE", "AND", "OR",
     "NOT", "NULL", "UPDATE", "SET", "DELETE", "ORDER", "BY", "ASC", "DESC", "LIMIT",
     "JOIN", "INNER", "LEFT", "RIGHT", "ON", "GROUP", "INDEX", "BEGIN", "COMMIT",
     "ROLLBACK", "EXPLAIN", "SHOW", "DESCRIBE", "HAVING"}

Space  == " "
Quote  == "'"
Digits == DOMAIN DigitOf
Letters == Words \cup {"_"}

Keyword(w) == <<"keyword", w>>
Ident(s)   == <<"ident", s>>
IntLiteral(n) == <<"int", n>>
TextLiteral(s) == <<"text", s>>
Sign(s)    == <<"sign", s>>
LexerError(why) == <<"error", why>>

Read(tok, next) == [tok |-> tok, next |-> next]

----------------------------------------------------------------------------
(* Is the symbol at p one of S, and where does a run of such symbols end?  *)
Is(x, p, S) == p <= Len(x) /\ x[p] \in S

RunEnd(x, p, S) ==
    CHOOSE q \in p .. Len(x) + 1 : ~Is(x, q, S) /\ \A r \in p .. q - 1 : x[r] \in S

(* '...', where a doubled quote stands for one.                            *)
read_string(x, p) ==
    LET rest[q \in p .. Len(x) + 1] ==  \* the literal from q on
            IF q > Len(x) THEN Read(LexerError("UnterminatedString"), q)
            ELSE IF x[q] # Quote THEN
                LET r == rest[q + 1] IN
                IF r.tok[1] = "error" THEN r ELSE Read(TextLiteral(<<x[q]>> \o r.tok[2]), r.next)
            ELSE IF Is(x, q + 1, {Quote}) THEN
                LET r == rest[q + 2] IN
                IF r.tok[1] = "error" THEN r ELSE Read(TextLiteral(<<Quote>> \o r.tok[2]), r.next)
            ELSE Read(TextLiteral(<<>>), q + 1)
    IN  rest[p + 1]

read_number(x, p) ==
    LET start == IF x[p] = "-" THEN p + 1 ELSE p
        end   == RunEnd(x, start, Digits)
        Shift(n, d) == 10 * n + DigitOf[d]
        size  == FoldLeft(Shift, 0, SubSeq(x, start, end - 1))
        n     == IF x[p] = "-" THEN -size ELSE size
    IN  Read(IF n \in -MaxInt - 1 .. MaxInt THEN IntLiteral(n)
                                            ELSE LexerError("NumberOutOfRange"), end)

(* A keyword is one word, in any case; names keep theirs.                  *)
read_ident_or_keyword(x, p) ==
    LET end  == RunEnd(x, p, Letters \cup Digits)
        word == SubSeq(x, p, end - 1)
        isKeyword == Len(word) = 1 /\ word[1] \in Words /\ Upper[word[1]] \in Keywords
    IN  Read(IF isKeyword THEN Keyword(Upper[word[1]]) ELSE Ident(word), end)

next_token(x, p) ==
    LET c     == x[p]
        twice == c \in {"!", "<", ">"} /\ Is(x, p + 1, {"="})
    IN  CASE c = Quote -> read_string(x, p)
          [] c \in Digits \/ (c = "-" /\ Is(x, p + 1, Digits)) -> read_number(x, p)
          [] c \in Letters -> read_ident_or_keyword(x, p)
          [] twice -> Read(Sign(c \o "="), p + 2)
          [] ~twice /\ c \in {"<", ">", "=", "(", ")", ",", ";", "*", "."} ->
                Read(Sign(c), p + 1)
          [] OTHER -> Read(LexerError("UnexpectedChar"), p + 1)

(* The tokens of a text; an error is the last of them.                     *)
tokenize(x) ==
    LET from[p \in 1 .. Len(x) + 1] ==
            IF p > Len(x) THEN <<>>
            ELSE IF x[p] = Space THEN from[p + 1]
            ELSE LET r == next_token(x, p)
                 IN  <<r.tok>> \o IF r.tok[1] = "error" THEN <<>> ELSE from[r.next]
    IN  from[1]

Unreadable(t) == t # <<>> /\ Last(t)[1] = "error"
=============================================================================
