---------------------------- MODULE BridgeProofs ----------------------------
(***************************************************************************)
(* What holds of every text: its key in the cache keeps its tokens, and    *)
(* what follows a statement changes nothing.                               *)
(***************************************************************************)
EXTENDS Bridge, Ranks, SequenceTheorems, TLAPS

----------------------------------------------------------------------------
(* Runs of symbols.                                                        *)

LEMMA RunEndIs ==
  ASSUME NEW x \in Seq(Symbols), NEW p \in 1 .. Len(x) + 1, NEW S
  PROVE  /\ RunEnd(x, p, S) \in p .. Len(x) + 1
         /\ ~Is(x, RunEnd(x, p, S), S)
         /\ \A r \in p .. RunEnd(x, p, S) - 1 : x[r] \in S
<1> DEFINE Ends == {q \in p .. Len(x) + 1 : ~Is(x, q, S)}
<1>1. Len(x) \in Nat /\ Len(x) + 1 \in Ends /\ Ends \in SUBSET Nat
  BY DEF Is
<1>2. PICK q \in Ends : \A r \in Ends : q <= r
  <2> HIDE DEF Ends
  <2>1. QED BY <1>1, LeastNat
<1>3. ASSUME NEW r \in p .. q - 1 PROVE x[r] \in S
  <2>1. r \notin Ends /\ r \in p .. Len(x) + 1
    <3>1. r < q /\ r \in p .. Len(x) + 1
      BY <1>1
    <3> HIDE DEF Ends
    <3>2. QED BY <1>1, <1>2, <3>1
  <2>2. QED BY <2>1 DEF Is
<1>4. q \in p .. Len(x) + 1 /\ ~Is(x, q, S)
  OBVIOUS
<1> HIDE DEF Ends
<1>5. QED
  BY <1>3, <1>4, Zenon DEF RunEnd

LEMMA RunEndOnly ==
  ASSUME NEW x \in Seq(Symbols), NEW p \in 1 .. Len(x) + 1, NEW S, NEW q \in p .. Len(x) + 1,
         ~Is(x, q, S), \A r \in p .. q - 1 : x[r] \in S
  PROVE  RunEnd(x, p, S) = q
<1> DEFINE e == RunEnd(x, p, S)
<1>1. e \in p .. Len(x) + 1 /\ ~Is(x, e, S) /\ \A r \in p .. e - 1 : x[r] \in S
  BY RunEndIs
<1> HIDE DEF e
<1>2. Len(x) \in Nat
  OBVIOUS
<1>3. ~(e < q)
  BY <1>1, <1>2 DEF Is
<1>4. ~(q < e)
  BY <1>1, <1>2 DEF Is
<1>5. QED
  BY <1>1, <1>2, <1>3, <1>4 DEF e

----------------------------------------------------------------------------
(* Recursion over places: each function satisfies its equation, since at a *)
(* place it asks only for places further on.                               *)

RestAt(f, x, q) ==
    IF q > Len(x) THEN Read(LexerError("UnterminatedString"), q)
    ELSE IF x[q] # Quote
    THEN IF f[q + 1].tok[1] = "error" THEN f[q + 1]
         ELSE Read(TextLiteral(<<x[q]>> \o f[q + 1].tok[2]), f[q + 1].next)
    ELSE IF Is(x, q + 1, {Quote})
    THEN IF f[q + 2].tok[1] = "error" THEN f[q + 2]
         ELSE Read(TextLiteral(<<Quote>> \o f[q + 2].tok[2]), f[q + 2].next)
    ELSE Read(TextLiteral(<<>>), q + 1)

LEMMA RestIs ==
  ASSUME NEW x \in Seq(Symbols), NEW p \in 1 .. Len(x)
  PROVE  \E f : /\ \A q \in p .. Len(x) + 1 : f[q] = RestAt(f, x, q)
                /\ read_string(x, p) = f[p + 1]
<1> DEFINE n == Len(x)
           D == p .. n + 1
           B(f, q) == RestAt(f, x, q)
<1>0. n \in Nat /\ p \in 1 .. n
  OBVIOUS
<1>1. ASSUME NEW f, NEW g, NEW q \in D, \A r \in D : r > q => f[r] = g[r]
      PROVE  B(f, q) = B(g, q)
  <2>1. q <= n => f[q + 1] = g[q + 1]
    BY <1>0, <1>1
  <2>2. q <= n /\ Is(x, q + 1, {Quote}) => f[q + 2] = g[q + 2]
    BY <1>0, <1>1 DEF Is
  <2>3. QED BY <1>0, <2>1, <2>2 DEF RestAt
<1>2. read_string(x, p) = (CHOOSE f : f = [q \in D |-> B(f, q)])[p + 1]
  BY Zenon DEF read_string, RestAt
<1> HIDE DEF B
<1> DEFINE T == {k \in 0 .. n + 1 : \E g : \A q \in D : q > n + 1 - k => g[q] = B(g, q)}
<1>3. 0 \in T
  BY <1>0
<1>4. ASSUME NEW k \in 1 .. n + 1, k - 1 \in T PROVE k \in T
  <2>1. PICK g : \A q \in D : q > n + 1 - (k - 1) => g[q] = B(g, q)
    BY <1>4
  <2> DEFINE h == [q \in D |-> B(g, q)]
  <2>2. ASSUME NEW q \in D, q > n + 1 - k PROVE h[q] = B(h, q)
    <3>1. \A r \in D : r > q => h[r] = g[r]
      BY <1>0, <2>1, <2>2
    <3> HIDE DEF h
    <3>2. B(h, q) = B(g, q)
      BY <1>1, <3>1
    <3>3. QED BY <3>2 DEF h
  <2> HIDE DEF h
  <2>3. QED BY <1>0, <2>2
<1>5. n + 1 \in T
  <2> HIDE DEF T, D
  <2>1. QED BY <1>0, <1>3, <1>4, Climb
<1>6. PICK g : \A q \in D : g[q] = B(g, q)
  BY <1>0, <1>5
<1> DEFINE h == [q \in D |-> B(g, q)]
<1>7. h = [q \in D |-> B(h, q)]
  <2>1. ASSUME NEW q \in D PROVE B(h, q) = B(g, q)
    <3>1. \A r \in D : r > q => h[r] = g[r]
      BY <1>6
    <3> HIDE DEF h
    <3>2. QED BY <1>1, <3>1
  <2>2. QED BY <2>1
<1> DEFINE F == CHOOSE f : f = [q \in D |-> B(f, q)]
<1>8. F = [q \in D |-> B(F, q)]
  <2> HIDE DEF h
  <2>1. QED BY <1>7, Zenon
<1>9. (\A q \in D : F[q] = B(F, q)) /\ read_string(x, p) = F[p + 1]
  <2> HIDE DEF F
  <2>1. \A q \in D : F[q] = B(F, q)
    BY <1>8
  <2>2. QED BY <1>2, <2>1 DEF F
<1> HIDE DEF F
<1>10. QED
  BY <1>9 DEF B

(* What holds at a place whenever it holds further on holds everywhere.    *)
LEMMA Descend ==
  ASSUME NEW n \in Nat, NEW T,
         \A q \in 1 .. n + 1 : (\A r \in 1 .. n + 1 : r > q => r \in T) => q \in T
  PROVE  \A q \in 1 .. n + 1 : q \in T
<1> DEFINE D == 1 .. n + 1
           rank == [q \in D |-> n + 1 - q]
           Bad == {q \in D : q \notin T}
<1>1. SUFFICES ASSUME Bad # {} PROVE FALSE
  OBVIOUS
<1>2. rank \in [D -> Nat] /\ Bad \in SUBSET D
  OBVIOUS
<1>3. PICK q \in Bad : \A r \in Bad : rank[q] <= rank[r]
  <2> HIDE DEF Bad, D, rank
  <2>1. QED BY <1>1, <1>2, LeastRank
<1>4. ASSUME NEW r \in D, r > q PROVE r \in T
  BY <1>3, <1>4
<1>5. QED
  BY <1>4

----------------------------------------------------------------------------
(* Tokens.                                                                 *)

SignNames == {"<", ">", "=", "(", ")", ",", ";", "*", "."} \cup {c \o "=" : c \in {"!", "<", ">"}}

Token == {Keyword(w) : w \in Words} \cup {Ident(s) : s \in Seq(Symbols)}
         \cup {IntLiteral(n) : n \in Int} \cup {TextLiteral(s) : s \in Seq(Symbols)}
         \cup {Sign(s) : s \in SignNames}
         \cup {LexerError(why) : why \in {"UnterminatedString", "NumberOutOfRange", "UnexpectedChar"}}

(* s is what a literal says from q on, if it ends before e.                *)
Spans(x, q, s, e) ==
    /\ e \in q + 1 .. Len(x) + 1
    /\ (\A i \in DOMAIN s : s[i] # Quote)
           => /\ s = SubSeq(x, q, e - 2)
              /\ x[e - 1] = Quote
              /\ \A i \in q .. e - 2 : x[i] # Quote

LEMMA SpansMore ==
  ASSUME NEW x \in Seq(Symbols), NEW q \in 1 .. Len(x), NEW s \in Seq(Symbols), NEW e,
         Spans(x, q + 1, s, e), x[q] # Quote
  PROVE  <<x[q]>> \o s \in Seq(Symbols) /\ Spans(x, q, <<x[q]>> \o s, e)
<1>1. /\ Len(x) \in Nat /\ Len(s) \in Nat /\ x[q] \in Symbols
      /\ <<x[q]>> \o s \in Seq(Symbols)
      /\ DOMAIN (<<x[q]>> \o s) = 1 .. Len(s) + 1 /\ DOMAIN s = 1 .. Len(s)
      /\ \A i \in 1 .. Len(s) : (<<x[q]>> \o s)[i + 1] = s[i]
  OBVIOUS
<1> DEFINE w == <<x[q]>> \o s
<1>2. e \in q + 2 .. Len(x) + 1
  BY <1>1 DEF Spans
<1>3. ASSUME \A i \in DOMAIN w : w[i] # Quote PROVE \A i \in DOMAIN s : s[i] # Quote
  <2>1. ASSUME NEW i \in 1 .. Len(s) PROVE i + 1 \in DOMAIN w /\ w[i + 1] = s[i]
    BY <1>1
  <2> HIDE DEF w
  <2>2. QED BY <1>1, <1>3, <2>1
<1>4. ASSUME s = SubSeq(x, q + 1, e - 2) PROVE w = SubSeq(x, q, e - 2)
  BY <1>1, <1>2, <1>4
<1> HIDE DEF w
<1>5. ASSUME \A i \in DOMAIN w : w[i] # Quote
      PROVE  /\ w = SubSeq(x, q, e - 2)
             /\ x[e - 1] = Quote
             /\ \A i \in q .. e - 2 : x[i] # Quote
  <2>1. /\ s = SubSeq(x, q + 1, e - 2) /\ x[e - 1] = Quote
        /\ \A i \in q + 1 .. e - 2 : x[i] # Quote
    BY <1>3, <1>5 DEF Spans
  <2>2. ASSUME NEW i \in q .. e - 2 PROVE x[i] # Quote
    <3>1. i = q \/ i \in q + 1 .. e - 2
      BY <1>1, <1>2
    <3>2. QED BY <2>1, <3>1
  <2>3. QED BY <1>4, <2>1, <2>2
<1>6. e \in q + 1 .. Len(x) + 1
  BY <1>1, <1>2
<1>7. Spans(x, q, w, e)
  BY <1>5, <1>6 DEF Spans
<1>8. QED
  BY <1>1, <1>7 DEF w

(* The literal that begins at q.                                           *)
Literal(x, q, r) ==
    \/ r.tok = LexerError("UnterminatedString")
    \/ \E s \in Seq(Symbols) : r.tok = TextLiteral(s) /\ Spans(x, q, s, r.next)

LEMMA LiteralIs ==
  ASSUME NEW x \in Seq(Symbols), NEW p \in 1 .. Len(x)
  PROVE  Literal(x, p + 1, read_string(x, p))
<1> DEFINE n == Len(x)
<1>0. n \in Nat /\ p \in 1 .. n
  OBVIOUS
<1>1. PICK f : /\ \A q \in p .. n + 1 : f[q] = RestAt(f, x, q)
               /\ read_string(x, p) = f[p + 1]
  BY RestIs
<1> DEFINE T == {q \in 1 .. n + 1 : q >= p => Literal(x, q, f[q])}
<1>2. ASSUME NEW q \in 1 .. n + 1, \A r \in 1 .. n + 1 : r > q => r \in T, q >= p
      PROVE  Literal(x, q, f[q])
  <2>1. f[q] = RestAt(f, x, q)
    BY <1>0, <1>1, <1>2
  <2>2. CASE q = n + 1
    BY <1>0, <2>1, <2>2 DEF RestAt, Literal, Read
  <2>3. CASE q <= n /\ x[q] # Quote
    <3>1. Literal(x, q + 1, f[q + 1])
      BY <1>0, <1>2, <2>3
    <3>2. CASE f[q + 1].tok = LexerError("UnterminatedString")
      BY <1>0, <2>1, <2>3, <3>2 DEF RestAt, Literal, LexerError
    <3>3. CASE f[q + 1].tok # LexerError("UnterminatedString")
      <4>1. PICK s \in Seq(Symbols) : f[q + 1].tok = TextLiteral(s) /\ Spans(x, q + 1, s, f[q + 1].next)
        BY <3>1, <3>3 DEF Literal
      <4>2. f[q] = Read(TextLiteral(<<x[q]>> \o s), f[q + 1].next)
        BY <1>0, <2>1, <2>3, <4>1 DEF RestAt, TextLiteral
      <4>3. <<x[q]>> \o s \in Seq(Symbols) /\ Spans(x, q, <<x[q]>> \o s, f[q + 1].next)
        BY <1>0, <2>3, <4>1, SpansMore
      <4>4. f[q].tok = TextLiteral(<<x[q]>> \o s) /\ f[q].next = f[q + 1].next
        BY <4>2 DEF Read
      <4>5. QED
        BY <4>3, <4>4 DEF Literal
    <3>4. QED BY <3>2, <3>3
  <2>4. CASE q <= n /\ x[q] = Quote /\ Is(x, q + 1, {Quote})
    <3>0. q + 2 \in 1 .. n + 1
      BY <1>0, <2>4 DEF Is
    <3>1. Literal(x, q + 2, f[q + 2])
      BY <1>0, <1>2, <3>0
    <3>2. CASE f[q + 2].tok = LexerError("UnterminatedString")
      BY <1>0, <2>1, <2>4, <3>2 DEF RestAt, Literal, LexerError
    <3>3. CASE f[q + 2].tok # LexerError("UnterminatedString")
      <4>1. PICK s \in Seq(Symbols) : f[q + 2].tok = TextLiteral(s) /\ Spans(x, q + 2, s, f[q + 2].next)
        BY <3>1, <3>3 DEF Literal
      <4>2. f[q] = Read(TextLiteral(<<Quote>> \o s), f[q + 2].next)
        BY <1>0, <2>1, <2>4, <4>1 DEF RestAt, TextLiteral
      <4>3. /\ <<Quote>> \o s \in Seq(Symbols) /\ 1 \in DOMAIN (<<Quote>> \o s)
            /\ (<<Quote>> \o s)[1] = Quote
        <5>1. Quote \in Symbols
          BY <1>0, <2>4
        <5>2. QED BY <5>1
      <4>4. f[q + 2].next \in q + 1 .. n + 1
        BY <1>0, <3>0, <4>1 DEF Spans
      <4>5. Spans(x, q, <<Quote>> \o s, f[q + 2].next)
        BY <4>3, <4>4 DEF Spans
      <4>6. f[q].tok = TextLiteral(<<Quote>> \o s) /\ f[q].next = f[q + 2].next
        BY <4>2 DEF Read
      <4>7. QED
        BY <4>3, <4>5, <4>6 DEF Literal
    <3>4. QED BY <3>2, <3>3
  <2>5. CASE q <= n /\ x[q] = Quote /\ ~Is(x, q + 1, {Quote})
    <3>1. f[q] = Read(TextLiteral(<<>>), q + 1)
      BY <1>0, <2>1, <2>5 DEF RestAt
    <3>2. <<>> \in Seq(Symbols) /\ <<>> = SubSeq(x, q, q - 1) /\ q + 1 - 2 = q - 1
      BY <1>0, <2>5
    <3>3. Spans(x, q, <<>>, q + 1)
      BY <1>0, <2>5, <3>2 DEF Spans
    <3>4. f[q].tok = TextLiteral(<<>>) /\ f[q].next = q + 1
      BY <3>1 DEF Read
    <3>5. QED
      BY <3>2, <3>3, <3>4 DEF Literal
  <2>6. QED
    BY <1>0, <2>2, <2>3, <2>4, <2>5
<1>3. \A q \in 1 .. n + 1 : (\A r \in 1 .. n + 1 : r > q => r \in T) => q \in T
  BY <1>2
<1>4. p + 1 \in T
  <2>1. p + 1 \in 1 .. n + 1
    BY <1>0
  <2> HIDE DEF T, n
  <2>2. QED BY <1>0, <1>3, <2>1, Descend
<1>5. QED
  BY <1>0, <1>1, <1>4

LEMMA SymbolsApart ==
  /\ Quote \notin Digits /\ Quote \notin Letters /\ Space \notin Digits /\ Space \notin Letters
  /\ "-" \notin Digits /\ "-" \notin Letters /\ Digits \cap Letters = {}
  /\ \A c \in {"<", ">", "!", "=", "(", ")", ",", ";", "*", "."} : c \notin Digits /\ c \notin Letters
  /\ \A c \in Marks : c \notin Words
  BY LexerAssumption DEF Marks, Quote, Space, Digits, Letters

NumberAt(x, p) == x[p] \in Digits \/ (x[p] = "-" /\ Is(x, p + 1, Digits))
TwiceAt(x, p)  == x[p] \in {"!", "<", ">"} /\ Is(x, p + 1, {"="})
Singles == {"<", ">", "=", "(", ")", ",", ";", "*", "."}

LEMMA NextTokenIs ==
  ASSUME NEW x, NEW p
  PROVE  /\ x[p] = Quote => next_token(x, p) = read_string(x, p)
         /\ NumberAt(x, p) => next_token(x, p) = read_number(x, p)
         /\ x[p] \in Letters => next_token(x, p) = read_ident_or_keyword(x, p)
         /\ TwiceAt(x, p) => next_token(x, p) = Read(Sign(x[p] \o "="), p + 2)
         /\ ~TwiceAt(x, p) /\ x[p] \in Singles => next_token(x, p) = Read(Sign(x[p]), p + 1)
         /\ \/ x[p] = Quote \/ NumberAt(x, p) \/ x[p] \in Letters
            \/ TwiceAt(x, p) \/ x[p] \in Singles
            \/ next_token(x, p) = Read(LexerError("UnexpectedChar"), p + 1)
  BY SymbolsApart DEF next_token, NumberAt, TwiceAt, Singles, Quote

LEMMA TokenKinds ==
  /\ \A w \in Words : Keyword(w) \in Token
  /\ \A s \in Seq(Symbols) : Ident(s) \in Token /\ TextLiteral(s) \in Token
  /\ \A n \in Int : IntLiteral(n) \in Token
  /\ \A s \in SignNames : Sign(s) \in Token
  /\ \A why \in {"UnterminatedString", "NumberOutOfRange", "UnexpectedChar"} : LexerError(why) \in Token
  BY Zenon DEF Token

(* What is read at p: a token and the place after it, or an error.         *)
TokenAt(x, p, r) == /\ r.tok \in Token
                    /\ r.tok[1] = "error" \/ r.next \in p + 1 .. Len(x) + 1

LEMMA NumberRead ==
  ASSUME NEW x \in Seq(Symbols), NEW p \in 1 .. Len(x), NumberAt(x, p)
  PROVE  TokenAt(x, p, read_number(x, p))
<1> DEFINE n == Len(x)
           r == read_number(x, p)
           start == IF x[p] = "-" THEN p + 1 ELSE p
           end == RunEnd(x, start, Digits)
<1>0. n \in Nat /\ p \in 1 .. n
  OBVIOUS
<1>2. start \in p .. n /\ Is(x, start, Digits)
  <2>1. CASE x[p] = "-"
    <3>1. Is(x, p + 1, Digits) /\ start = p + 1
      BY <2>1, SymbolsApart DEF NumberAt
    <3> HIDE DEF start
    <3>2. QED BY <1>0, <3>1 DEF Is
  <2>2. CASE x[p] # "-"
    BY <1>0, <2>2 DEF Is, NumberAt
  <2>3. QED BY <2>1, <2>2
<1>3. end \in p + 1 .. n + 1
  <2> HIDE DEF start
  <2>1. end \in start .. n + 1 /\ ~Is(x, end, Digits)
    BY <1>0, <1>2, RunEndIs
  <2> HIDE DEF end
  <2>2. QED BY <1>0, <1>2, <2>1
<1>4. r.next = end
  BY DEF read_number, Read
<1>5. r.tok = LexerError("NumberOutOfRange") \/ \E m \in Int : r.tok = IntLiteral(m)
  <2>1. PICK m : r.tok = IF m \in -MaxInt - 1 .. MaxInt THEN IntLiteral(m) ELSE LexerError("NumberOutOfRange")
    BY Zenon DEF read_number, Read
  <2>2. QED BY <2>1
<1> HIDE DEF end, r
<1>6. r.tok \in Token
  <2>1. LexerError("NumberOutOfRange") \in Token /\ \A m \in Int : IntLiteral(m) \in Token
    BY TokenKinds
  <2>2. QED BY <1>5, <2>1
<1>7. TokenAt(x, p, r)
  BY <1>3, <1>4, <1>6 DEF TokenAt
<1>8. QED
  BY <1>7 DEF r

LEMMA WordRead ==
  ASSUME NEW x \in Seq(Symbols), NEW p \in 1 .. Len(x), x[p] \in Letters
  PROVE  TokenAt(x, p, read_ident_or_keyword(x, p))
<1> DEFINE n == Len(x)
           r == read_ident_or_keyword(x, p)
           end == RunEnd(x, p, Letters \cup Digits)
           word == SubSeq(x, p, end - 1)
<1>0. n \in Nat /\ p \in 1 .. n
  OBVIOUS
<1>2. end \in p + 1 .. n + 1
  <2>1. end \in p .. n + 1 /\ ~Is(x, end, Letters \cup Digits)
    BY <1>0, RunEndIs
  <2>2. Is(x, p, Letters \cup Digits)
    BY <1>0 DEF Is
  <2> HIDE DEF end
  <2>3. QED BY <1>0, <2>1, <2>2
<1>3. word \in Seq(Symbols)
  <2> HIDE DEF end
  <2>1. QED BY <1>0, <1>2
<1>4. r.next = end
  BY DEF read_ident_or_keyword, Read
<1>5. r.tok = Ident(word) \/ \E w \in Words : r.tok = Keyword(Upper[w])
  <2>1. r.tok = IF Len(word) = 1 /\ word[1] \in Words /\ Upper[word[1]] \in Keywords
                THEN Keyword(Upper[word[1]]) ELSE Ident(word)
    BY Zenon DEF read_ident_or_keyword, Read
  <2> HIDE DEF word, r
  <2>2. QED BY <2>1
<1>6. \A w \in Words : Upper[w] \in Words
  BY LexerAssumption
<1> HIDE DEF end, word, r
<1>7. r.tok \in Token
  <2>1. Ident(word) \in Token /\ \A w \in Words : Keyword(w) \in Token
    BY <1>3, TokenKinds
  <2>2. QED BY <1>5, <1>6, <2>1
<1>8. TokenAt(x, p, r)
  BY <1>2, <1>4, <1>7 DEF TokenAt
<1>9. QED
  BY <1>8 DEF r

LEMMA TokenRead ==
  ASSUME NEW x \in Seq(Symbols), NEW p \in 1 .. Len(x)
  PROVE  TokenAt(x, p, next_token(x, p))
<1> DEFINE r == next_token(x, p)
<1>0. Len(x) \in Nat /\ p \in 1 .. Len(x)
  OBVIOUS
<1>1. CASE x[p] = Quote
  <2>1. Literal(x, p + 1, r)
    BY <1>1, NextTokenIs, LiteralIs
  <2> HIDE DEF r
  <2>2. ASSUME r.tok = LexerError("UnterminatedString") PROVE TokenAt(x, p, r)
    <3>1. LexerError("UnterminatedString") \in Token /\ LexerError("UnterminatedString")[1] = "error"
      BY TokenKinds DEF LexerError
    <3>2. QED BY <2>2, <3>1 DEF TokenAt
  <2>3. ASSUME NEW s \in Seq(Symbols), r.tok = TextLiteral(s), Spans(x, p + 1, s, r.next)
        PROVE  TokenAt(x, p, r)
    BY <1>0, <2>3, TokenKinds DEF TokenAt, Spans
  <2>4. QED BY <2>1, <2>2, <2>3 DEF Literal, r
<1>2. CASE NumberAt(x, p)
  BY <1>2, NextTokenIs, NumberRead
<1>3. CASE x[p] \in Letters
  BY <1>3, NextTokenIs, WordRead
<1>4. CASE TwiceAt(x, p)
  <2>1. r.tok = Sign(x[p] \o "=") /\ r.next = p + 2
    BY <1>4, NextTokenIs DEF Read
  <2>2. x[p] \o "=" \in SignNames /\ p + 1 <= Len(x)
    BY <1>4 DEF SignNames, TwiceAt, Is
  <2> HIDE DEF r
  <2>3. TokenAt(x, p, r)
    BY <1>0, <2>1, <2>2, TokenKinds DEF TokenAt
  <2>4. QED BY <2>3 DEF r
<1>5. CASE ~TwiceAt(x, p) /\ x[p] \in Singles
  <2>1. r.tok = Sign(x[p]) /\ r.next = p + 1
    BY <1>5, NextTokenIs DEF Read
  <2>2. x[p] \in SignNames
    BY <1>5 DEF SignNames, Singles
  <2> HIDE DEF r
  <2>3. TokenAt(x, p, r)
    BY <1>0, <2>1, <2>2, TokenKinds DEF TokenAt
  <2>4. QED BY <2>3 DEF r
<1>6. CASE r = Read(LexerError("UnexpectedChar"), p + 1)
  <2>1. r.tok = LexerError("UnexpectedChar")
    BY <1>6 DEF Read
  <2> HIDE DEF r
  <2>2. TokenAt(x, p, r)
    BY <2>1, TokenKinds DEF TokenAt, LexerError
  <2>3. QED BY <2>2 DEF r
<1>7. QED
  BY <1>1, <1>2, <1>3, <1>4, <1>5, <1>6, NextTokenIs

----------------------------------------------------------------------------
(* The tokens of a text from each place on.                                *)

LexAt(f, x, p) ==
    IF p > Len(x) THEN <<>>
    ELSE IF x[p] = Space THEN f[p + 1]
    ELSE <<next_token(x, p).tok>> \o IF next_token(x, p).tok[1] = "error" THEN <<>>
                                     ELSE f[next_token(x, p).next]

Lexed(x) == CHOOSE f : f = [p \in 1 .. Len(x) + 1 |-> LexAt(f, x, p)]

LEMMA LexedIs ==
  ASSUME NEW x \in Seq(Symbols)
  PROVE  /\ \A p \in 1 .. Len(x) + 1 : Lexed(x)[p] = LexAt(Lexed(x), x, p)
         /\ tokenize(x) = Lexed(x)[1]
<1> DEFINE n == Len(x)
           D == 1 .. n + 1
           B(f, q) == LexAt(f, x, q)
<1>0. n \in Nat
  OBVIOUS
<1>1. ASSUME NEW f, NEW g, NEW q \in D, \A r \in D : r > q => f[r] = g[r]
      PROVE  B(f, q) = B(g, q)
  <2>1. q <= n => /\ f[q + 1] = g[q + 1]
                  /\ f[next_token(x, q).next] = g[next_token(x, q).next] \/ next_token(x, q).tok[1] = "error"
    BY <1>0, <1>1, TokenRead DEF TokenAt
  <2>2. QED BY <1>0, <2>1 DEF LexAt
<1>2. Lexed(x) = CHOOSE f : f = [q \in D |-> B(f, q)]
  BY Zenon DEF Lexed
<1>3. tokenize(x) = Lexed(x)[1]
  BY Zenon DEF tokenize, Lexed, LexAt
<1> HIDE DEF B
<1> DEFINE T == {k \in 0 .. n + 1 : \E g : \A q \in D : q > n + 1 - k => g[q] = B(g, q)}
<1>4. 0 \in T
  BY <1>0
<1>5. ASSUME NEW k \in 1 .. n + 1, k - 1 \in T PROVE k \in T
  <2>1. PICK g : \A q \in D : q > n + 1 - (k - 1) => g[q] = B(g, q)
    BY <1>5
  <2> DEFINE h == [q \in D |-> B(g, q)]
  <2>2. ASSUME NEW q \in D, q > n + 1 - k PROVE h[q] = B(h, q)
    <3>1. \A r \in D : r > q => h[r] = g[r]
      BY <1>0, <2>1, <2>2
    <3> HIDE DEF h
    <3>2. B(h, q) = B(g, q)
      BY <1>1, <3>1
    <3>3. QED BY <3>2 DEF h
  <2> HIDE DEF h
  <2>3. QED BY <1>0, <2>2
<1>6. n + 1 \in T
  <2> HIDE DEF T, D
  <2>1. QED BY <1>0, <1>4, <1>5, Climb
<1>7. PICK g : \A q \in D : g[q] = B(g, q)
  BY <1>0, <1>6
<1> DEFINE h == [q \in D |-> B(g, q)]
<1>8. h = [q \in D |-> B(h, q)]
  <2>1. ASSUME NEW q \in D PROVE B(h, q) = B(g, q)
    <3>1. \A r \in D : r > q => h[r] = g[r]
      BY <1>7
    <3> HIDE DEF h
    <3>2. QED BY <1>1, <3>1
  <2>2. QED BY <2>1
<1>9. Lexed(x) = [q \in D |-> B(Lexed(x), q)]
  <2> HIDE DEF h
  <2>1. QED BY <1>2, <1>8, Zenon
<1>10. QED
  BY <1>3, <1>9 DEF B

(* The key of a text from each place on.                                   *)

TokenText(x, p) ==
    LET tok == SubSeq(x, p, TokenEnd(x, p) - 1) IN IF x[p] = Quote THEN tok ELSE Folded(tok)

KeyAt(f, x, p) ==
    IF p > Len(x) THEN <<>>
    ELSE IF x[p] \in {Space, ";"} THEN f[p + 1]
    ELSE <<Space>> \o TokenText(x, p) \o f[TokenEnd(x, p)]

Keyed(x) == CHOOSE f : f = [p \in 1 .. Len(x) + 1 |-> KeyAt(f, x, p)]

LEMMA TokenEndIs ==
  ASSUME NEW x \in Seq(Symbols), NEW p \in 1 .. Len(x)
  PROVE  TokenEnd(x, p) \in p + 1 .. Len(x) + 1
<1>0. Len(x) \in Nat /\ p \in 1 .. Len(x)
  OBVIOUS
<1>1. CASE x[p] = Quote /\ \E q \in p + 1 .. Len(x) : x[q] = Quote
  <2>1. PICK q \in p + 1 .. Len(x) : x[q] = Quote
    BY <1>1
  <2> DEFINE e == RunEnd(x, p + 1, Range(x) \ {Quote})
  <2>2. e \in p + 1 .. Len(x) + 1 /\ \A r \in p + 1 .. e - 1 : x[r] \in Range(x) \ {Quote}
    BY <1>0, RunEndIs
  <2>3. TokenEnd(x, p) = e + 1
    BY <1>1, SymbolsApart DEF TokenEnd, Quote
  <2> HIDE DEF e
  <2>4. e <= q
    BY <1>0, <2>1, <2>2
  <2>5. QED BY <1>0, <2>1, <2>2, <2>3, <2>4
<1>2. CASE ~(x[p] = Quote /\ \E q \in p + 1 .. Len(x) : x[q] = Quote) /\ NumberAt(x, p)
  <2>1. RunEnd(x, p + 1, Digits) \in p + 1 .. Len(x) + 1
    BY <1>0, RunEndIs
  <2>2. TokenEnd(x, p) = RunEnd(x, p + 1, Digits)
    BY <1>2, SymbolsApart, Zenon DEF TokenEnd, NumberAt
  <2>3. QED BY <2>1, <2>2
<1>3. CASE x[p] \in Letters
  <2>1. TokenEnd(x, p) = RunEnd(x, p, Letters \cup Digits)
    BY <1>3, SymbolsApart DEF TokenEnd
  <2>2. RunEnd(x, p, Letters \cup Digits) \in p .. Len(x) + 1 /\ ~Is(x, RunEnd(x, p, Letters \cup Digits), Letters \cup Digits)
    BY <1>0, RunEndIs
  <2>3. Is(x, p, Letters \cup Digits)
    BY <1>0, <1>3 DEF Is
  <2>4. TokenEnd(x, p) # p
    BY <2>1, <2>2, <2>3
  <2>5. QED BY <1>0, <2>1, <2>2, <2>4
<1>4. CASE TwiceAt(x, p)
  <2>1. TokenEnd(x, p) = p + 2
    BY <1>4, SymbolsApart DEF TokenEnd, TwiceAt, Quote
  <2>2. QED BY <1>0, <1>4, <2>1 DEF TwiceAt, Is
<1>5. CASE /\ ~(x[p] = Quote /\ \E q \in p + 1 .. Len(x) : x[q] = Quote) /\ ~NumberAt(x, p)
           /\ x[p] \notin Letters /\ ~TwiceAt(x, p)
  <2>1. TokenEnd(x, p) = p + 1
    BY <1>5 DEF TokenEnd, TwiceAt, NumberAt
  <2>2. QED BY <1>0, <2>1
<1>6. QED
  BY <1>1, <1>2, <1>3, <1>4, <1>5

LEMMA KeyedIs ==
  ASSUME NEW x \in Seq(Symbols)
  PROVE  /\ \A p \in 1 .. Len(x) + 1 : Keyed(x)[p] = KeyAt(Keyed(x), x, p)
         /\ normalize_sql(x) = Keyed(x)[1]
<1> DEFINE n == Len(x)
           D == 1 .. n + 1
           B(f, q) == KeyAt(f, x, q)
<1>0. n \in Nat
  OBVIOUS
<1>1. ASSUME NEW f, NEW g, NEW q \in D, \A r \in D : r > q => f[r] = g[r]
      PROVE  B(f, q) = B(g, q)
  <2>1. q <= n => f[q + 1] = g[q + 1] /\ f[TokenEnd(x, q)] = g[TokenEnd(x, q)]
    BY <1>0, <1>1, TokenEndIs
  <2>2. CASE q > n
    BY <2>2 DEF KeyAt
  <2>3. CASE q <= n
    <3>1. f[q + 1] = g[q + 1] /\ f[TokenEnd(x, q)] = g[TokenEnd(x, q)]
      BY <2>1, <2>3
    <3>2. QED BY <3>1, Zenon DEF KeyAt
  <2>4. QED BY <1>0, <2>2, <2>3
<1>2. Keyed(x) = CHOOSE f : f = [q \in D |-> B(f, q)]
  BY Zenon DEF Keyed
<1>3. normalize_sql(x) = Keyed(x)[1]
  BY Zenon DEF normalize_sql, TokenText, Keyed, KeyAt
<1> HIDE DEF B
<1> DEFINE T == {k \in 0 .. n + 1 : \E g : \A q \in D : q > n + 1 - k => g[q] = B(g, q)}
<1>4. 0 \in T
  BY <1>0
<1>5. ASSUME NEW k \in 1 .. n + 1, k - 1 \in T PROVE k \in T
  <2>1. PICK g : \A q \in D : q > n + 1 - (k - 1) => g[q] = B(g, q)
    BY <1>5
  <2> DEFINE h == [q \in D |-> B(g, q)]
  <2>2. ASSUME NEW q \in D, q > n + 1 - k PROVE h[q] = B(h, q)
    <3>1. \A r \in D : r > q => h[r] = g[r]
      BY <1>0, <2>1, <2>2
    <3> HIDE DEF h
    <3>2. B(h, q) = B(g, q)
      BY <1>1, <3>1
    <3>3. QED BY <3>2 DEF h
  <2> HIDE DEF h
  <2>3. QED BY <1>0, <2>2
<1>6. n + 1 \in T
  <2> HIDE DEF T, D
  <2>1. QED BY <1>0, <1>4, <1>5, Climb
<1>7. PICK g : \A q \in D : g[q] = B(g, q)
  BY <1>0, <1>6
<1> DEFINE h == [q \in D |-> B(g, q)]
<1>8. h = [q \in D |-> B(h, q)]
  <2>1. ASSUME NEW q \in D PROVE B(h, q) = B(g, q)
    <3>1. \A r \in D : r > q => h[r] = g[r]
      BY <1>7
    <3> HIDE DEF h
    <3>2. QED BY <1>1, <3>1
  <2>2. QED BY <2>1
<1>9. Keyed(x) = [q \in D |-> B(Keyed(x), q)]
  <2> HIDE DEF h
  <2>1. QED BY <1>2, <1>8, Zenon
<1>10. QED
  BY <1>3, <1>9 DEF B

(* Tokens but for semicolons, from each place on.                          *)

SameAt(f, t, i) ==
    IF i > Len(t) THEN <<>>
    ELSE IF t[i] = Sign(";") THEN f[i + 1]
    ELSE <<Fold(t[i])>> \o f[i + 1]

Samed(t) == CHOOSE f : f = [i \in 1 .. Len(t) + 1 |-> SameAt(f, t, i)]

LEMMA SamedIs ==
  ASSUME NEW t \in Seq(Token)
  PROVE  /\ \A i \in 1 .. Len(t) + 1 : Samed(t)[i] = SameAt(Samed(t), t, i)
         /\ Same(t) = Samed(t)[1]
<1> DEFINE n == Len(t)
           D == 1 .. n + 1
           B(f, q) == SameAt(f, t, q)
<1>0. n \in Nat
  OBVIOUS
<1>1. ASSUME NEW f, NEW g, NEW q \in D, \A r \in D : r > q => f[r] = g[r]
      PROVE  B(f, q) = B(g, q)
  <2>1. q <= n => f[q + 1] = g[q + 1]
    BY <1>0, <1>1
  <2>2. CASE q > n
    BY <2>2 DEF SameAt
  <2>3. CASE q <= n
    BY <2>1, <2>3, Zenon DEF SameAt
  <2>4. QED BY <1>0, <2>2, <2>3
<1>2. Samed(t) = CHOOSE f : f = [q \in D |-> B(f, q)]
  BY Zenon DEF Samed
<1>3. Same(t) = Samed(t)[1]
  BY Zenon DEF Same, Samed, SameAt
<1> HIDE DEF B
<1> DEFINE T == {k \in 0 .. n + 1 : \E g : \A q \in D : q > n + 1 - k => g[q] = B(g, q)}
<1>4. 0 \in T
  BY <1>0
<1>5. ASSUME NEW k \in 1 .. n + 1, k - 1 \in T PROVE k \in T
  <2>1. PICK g : \A q \in D : q > n + 1 - (k - 1) => g[q] = B(g, q)
    BY <1>5
  <2> DEFINE h == [q \in D |-> B(g, q)]
  <2>2. ASSUME NEW q \in D, q > n + 1 - k PROVE h[q] = B(h, q)
    <3>1. \A r \in D : r > q => h[r] = g[r]
      BY <1>0, <2>1, <2>2
    <3> HIDE DEF h
    <3>2. B(h, q) = B(g, q)
      BY <1>1, <3>1
    <3>3. QED BY <3>2 DEF h
  <2> HIDE DEF h
  <2>3. QED BY <1>0, <2>2
<1>6. n + 1 \in T
  <2> HIDE DEF T, D
  <2>1. QED BY <1>0, <1>4, <1>5, Climb
<1>7. PICK g : \A q \in D : g[q] = B(g, q)
  BY <1>0, <1>6
<1> DEFINE h == [q \in D |-> B(g, q)]
<1>8. h = [q \in D |-> B(h, q)]
  <2>1. ASSUME NEW q \in D PROVE B(h, q) = B(g, q)
    <3>1. \A r \in D : r > q => h[r] = g[r]
      BY <1>7
    <3> HIDE DEF h
    <3>2. QED BY <1>1, <3>1
  <2>2. QED BY <2>1
<1>9. Samed(t) = [q \in D |-> B(Samed(t), q)]
  <2> HIDE DEF h
  <2>1. QED BY <1>2, <1>8, Zenon
<1>10. QED
  BY <1>3, <1>9 DEF B

----------------------------------------------------------------------------
(* The same symbols further on, up to the end or a space, are the same     *)
(* tokens.                                                                 *)

(* From p on, x is a part of y that begins d places later.                 *)
Window(x, p, y, d) ==
    /\ d \in Nat /\ d + Len(x) <= Len(y)
    /\ \A i \in p .. Len(x) : y[d + i] = x[i]
    /\ d + Len(x) = Len(y) \/ y[d + Len(x) + 1] = Space

LEMMA IsMoves ==
  ASSUME NEW x \in Seq(Symbols), NEW y \in Seq(Symbols), NEW p \in 1 .. Len(x) + 1, NEW d,
         Window(x, p, y, d), NEW S, Space \notin S, NEW i \in p .. Len(x) + 1
  PROVE  Is(y, d + i, S) <=> Is(x, i, S)
<1>0. Len(x) \in Nat /\ Len(y) \in Nat /\ p \in 1 .. Len(x) + 1 /\ i \in p .. Len(x) + 1 /\ d \in Nat
  BY DEF Window
<1>1. CASE i <= Len(x)
  BY <1>0, <1>1 DEF Window, Is
<1>2. CASE i = Len(x) + 1
  BY <1>0, <1>2 DEF Window, Is
<1>3. QED BY <1>0, <1>1, <1>2

LEMMA RunEndMoves ==
  ASSUME NEW x \in Seq(Symbols), NEW y \in Seq(Symbols), NEW p \in 1 .. Len(x) + 1, NEW d,
         Window(x, p, y, d), NEW S, Space \notin S, NEW i \in p .. Len(x) + 1
  PROVE  RunEnd(y, d + i, S) = d + RunEnd(x, i, S)
<1> DEFINE e == RunEnd(x, i, S)
<1>0. /\ Len(x) \in Nat /\ Len(y) \in Nat /\ p \in 1 .. Len(x) + 1 /\ i \in p .. Len(x) + 1
      /\ d \in Nat /\ d + Len(x) <= Len(y)
  BY DEF Window
<1>1. e \in i .. Len(x) + 1 /\ ~Is(x, e, S) /\ \A r \in i .. e - 1 : x[r] \in S
  BY <1>0, RunEndIs
<1> HIDE DEF e
<1>2. ~Is(y, d + e, S)
  <2>1. e \in p .. Len(x) + 1
    BY <1>0, <1>1
  <2>2. QED BY <1>1, <2>1, IsMoves
<1>3. ASSUME NEW r \in d + i .. (d + e) - 1 PROVE y[r] \in S
  <2>1. r - d \in i .. e - 1 /\ r - d \in p .. Len(x) /\ r = d + (r - d)
    BY <1>0, <1>1, <1>3
  <2>2. y[d + (r - d)] = x[r - d]
    BY <2>1 DEF Window
  <2>3. QED BY <1>1, <2>1, <2>2
<1>4. d + i \in 1 .. Len(y) + 1 /\ d + e \in d + i .. Len(y) + 1
  BY <1>0, <1>1
<1>5. RunEnd(y, d + i, S) = d + e
  <2> DEFINE a == d + i
             b == d + e
  <2>1. /\ a \in 1 .. Len(y) + 1 /\ b \in a .. Len(y) + 1 /\ ~Is(y, b, S)
        /\ \A r \in a .. b - 1 : y[r] \in S
    BY <1>2, <1>3, <1>4, Zenon
  <2> HIDE DEF a, b
  <2>2. RunEnd(y, a, S) = b
    BY <2>1, RunEndOnly
  <2>3. QED BY <2>2 DEF a, b
<1>6. QED
  BY <1>5 DEF e

LEMMA SubSeqMoves ==
  ASSUME NEW x \in Seq(Symbols), NEW y \in Seq(Symbols), NEW p \in 1 .. Len(x) + 1, NEW d,
         Window(x, p, y, d), NEW a \in p .. Len(x) + 1, NEW b \in Int, b <= Len(x)
  PROVE  SubSeq(y, d + a, d + b) = SubSeq(x, a, b)
<1>0. /\ Len(x) \in Nat /\ Len(y) \in Nat /\ p \in 1 .. Len(x) + 1 /\ a \in p .. Len(x) + 1
      /\ d \in Nat /\ d + Len(x) <= Len(y) /\ \A i \in p .. Len(x) : y[d + i] = x[i]
  BY DEF Window
<1>1. CASE a <= b
  <2> DEFINE u == SubSeq(y, d + a, d + b)
             v == SubSeq(x, a, b)
  <2>1. u \in Seq(Symbols) /\ Len(u) = b - a + 1 /\ \A i \in 1 .. b - a + 1 : u[i] = y[d + a + i - 1]
    BY <1>0, <1>1
  <2>2. v \in Seq(Symbols) /\ Len(v) = b - a + 1 /\ \A i \in 1 .. b - a + 1 : v[i] = x[a + i - 1]
    BY <1>0, <1>1
  <2> HIDE DEF u, v
  <2>3. ASSUME NEW i \in 1 .. b - a + 1 PROVE u[i] = v[i]
    <3>1. a + i - 1 \in p .. Len(x) /\ d + a + i - 1 = d + (a + i - 1)
      BY <1>0, <1>1
    <3>2. QED BY <1>0, <2>1, <2>2, <3>1
  <2>4. u = v
    BY <2>1, <2>2, <2>3, SeqEqual
  <2>5. QED BY <2>4 DEF u, v
<1>2. CASE b < a
  <2>1. SubSeq(x, a, b) = <<>>
    BY <1>0, <1>2
  <2>2. SubSeq(y, d + a, d + b) = <<>>
    BY <1>0, <1>2
  <2>3. QED BY <2>1, <2>2
<1>3. QED
  BY <1>0, <1>1, <1>2

(* A token or an error that does not come of the end of the text.          *)
Moves(x, y, d, r) == r.tok[1] # "error" \/ d + Len(x) = Len(y)

LEMMA StringMoves ==
  ASSUME NEW x \in Seq(Symbols), NEW y \in Seq(Symbols), NEW p \in 1 .. Len(x), NEW d,
         Window(x, p, y, d), Moves(x, y, d, read_string(x, p))
  PROVE  read_string(y, d + p) = Read(read_string(x, p).tok, d + read_string(x, p).next)
<1> DEFINE n == Len(x)
<1>0. /\ n \in Nat /\ Len(y) \in Nat /\ p \in 1 .. n /\ d \in Nat /\ d + n <= Len(y)
      /\ d + p \in 1 .. Len(y) /\ p \in 1 .. n + 1
      /\ \A i \in p .. n : y[d + i] = x[i]
  BY DEF Window
<1>1. PICK f : /\ \A q \in p .. n + 1 : f[q] = RestAt(f, x, q)
               /\ read_string(x, p) = f[p + 1]
  BY RestIs
<1>2. PICK g : /\ \A q \in d + p .. Len(y) + 1 : g[q] = RestAt(g, y, q)
               /\ read_string(y, d + p) = g[d + p + 1]
  BY <1>0, RestIs
<1> DEFINE Moved(q) == Moves(x, y, d, f[q]) => g[d + q] = Read(f[q].tok, d + f[q].next)
           T == {q \in 1 .. n + 1 : q >= p => Moved(q)}
<1>3. ASSUME NEW q \in 1 .. n + 1, \A r \in 1 .. n + 1 : r > q => r \in T, q >= p,
             Moves(x, y, d, f[q])
      PROVE  g[d + q] = Read(f[q].tok, d + f[q].next)
  <2>1. f[q] = RestAt(f, x, q) /\ g[d + q] = RestAt(g, y, d + q)
    <3>1. q \in p .. n + 1 /\ d + q \in d + p .. Len(y) + 1
      BY <1>0, <1>3
    <3>2. QED BY <1>1, <1>2, <3>1
  <2>2. CASE q = n + 1
    <3>1. f[q] = Read(LexerError("UnterminatedString"), q)
      BY <1>0, <2>1, <2>2 DEF RestAt
    <3>2. f[q].tok = LexerError("UnterminatedString") /\ f[q].next = q
      BY <3>1 DEF Read
    <3>3. d + n = Len(y)
      BY <1>3, <3>2 DEF Moves, LexerError
    <3>4. g[d + q] = Read(LexerError("UnterminatedString"), d + q)
      BY <1>0, <2>1, <2>2, <3>3 DEF RestAt
    <3>5. QED BY <3>2, <3>4
  <2>3. CASE q <= n
    <3>1. y[d + q] = x[q] /\ ~(q > n) /\ ~(d + q > Len(y))
      BY <1>0, <1>3, <2>3
    <3>2. Is(y, d + q + 1, {Quote}) <=> Is(x, q + 1, {Quote})
      <4> DEFINE r == q + 1
      <4>1. r \in p .. n + 1 /\ Space \notin {Quote} /\ d + r = d + q + 1
        BY <1>0, <1>3, <2>3 DEF Space, Quote
      <4> HIDE DEF r
      <4>2. Is(y, d + r, {Quote}) <=> Is(x, r, {Quote})
        BY <1>0, <4>1, IsMoves
      <4>3. QED BY <4>1, <4>2 DEF r
    <3>3. CASE x[q] # Quote
      <4>1. q + 1 \in T /\ d + (q + 1) = d + q + 1
        BY <1>0, <1>3, <2>3
      <4>2. f[q] = IF f[q + 1].tok[1] = "error" THEN f[q + 1]
                   ELSE Read(TextLiteral(<<x[q]>> \o f[q + 1].tok[2]), f[q + 1].next)
        BY <2>1, <3>1, <3>3, Zenon DEF RestAt
      <4>3. g[d + q] = IF g[d + q + 1].tok[1] = "error" THEN g[d + q + 1]
                       ELSE Read(TextLiteral(<<x[q]>> \o g[d + q + 1].tok[2]), g[d + q + 1].next)
        BY <2>1, <3>1, <3>3, Zenon DEF RestAt
      <4>4. Moves(x, y, d, f[q + 1])
        BY <1>3, <4>2 DEF Moves
      <4>5. g[d + q + 1] = Read(f[q + 1].tok, d + f[q + 1].next)
        BY <1>0, <1>3, <4>1, <4>4
      <4>6. g[d + q + 1].tok = f[q + 1].tok /\ g[d + q + 1].next = d + f[q + 1].next
        BY <4>5 DEF Read
      <4>7. CASE f[q + 1].tok[1] = "error"
        BY <4>2, <4>3, <4>5, <4>6, <4>7
      <4>8. CASE f[q + 1].tok[1] # "error"
        <5>1. f[q] = Read(TextLiteral(<<x[q]>> \o f[q + 1].tok[2]), f[q + 1].next)
          BY <4>2, <4>8
        <5>2. f[q].tok = TextLiteral(<<x[q]>> \o f[q + 1].tok[2]) /\ f[q].next = f[q + 1].next
          BY <5>1 DEF Read
        <5>3. QED BY <4>3, <4>6, <4>8, <5>2
      <4>9. QED BY <4>7, <4>8
    <3>4. CASE x[q] = Quote /\ Is(x, q + 1, {Quote})
      <4>0. q + 2 \in 1 .. n + 1
        BY <1>0, <2>3, <3>4 DEF Is
      <4>1. q + 2 \in T /\ d + (q + 2) = d + q + 2
        BY <1>0, <1>3, <4>0
      <4>2. f[q] = IF f[q + 2].tok[1] = "error" THEN f[q + 2]
                   ELSE Read(TextLiteral(<<Quote>> \o f[q + 2].tok[2]), f[q + 2].next)
        BY <2>1, <3>1, <3>4, Zenon DEF RestAt
      <4>3. g[d + q] = IF g[d + q + 2].tok[1] = "error" THEN g[d + q + 2]
                       ELSE Read(TextLiteral(<<Quote>> \o g[d + q + 2].tok[2]), g[d + q + 2].next)
        BY <2>1, <3>1, <3>2, <3>4, Zenon DEF RestAt
      <4>4. Moves(x, y, d, f[q + 2])
        BY <1>3, <4>2 DEF Moves
      <4>5. g[d + q + 2] = Read(f[q + 2].tok, d + f[q + 2].next)
        BY <1>0, <1>3, <4>1, <4>4
      <4>6. g[d + q + 2].tok = f[q + 2].tok /\ g[d + q + 2].next = d + f[q + 2].next
        BY <4>5 DEF Read
      <4>7. CASE f[q + 2].tok[1] = "error"
        BY <4>2, <4>3, <4>5, <4>6, <4>7
      <4>8. CASE f[q + 2].tok[1] # "error"
        <5>1. f[q] = Read(TextLiteral(<<Quote>> \o f[q + 2].tok[2]), f[q + 2].next)
          BY <4>2, <4>8
        <5>2. f[q].tok = TextLiteral(<<Quote>> \o f[q + 2].tok[2]) /\ f[q].next = f[q + 2].next
          BY <5>1 DEF Read
        <5>3. QED BY <4>3, <4>6, <4>8, <5>2
      <4>9. QED BY <4>7, <4>8
    <3>5. CASE x[q] = Quote /\ ~Is(x, q + 1, {Quote})
      <4>1. f[q] = Read(TextLiteral(<<>>), q + 1)
        BY <2>1, <3>1, <3>5, Zenon DEF RestAt
      <4>2. g[d + q] = Read(TextLiteral(<<>>), d + q + 1)
        BY <2>1, <3>1, <3>2, <3>5, Zenon DEF RestAt
      <4>3. f[q].tok = TextLiteral(<<>>) /\ f[q].next = q + 1 /\ d + (q + 1) = d + q + 1
        BY <1>0, <4>1 DEF Read
      <4>4. QED BY <4>2, <4>3
    <3>6. QED BY <3>3, <3>4, <3>5
  <2>4. q = n + 1 \/ q <= n
    BY <1>0, <1>3
  <2>5. QED BY <2>2, <2>3, <2>4
<1>4. \A q \in 1 .. n + 1 : (\A r \in 1 .. n + 1 : r > q => r \in T) => q \in T
  BY <1>3
<1>5. p + 1 \in T
  <2>1. p + 1 \in 1 .. n + 1
    BY <1>0
  <2> HIDE DEF T, n
  <2>2. QED BY <1>0, <1>4, <2>1, Descend
<1>6. QED
  BY <1>0, <1>1, <1>2, <1>5

(* What digits mean.                                                       *)
NumberToken(minus, digits) ==
    LET Shift(n, d) == 10 * n + DigitOf[d]
        size == FoldLeft(Shift, 0, digits)
        n    == IF minus THEN -size ELSE size
    IN  IF n \in -MaxInt - 1 .. MaxInt THEN IntLiteral(n) ELSE LexerError("NumberOutOfRange")

LEMMA NumberIs ==
  ASSUME NEW x, NEW p
  PROVE  /\ x[p] = "-" => read_number(x, p) =
                Read(NumberToken(TRUE, SubSeq(x, p + 1, RunEnd(x, p + 1, Digits) - 1)), RunEnd(x, p + 1, Digits))
         /\ x[p] # "-" => read_number(x, p) =
                Read(NumberToken(FALSE, SubSeq(x, p, RunEnd(x, p, Digits) - 1)), RunEnd(x, p, Digits))
<1>1. CASE x[p] = "-"
  <2>1. (x[p] = "-") = TRUE
    BY <1>1
  <2>2. QED BY <1>1, <2>1, Zenon DEF read_number, NumberToken
<1>2. CASE x[p] # "-"
  BY <1>2, Zenon DEF read_number, NumberToken
<1>3. QED BY <1>1, <1>2

WordToken(word) ==
    IF Len(word) = 1 /\ word[1] \in Words /\ Upper[word[1]] \in Keywords
    THEN Keyword(Upper[word[1]]) ELSE Ident(word)

LEMMA WordIs ==
  ASSUME NEW x, NEW p
  PROVE  read_ident_or_keyword(x, p) = Read(WordToken(SubSeq(x, p, RunEnd(x, p, Letters \cup Digits) - 1)),
                                            RunEnd(x, p, Letters \cup Digits))
  BY Zenon DEF read_ident_or_keyword, WordToken

LEMMA NumberMoves ==
  ASSUME NEW x \in Seq(Symbols), NEW y \in Seq(Symbols), NEW p \in 1 .. Len(x), NEW d,
         Window(x, p, y, d), NumberAt(x, p)
  PROVE  read_number(y, d + p) = Read(read_number(x, p).tok, d + read_number(x, p).next)
<1> DEFINE start == IF x[p] = "-" THEN p + 1 ELSE p
           e == RunEnd(x, start, Digits)
           digits == SubSeq(x, start, e - 1)
           token == NumberToken(x[p] = "-", digits)
<1>0. /\ Len(x) \in Nat /\ Len(y) \in Nat /\ p \in 1 .. Len(x) /\ d \in Nat /\ d + Len(x) <= Len(y)
      /\ p \in 1 .. Len(x) + 1 /\ y[d + p] = x[p]
  BY DEF Window
<1>1. start \in p .. Len(x) /\ start \in p .. Len(x) + 1
  <2>1. CASE x[p] = "-"
    <3>1. Is(x, p + 1, Digits) /\ start = p + 1
      BY <2>1, SymbolsApart DEF NumberAt
    <3> HIDE DEF start
    <3>2. QED BY <1>0, <3>1 DEF Is
  <2>2. CASE x[p] # "-"
    BY <1>0, <2>2
  <2>3. QED BY <2>1, <2>2
<1>2. d + start = IF x[p] = "-" THEN (d + p) + 1 ELSE d + p
  BY <1>0
<1> HIDE DEF start
<1>3. e \in start .. Len(x) + 1
  BY <1>0, <1>1, RunEndIs
<1>4. RunEnd(y, d + start, Digits) = d + e
  <2>1. Space \notin Digits
    BY SymbolsApart
  <2>2. QED BY <1>0, <1>1, <2>1, RunEndMoves
<1> HIDE DEF e
<1>5. SubSeq(y, d + start, (d + e) - 1) = digits
  <2> DEFINE b == e - 1
  <2>1. b \in Int /\ b <= Len(x) /\ d + b = (d + e) - 1
    BY <1>0, <1>1, <1>3
  <2> HIDE DEF b
  <2>2. SubSeq(y, d + start, d + b) = SubSeq(x, start, b)
    BY <1>0, <1>1, <2>1, SubSeqMoves, ZenonT(40)
  <2>3. QED BY <2>1, <2>2 DEF b
<1> HIDE DEF digits
<1>6. CASE x[p] = "-"
  <2>1. start = p + 1 /\ d + start = (d + p) + 1 /\ y[d + p] = "-"
    BY <1>0, <1>2, <1>6 DEF start
  <2>2. read_number(x, p) = Read(NumberToken(TRUE, digits), e)
    BY <1>6, <2>1, NumberIs, Zenon DEF e, digits
  <2>3. read_number(y, d + p) = Read(NumberToken(TRUE, digits), d + e)
    BY <1>4, <1>5, <2>1, NumberIs, ZenonT(40)
  <2>4. QED BY <2>2, <2>3 DEF Read
<1>7. CASE x[p] # "-"
  <2>1. start = p /\ y[d + p] # "-"
    BY <1>0, <1>7 DEF start
  <2>2. read_number(x, p) = Read(NumberToken(FALSE, digits), e)
    BY <1>7, <2>1, NumberIs, Zenon DEF e, digits
  <2>3. read_number(y, d + p) = Read(NumberToken(FALSE, digits), d + e)
    BY <1>4, <1>5, <2>1, NumberIs
  <2>4. QED BY <2>2, <2>3 DEF Read
<1>8. QED BY <1>6, <1>7

LEMMA WordMoves ==
  ASSUME NEW x \in Seq(Symbols), NEW y \in Seq(Symbols), NEW p \in 1 .. Len(x), NEW d,
         Window(x, p, y, d)
  PROVE  read_ident_or_keyword(y, d + p) =
             Read(read_ident_or_keyword(x, p).tok, d + read_ident_or_keyword(x, p).next)
<1> DEFINE S == Letters \cup Digits
           e == RunEnd(x, p, S)
           word == SubSeq(x, p, e - 1)
<1>0. /\ Len(x) \in Nat /\ Len(y) \in Nat /\ p \in 1 .. Len(x) /\ d \in Nat /\ d + Len(x) <= Len(y)
      /\ p \in 1 .. Len(x) + 1 /\ p \in p .. Len(x) + 1
  BY DEF Window
<1>1. Space \notin S
  BY SymbolsApart
<1>2. read_ident_or_keyword(x, p) = Read(WordToken(word), e)
  BY WordIs
<1>3. read_ident_or_keyword(y, d + p) =
          Read(WordToken(SubSeq(y, d + p, RunEnd(y, d + p, S) - 1)), RunEnd(y, d + p, S))
  BY WordIs
<1> HIDE DEF S
<1>4. e \in p .. Len(x) + 1
  BY <1>0, RunEndIs
<1>5. RunEnd(y, d + p, S) = d + e
  BY <1>0, <1>1, RunEndMoves
<1> HIDE DEF e
<1>6. SubSeq(y, d + p, (d + e) - 1) = word
  <2> DEFINE b == e - 1
  <2>1. b \in Int /\ b <= Len(x) /\ d + b = (d + e) - 1
    BY <1>0, <1>4
  <2> HIDE DEF b
  <2>2. SubSeq(y, d + p, d + b) = SubSeq(x, p, b)
    BY <1>0, <2>1, SubSeqMoves, ZenonT(40)
  <2>3. QED BY <2>1, <2>2 DEF b
<1> HIDE DEF word
<1>7. read_ident_or_keyword(y, d + p) = Read(WordToken(word), d + e)
  BY <1>3, <1>5, <1>6, Zenon
<1>8. QED
  BY <1>2, <1>7 DEF Read

LEMMA NextMoves ==
  ASSUME NEW x \in Seq(Symbols), NEW y \in Seq(Symbols), NEW p \in 1 .. Len(x), NEW d,
         Window(x, p, y, d), Moves(x, y, d, next_token(x, p))
  PROVE  next_token(y, d + p) = Read(next_token(x, p).tok, d + next_token(x, p).next)
<1>0. /\ Len(x) \in Nat /\ Len(y) \in Nat /\ p \in 1 .. Len(x) /\ d \in Nat /\ d + Len(x) <= Len(y)
      /\ p \in 1 .. Len(x) + 1 /\ y[d + p] = x[p]
  BY DEF Window
<1>1. \A S : Space \notin S => (Is(y, (d + p) + 1, S) <=> Is(x, p + 1, S))
  <2> TAKE S
  <2> HAVE Space \notin S
  <2> DEFINE r == p + 1
  <2>1. r \in p .. Len(x) + 1 /\ d + r = (d + p) + 1
    BY <1>0
  <2> HIDE DEF r
  <2>2. Is(y, d + r, S) <=> Is(x, r, S)
    BY <1>0, <2>1, IsMoves
  <2>3. QED BY <2>1, <2>2 DEF r
<1>2. NumberAt(y, d + p) <=> NumberAt(x, p)
  BY <1>0, <1>1, SymbolsApart DEF NumberAt
<1>3. TwiceAt(y, d + p) <=> TwiceAt(x, p)
  <2>1. Space \notin {"="}
    BY DEF Space
  <2>2. QED BY <1>0, <1>1, <2>1 DEF TwiceAt
<1>4. CASE x[p] = Quote
  BY <1>0, <1>4, NextTokenIs, StringMoves
<1>5. CASE NumberAt(x, p)
  BY <1>0, <1>2, <1>5, NextTokenIs, NumberMoves
<1>6. CASE x[p] \in Letters
  BY <1>0, <1>6, NextTokenIs, WordMoves
<1>7. CASE TwiceAt(x, p)
  <2>1. next_token(x, p) = Read(Sign(x[p] \o "="), p + 2)
    BY <1>7, NextTokenIs
  <2>2. next_token(y, d + p) = Read(Sign(x[p] \o "="), (d + p) + 2)
    BY <1>0, <1>3, <1>7, NextTokenIs
  <2>3. (d + p) + 2 = d + (p + 2)
    BY <1>0
  <2> DEFINE tok == Sign(x[p] \o "=")
  <2> HIDE DEF tok
  <2>4. next_token(x, p) = Read(tok, p + 2) /\ next_token(y, d + p) = Read(tok, d + (p + 2))
    BY <2>1, <2>2, <2>3, Zenon DEF tok
  <2>5. QED BY <2>4 DEF Read
<1>8. CASE ~TwiceAt(x, p) /\ x[p] \in Singles
  <2>1. next_token(x, p) = Read(Sign(x[p]), p + 1)
    BY <1>8, NextTokenIs
  <2>2. next_token(y, d + p) = Read(Sign(x[p]), (d + p) + 1)
    BY <1>0, <1>3, <1>8, NextTokenIs
  <2>3. (d + p) + 1 = d + (p + 1)
    BY <1>0
  <2>4. QED BY <2>1, <2>2, <2>3 DEF Read
<1>9. CASE ~(x[p] = Quote \/ NumberAt(x, p) \/ x[p] \in Letters \/ TwiceAt(x, p) \/ x[p] \in Singles)
  <2>1. next_token(x, p) = Read(LexerError("UnexpectedChar"), p + 1)
    BY <1>9, NextTokenIs
  <2>2. next_token(y, d + p) = Read(LexerError("UnexpectedChar"), (d + p) + 1)
    BY <1>0, <1>2, <1>3, <1>9, NextTokenIs
  <2>3. (d + p) + 1 = d + (p + 1)
    BY <1>0
  <2>4. QED BY <2>1, <2>2, <2>3 DEF Read
<1>10. QED
  BY <1>4, <1>5, <1>6, <1>7, <1>8, <1>9

----------------------------------------------------------------------------
(* A text with more behind it has its tokens, and then those of the rest.  *)

LEMMA LexedStep ==
  ASSUME NEW x \in Seq(Symbols), NEW p \in 1 .. Len(x) + 1
  PROVE  /\ p = Len(x) + 1 => Lexed(x)[p] = <<>>
         /\ p <= Len(x) /\ x[p] = Space => Lexed(x)[p] = Lexed(x)[p + 1]
         /\ p <= Len(x) /\ x[p] # Space /\ next_token(x, p).tok[1] = "error"
                => Lexed(x)[p] = <<next_token(x, p).tok>>
         /\ p <= Len(x) /\ x[p] # Space /\ next_token(x, p).tok[1] # "error"
                => /\ Lexed(x)[p] = <<next_token(x, p).tok>> \o Lexed(x)[next_token(x, p).next]
                   /\ next_token(x, p).next \in p + 1 .. Len(x) + 1
         /\ p <= Len(x) => next_token(x, p).tok \in Token
<1>0. Len(x) \in Nat /\ p \in 1 .. Len(x) + 1
  OBVIOUS
<1>1. Lexed(x)[p] = LexAt(Lexed(x), x, p)
  BY LexedIs
<1>2. p <= Len(x) => TokenAt(x, p, next_token(x, p))
  BY <1>0, TokenRead
<1>3. p = Len(x) + 1 => Lexed(x)[p] = <<>>
  BY <1>0, <1>1 DEF LexAt
<1>4. p <= Len(x) => ~(p > Len(x))
  BY <1>0
<1>5. ASSUME p <= Len(x), x[p] # Space, next_token(x, p).tok[1] = "error"
      PROVE  Lexed(x)[p] = <<next_token(x, p).tok>>
  <2>1. Lexed(x)[p] = <<next_token(x, p).tok>> \o <<>>
    BY <1>1, <1>4, <1>5, Zenon DEF LexAt
  <2>2. <<next_token(x, p).tok>> \in Seq(Token)
    BY <1>2, <1>5 DEF TokenAt
  <2>3. QED BY <2>1, <2>2, ConcatEmptySeq
<1>6. ASSUME p <= Len(x), x[p] # Space, next_token(x, p).tok[1] # "error"
      PROVE  Lexed(x)[p] = <<next_token(x, p).tok>> \o Lexed(x)[next_token(x, p).next]
  BY <1>1, <1>4, <1>6, Zenon DEF LexAt
<1>7. ASSUME p <= Len(x), x[p] = Space PROVE Lexed(x)[p] = Lexed(x)[p + 1]
  BY <1>1, <1>4, <1>7, Zenon DEF LexAt
<1>8. QED
  BY <1>2, <1>3, <1>5, <1>6, <1>7 DEF TokenAt

LEMMA LexedType ==
  ASSUME NEW x \in Seq(Symbols)
  PROVE  /\ \A p \in 1 .. Len(x) + 1 : Lexed(x)[p] \in Seq(Token)
         /\ tokenize(x) \in Seq(Token)
<1> DEFINE n == Len(x)
           T == {q \in 1 .. n + 1 : Lexed(x)[q] \in Seq(Token)}
<1>0. n \in Nat
  OBVIOUS
<1>1. ASSUME NEW q \in 1 .. n + 1, \A r \in 1 .. n + 1 : r > q => r \in T
      PROVE  Lexed(x)[q] \in Seq(Token)
  <2> DEFINE r == next_token(x, q)
  <2>1. CASE q = n + 1
    <3>1. Lexed(x)[q] = <<>>
      BY <2>1, LexedStep
    <3>2. QED BY <3>1
  <2>2. CASE q <= n /\ x[q] = Space
    <3>1. Lexed(x)[q] = Lexed(x)[q + 1]
      BY <2>2, LexedStep
    <3>2. q + 1 \in T
      BY <1>0, <1>1, <2>2
    <3>3. QED BY <3>1, <3>2
  <2>3. CASE q <= n /\ x[q] # Space /\ r.tok[1] = "error"
    <3>1. Lexed(x)[q] = <<r.tok>> /\ r.tok \in Token
      BY <2>3, LexedStep
    <3> HIDE DEF r
    <3>2. QED BY <3>1
  <2>4. CASE q <= n /\ x[q] # Space /\ r.tok[1] # "error"
    <3>1. Lexed(x)[q] = <<r.tok>> \o Lexed(x)[r.next] /\ r.tok \in Token /\ r.next \in q + 1 .. n + 1
      BY <2>4, LexedStep
    <3> HIDE DEF r
    <3>2. r.next \in T
      BY <1>0, <1>1, <3>1
    <3>3. QED BY <3>1, <3>2
  <2>5. q = n + 1 \/ q <= n
    BY <1>0, <1>1
  <2>6. QED BY <2>1, <2>2, <2>3, <2>4, <2>5
<1>2. \A q \in 1 .. n + 1 : (\A r \in 1 .. n + 1 : r > q => r \in T) => q \in T
  BY <1>1
<1>3. \A q \in 1 .. n + 1 : q \in T
  <2> HIDE DEF T, n
  <2>1. QED BY <1>0, <1>2, Descend
<1>4. \A q \in 1 .. n + 1 : Lexed(x)[q] \in Seq(Token)
  BY <1>3
<1>5. tokenize(x) = Lexed(x)[1] /\ 1 \in 1 .. n + 1
  BY <1>0, LexedIs
<1>6. QED
  BY <1>4, <1>5

LEMMA UnreadableMore ==
  ASSUME NEW tok \in Token, NEW t \in Seq(Token)
  PROVE  /\ Unreadable(<<tok>> \o t) <=> IF t = <<>> THEN tok[1] = "error" ELSE Unreadable(t)
         /\ Unreadable(<<tok>>) <=> tok[1] = "error"
<1> DEFINE w == <<tok>> \o t
<1>1. /\ w \in Seq(Token) /\ Len(w) = Len(t) + 1 /\ Len(t) \in Nat
      /\ w[1] = tok /\ \A i \in 1 .. Len(t) : w[i + 1] = t[i]
  OBVIOUS
<1>2. w # <<>>
  BY <1>1
<1> HIDE DEF w
<1>3. t = <<>> => w[Len(w)] = tok
  BY <1>1
<1>4. t # <<>> => w[Len(w)] = t[Len(t)]
  BY <1>1
<1>5. Unreadable(w) <=> w[Len(w)][1] = "error"
  BY <1>2 DEF Unreadable, Last
<1>6. Unreadable(t) <=> t # <<>> /\ t[Len(t)][1] = "error"
  BY DEF Unreadable, Last
<1>7. Unreadable(w) <=> IF t = <<>> THEN tok[1] = "error" ELSE Unreadable(t)
  BY <1>3, <1>4, <1>5, <1>6
<1>8. Unreadable(<<tok>>) <=> tok[1] = "error"
  BY DEF Unreadable, Last
<1>9. QED
  BY <1>7, <1>8 DEF w

LEMMA LexedMoves ==
  ASSUME NEW x \in Seq(Symbols), NEW y \in Seq(Symbols), NEW d,
         Window(x, 1, y, d), d + Len(x) = Len(y)
  PROVE  \A p \in 1 .. Len(x) + 1 : Lexed(y)[d + p] = Lexed(x)[p]
<1> DEFINE n == Len(x)
           T == {q \in 1 .. n + 1 : Lexed(y)[d + q] = Lexed(x)[q]}
<1>0. /\ n \in Nat /\ Len(y) \in Nat /\ d \in Nat /\ d + n = Len(y)
      /\ \A i \in 1 .. n : y[d + i] = x[i]
  BY DEF Window
<1>w. \A q \in 1 .. n + 1 : Window(x, q, y, d)
  BY <1>0 DEF Window
<1>1. ASSUME NEW q \in 1 .. n + 1, \A r \in 1 .. n + 1 : r > q => r \in T
      PROVE  Lexed(y)[d + q] = Lexed(x)[q]
  <2> DEFINE r == next_token(x, q)
             v == d + q
  <2>0. v \in 1 .. Len(y) + 1 /\ v + 1 = d + (q + 1) /\ (q <= n => v <= Len(y))
    BY <1>0
  <2>1. CASE q = n + 1
    <3>1. v = Len(y) + 1
      <4>1. n \in Nat /\ Len(y) \in Nat /\ d \in Nat /\ d + n = Len(y)
        BY <1>0
      <4> HIDE DEF n
      <4>2. QED BY <2>1, <4>1
    <3> HIDE DEF v
    <3>2. Lexed(y)[v] = <<>>
      BY <2>0, <3>1, LexedStep
    <3>3. QED BY <2>1, <3>2, LexedStep DEF v
  <2>2. CASE q <= n
    <3>1. y[v] = x[q]
      BY <1>0, <2>2
    <3>2. next_token(y, v) = Read(r.tok, d + r.next)
      <4>1. q \in 1 .. n /\ Window(x, q, y, d) /\ Moves(x, y, d, r)
        BY <1>0, <1>w, <2>2 DEF Moves
      <4> HIDE DEF r
      <4>2. QED BY <4>1, NextMoves DEF r
    <3>3. next_token(y, v).tok = r.tok /\ next_token(y, v).next = d + r.next
      BY <3>2 DEF Read
    <3> HIDE DEF v
    <3>4. CASE x[q] = Space
      <4>1. Lexed(y)[v] = Lexed(y)[v + 1] /\ Lexed(x)[q] = Lexed(x)[q + 1]
        BY <2>0, <2>2, <3>1, <3>4, LexedStep
      <4>2. q + 1 \in T
        BY <1>0, <1>1, <2>2
      <4>3. QED BY <2>0, <4>1, <4>2 DEF v
    <3>5. CASE x[q] # Space /\ r.tok[1] = "error"
      <4>1. Lexed(y)[v] = <<next_token(y, v).tok>>
        BY <2>0, <2>2, <3>1, <3>3, <3>5, LexedStep
      <4>2. Lexed(x)[q] = <<r.tok>>
        BY <2>2, <3>5, LexedStep
      <4>3. QED BY <3>3, <4>1, <4>2 DEF v
    <3>6. CASE x[q] # Space /\ r.tok[1] # "error"
      <4>1. Lexed(y)[v] = <<next_token(y, v).tok>> \o Lexed(y)[next_token(y, v).next]
        BY <2>0, <2>2, <3>1, <3>3, <3>6, LexedStep
      <4>2. Lexed(x)[q] = <<r.tok>> \o Lexed(x)[r.next] /\ r.next \in q + 1 .. n + 1
        BY <2>2, <3>6, LexedStep
      <4> HIDE DEF r
      <4>3. r.next \in T
        BY <1>0, <1>1, <4>2
      <4>4. Lexed(y)[d + r.next] = Lexed(x)[r.next]
        BY <4>3
      <4>5. QED BY <3>3, <4>1, <4>2, <4>4, Zenon DEF v
    <3>7. QED BY <3>4, <3>5, <3>6
  <2>3. q = n + 1 \/ q <= n
    BY <1>0, <1>1
  <2>4. QED BY <2>1, <2>2, <2>3
<1>2. \A q \in 1 .. n + 1 : (\A r \in 1 .. n + 1 : r > q => r \in T) => q \in T
  BY <1>1
<1>3. \A q \in 1 .. n + 1 : q \in T
  <2> HIDE DEF T, n
  <2>1. QED BY <1>0, <1>2, Descend
<1>4. QED
  BY <1>3

LEMMA Associative ==
  \A u \in Seq(Token), v \in Seq(Token), w \in Seq(Token) : u \o (v \o w) = (u \o v) \o w
  OBVIOUS

LEMMA TokenizeAppend ==
  ASSUME NEW x \in Seq(Symbols), NEW z \in Seq(Symbols), ~Unreadable(tokenize(x)),
         z = <<>> \/ z[1] = Space
  PROVE  tokenize(x \o z) = tokenize(x) \o tokenize(z)
<1> DEFINE n == Len(x)
           y == x \o z
<1>0. /\ n \in Nat /\ Len(z) \in Nat /\ y \in Seq(Symbols) /\ Len(y) = n + Len(z)
      /\ \A i \in 1 .. n : y[i] = x[i]
      /\ \A i \in 1 .. Len(z) : y[n + i] = z[i]
      /\ z # <<>> => Len(z) > 0
  OBVIOUS
<1> HIDE DEF y
<1>1. \A p \in 1 .. n + 1 : Window(x, p, y, 0)
  <2>1. Len(y) = n \/ y[n + 1] = Space
    BY <1>0
  <2>2. QED BY <1>0, <2>1 DEF Window
<1>2. Lexed(y)[n + 1] = tokenize(z)
  <2>1. Window(z, 1, y, n)
    BY <1>0 DEF Window
  <2>2. \A p \in 1 .. Len(z) + 1 : Lexed(y)[n + p] = Lexed(z)[p]
    <3>1. n + Len(z) = Len(y)
      BY <1>0
    <3> HIDE DEF n
    <3>2. QED BY <1>0, <2>1, <3>1, LexedMoves, ZenonT(40)
  <2>3. tokenize(z) = Lexed(z)[1] /\ 1 \in 1 .. Len(z) + 1
    BY <1>0, LexedIs
  <2>4. QED BY <2>2, <2>3
<1>3. tokenize(z) \in Seq(Token)
  BY LexedType
<1> DEFINE Joined(q) == Lexed(y)[q] = Lexed(x)[q] \o tokenize(z)
           T == {q \in 1 .. n + 1 : ~Unreadable(Lexed(x)[q]) => Joined(q)}
<1>4. ASSUME NEW q \in 1 .. n + 1, \A r \in 1 .. n + 1 : r > q => r \in T,
             ~Unreadable(Lexed(x)[q])
      PROVE  Joined(q)
  <2> DEFINE r == next_token(x, q)
  <2>0. q \in 1 .. Len(y) + 1 /\ (q <= n => q <= Len(y) /\ y[q] = x[q])
    BY <1>0
  <2>1. CASE q = n + 1
    <3>1. Lexed(x)[q] = <<>>
      BY <2>1, LexedStep
    <3>2. <<>> \o tokenize(z) = tokenize(z)
      BY <1>3, ConcatEmptySeq
    <3>3. QED BY <1>2, <2>1, <3>1, <3>2
  <2>2. CASE q <= n /\ x[q] = Space
    <3>1. Lexed(y)[q] = Lexed(y)[q + 1] /\ Lexed(x)[q] = Lexed(x)[q + 1]
      <4>1. Lexed(x)[q] = Lexed(x)[q + 1]
        BY <2>2, LexedStep
      <4>2. q \in 1 .. Len(y) + 1 /\ q <= Len(y) /\ y[q] = Space
        BY <2>0, <2>2
      <4>3. Lexed(y)[q] = Lexed(y)[q + 1]
        BY <1>0, <4>2, LexedStep
      <4>4. QED BY <4>1, <4>3
    <3>2. q + 1 \in T
      <4>1. q + 1 \in 1 .. n + 1 /\ q + 1 > q
        BY <1>0, <2>2
      <4> HIDE DEF T
      <4>2. QED BY <1>4, <4>1
    <3>3. QED BY <1>4, <3>1, <3>2
  <2>3. CASE q <= n /\ x[q] # Space
    <3>1. r.tok \in Token
      BY <2>3, LexedStep
    <3>2. r.tok[1] # "error"
      <4>1. ASSUME r.tok[1] = "error" PROVE FALSE
        <5>1. Lexed(x)[q] = <<r.tok>>
          BY <2>3, <4>1, LexedStep
        <5> HIDE DEF r
        <5>2. <<>> \in Seq(Token)
          OBVIOUS
        <5>3. QED BY <1>4, <3>1, <4>1, <5>1, <5>2, UnreadableMore
      <4>2. QED BY <4>1
    <3>3. next_token(y, q) = Read(r.tok, 0 + r.next)
      <4>1. q \in 1 .. n /\ Window(x, q, y, 0) /\ Moves(x, y, 0, r) /\ q = 0 + q
        BY <1>0, <1>1, <2>3, <3>2 DEF Moves
      <4> HIDE DEF r
      <4>2. next_token(y, 0 + q) = Read(r.tok, 0 + r.next)
        BY <1>0, <4>1, NextMoves DEF r
      <4>3. QED BY <4>1, <4>2
    <3>4. Lexed(x)[q] = <<r.tok>> \o Lexed(x)[r.next] /\ r.next \in q + 1 .. n + 1
      BY <2>3, <3>2, LexedStep
    <3>5. next_token(y, q).tok = r.tok /\ next_token(y, q).next = r.next
      <4> HIDE DEF r
      <4>1. QED BY <1>0, <3>3, <3>4 DEF Read
    <3>6. Lexed(y)[q] = <<r.tok>> \o Lexed(y)[r.next]
      <4>1. Lexed(y)[q] = <<next_token(y, q).tok>> \o Lexed(y)[next_token(y, q).next]
        <5>1. /\ q \in 1 .. Len(y) + 1 /\ q <= Len(y) /\ y[q] # Space
              /\ next_token(y, q).tok[1] # "error"
          BY <2>0, <2>3, <3>2, <3>5
        <5>2. QED BY <1>0, <5>1, LexedStep
      <4>2. QED BY <3>5, <4>1
    <3> HIDE DEF r
    <3>7. r.next \in T /\ Lexed(x)[r.next] \in Seq(Token)
      <4>1. r.next \in 1 .. n + 1 /\ r.next > q
        BY <1>0, <3>4
      <4>2. r.next \in T
        <5> HIDE DEF T
        <5>1. QED BY <1>4, <4>1
      <4>3. QED BY <4>1, <4>2, LexedType
    <3>8. ~Unreadable(Lexed(x)[r.next])
      BY <1>4, <3>1, <3>4, <3>7, UnreadableMore DEF Unreadable
    <3>9. Lexed(y)[r.next] = Lexed(x)[r.next] \o tokenize(z)
      BY <3>7, <3>8
    <3>10. <<r.tok>> \o (Lexed(x)[r.next] \o tokenize(z)) = (<<r.tok>> \o Lexed(x)[r.next]) \o tokenize(z)
      <4>1. <<r.tok>> \in Seq(Token)
        BY <3>1
      <4>2. QED BY <1>3, <3>7, <4>1, Associative, Zenon
    <3>11. QED BY <3>4, <3>6, <3>9, <3>10
  <2>4. q = n + 1 \/ q <= n
    BY <1>0, <1>4
  <2>5. QED BY <2>1, <2>2, <2>3, <2>4
<1>5. \A q \in 1 .. n + 1 : (\A r \in 1 .. n + 1 : r > q => r \in T) => q \in T
  BY <1>4
<1>6. 1 \in T
  <2>1. 1 \in 1 .. n + 1
    BY <1>0
  <2> HIDE DEF T, n
  <2>2. QED BY <1>0, <1>5, <2>1, Descend
<1>7. tokenize(x) = Lexed(x)[1] /\ tokenize(y) = Lexed(y)[1]
  BY <1>0, LexedIs
<1>8. QED
  BY <1>6, <1>7 DEF y

----------------------------------------------------------------------------
(* What the key says of one token.                                         *)

FoldedSymbol(c) == IF c \in Words THEN Upper[c] ELSE c

LEMMA FoldedIs ==
  ASSUME NEW s \in Seq(Symbols)
  PROVE  /\ Folded(s) \in Seq(Symbols) /\ Len(Folded(s)) = Len(s)
         /\ \A i \in 1 .. Len(s) : Folded(s)[i] = FoldedSymbol(s[i])
         /\ Folded(Folded(s)) = Folded(s)
<1>1. Len(s) \in Nat /\ DOMAIN s = 1 .. Len(s) /\ \A i \in 1 .. Len(s) : s[i] \in Symbols
  OBVIOUS
<1>2. \A c \in Symbols : FoldedSymbol(c) \in Symbols /\ FoldedSymbol(FoldedSymbol(c)) = FoldedSymbol(c)
  BY LexerAssumption, BridgeAssumption DEF FoldedSymbol
<1>3. \A v : Folded(v) = [i \in DOMAIN v |-> FoldedSymbol(v[i])]
  BY Zenon DEF Folded, FoldedSymbol
<1>4. Folded(s) \in [1 .. Len(s) -> Symbols] /\ \A i \in 1 .. Len(s) : Folded(s)[i] = FoldedSymbol(s[i])
  BY <1>1, <1>2, <1>3
<1>5. DOMAIN Folded(s) = 1 .. Len(s)
  BY <1>4
<1>6. Folded(Folded(s)) = Folded(s)
  <2>1. Folded(Folded(s)) = [i \in 1 .. Len(s) |-> FoldedSymbol(Folded(s)[i])]
    BY <1>3, <1>5, Zenon
  <2>2. Folded(s) = [i \in 1 .. Len(s) |-> FoldedSymbol(s[i])]
    BY <1>1, <1>3, Zenon
  <2>3. \A i \in 1 .. Len(s) : FoldedSymbol(Folded(s)[i]) = FoldedSymbol(s[i])
    BY <1>1, <1>2, <1>4
  <2>4. QED BY <2>1, <2>2, <2>3, Zenon
<1>7. Folded(s) \in Seq(Symbols) /\ Len(Folded(s)) = Len(s)
  <2>1. \A f : f \in [1 .. Len(s) -> Symbols] => f \in Seq(Symbols) /\ Len(f) = Len(s)
    BY <1>1, IsASeq, LenProperties
  <2>2. QED BY <1>4, <2>1
<1>8. QED
  BY <1>4, <1>6, <1>7

(* The text of a token with a space before it.                             *)
Alone(x, p) == <<Space>> \o TokenText(x, p)

LEMMA AloneIs ==
  ASSUME NEW x \in Seq(Symbols), NEW p \in 1 .. Len(x)
  PROVE  /\ Alone(x, p) \in Seq(Symbols)
         /\ Len(Alone(x, p)) = TokenEnd(x, p) - p + 1
         /\ Alone(x, p)[1] = Space
         /\ \A i \in 2 .. TokenEnd(x, p) - p + 1 :
               Alone(x, p)[i] = IF x[p] = Quote THEN x[p + i - 2] ELSE FoldedSymbol(x[p + i - 2])
         /\ TokenEnd(x, p) \in p + 1 .. Len(x) + 1
<1> DEFINE e == TokenEnd(x, p)
           w == SubSeq(x, p, e - 1)
           u == TokenText(x, p)
<1>1. Len(x) \in Nat /\ p \in 1 .. Len(x) /\ e \in p + 1 .. Len(x) + 1
  BY TokenEndIs
<1>2. u = IF x[p] = Quote THEN w ELSE Folded(w)
  BY Zenon DEF TokenText
<1> HIDE DEF e, u
<1>3. w \in Seq(Symbols) /\ Len(w) = e - p /\ \A i \in 1 .. e - p : w[i] = x[p + i - 1]
  BY <1>1
<1> HIDE DEF w
<1>4. /\ u \in Seq(Symbols) /\ Len(u) = e - p
      /\ \A i \in 1 .. e - p : u[i] = IF x[p] = Quote THEN x[p + i - 1] ELSE FoldedSymbol(x[p + i - 1])
  BY <1>2, <1>3, FoldedIs
<1> DEFINE y == <<Space>> \o u
<1>5. Space \in Symbols
  BY BridgeAssumption
<1>6. /\ y \in Seq(Symbols) /\ Len(y) = 1 + (e - p) /\ y[1] = Space
      /\ \A i \in 1 .. e - p : y[i + 1] = u[i]
  BY <1>1, <1>4, <1>5
<1> HIDE DEF y
<1>7. ASSUME NEW i \in 2 .. e - p + 1
      PROVE  y[i] = IF x[p] = Quote THEN x[p + i - 2] ELSE FoldedSymbol(x[p + i - 2])
  <2> DEFINE j == i - 1
  <2>1. j \in 1 .. e - p /\ j + 1 = i /\ p + j - 1 = p + i - 2
    BY <1>1, <1>7
  <2> HIDE DEF j
  <2>2. y[i] = u[j]
    BY <1>6, <2>1
  <2>3. QED BY <1>4, <2>1, <2>2
<1>8. y = Alone(x, p)
  BY Zenon DEF y, u, Alone
<1>9. Len(y) = e - p + 1
  BY <1>1, <1>6
<1>10. QED
  BY <1>1, <1>6, <1>7, <1>8, <1>9 DEF e

(* The key keeps the token at p, up to case: it ends where the lexer's     *)
(* ends, and its text alone is that one token.                             *)
KeepsToken(x, p) ==
    LET y == Alone(x, p)
        r == next_token(y, 2)
    IN  /\ TokenEnd(x, p) = next_token(x, p).next
        /\ y[2] # Space
        /\ r.next = Len(y) + 1
        /\ r.tok[1] # "error"
        /\ Fold(r.tok) = Fold(next_token(x, p).tok)

LEMMA PlainString ==
  ASSUME NEW y \in Seq(Symbols), NEW p \in 1 .. Len(y), p < Len(y), y[Len(y)] = Quote,
         \A i \in p + 1 .. Len(y) - 1 : y[i] # Quote
  PROVE  read_string(y, p) = Read(TextLiteral(SubSeq(y, p + 1, Len(y) - 1)), Len(y) + 1)
<1> DEFINE n == Len(y)
<1>0. n \in Nat /\ p \in 1 .. n
  OBVIOUS
<1>1. PICK f : /\ \A q \in p .. n + 1 : f[q] = RestAt(f, y, q)
               /\ read_string(y, p) = f[p + 1]
  BY RestIs
<1> DEFINE Good(q) == f[q] = Read(TextLiteral(SubSeq(y, q, n - 1)), n + 1)
           T == {q \in 1 .. n + 1 : q \in p + 1 .. n => Good(q)}
<1>2. ASSUME NEW q \in 1 .. n + 1, \A r \in 1 .. n + 1 : r > q => r \in T, q \in p + 1 .. n
      PROVE  Good(q)
  <2>1. f[q] = RestAt(f, y, q)
    <3>1. q \in p .. n + 1
      BY <1>0, <1>2
    <3>2. QED BY <1>1, <3>1
  <2>2. CASE q = n
    <3>1. ~Is(y, q + 1, {Quote}) /\ ~(q > n) /\ y[q] = Quote
      BY <1>0, <2>2 DEF Is
    <3>2. f[q] = Read(TextLiteral(<<>>), q + 1)
      BY <2>1, <3>1, Zenon DEF RestAt
    <3>3. SubSeq(y, q, n - 1) = <<>>
      BY <1>0, <2>2
    <3>4. QED BY <2>2, <3>2, <3>3
  <2>3. CASE q < n
    <3>1. y[q] # Quote /\ ~(q > n) /\ q + 1 \in T /\ q + 1 \in p + 1 .. n
      BY <1>0, <1>2, <2>3
    <3>2. Good(q + 1)
      BY <3>1
    <3>3. f[q + 1].tok = TextLiteral(SubSeq(y, q + 1, n - 1)) /\ f[q + 1].next = n + 1
      BY <3>2 DEF Read
    <3>4. f[q + 1].tok[1] # "error" /\ f[q + 1].tok[2] = SubSeq(y, q + 1, n - 1)
      BY <3>3 DEF TextLiteral
    <3>5. f[q] = Read(TextLiteral(<<y[q]>> \o f[q + 1].tok[2]), f[q + 1].next)
      BY <2>1, <3>1, <3>4, Zenon DEF RestAt
    <3>6. <<y[q]>> \o SubSeq(y, q + 1, n - 1) = SubSeq(y, q, n - 1)
      BY <1>0, <1>2, <2>3
    <3>7. QED BY <3>3, <3>4, <3>5, <3>6
  <2>4. QED BY <1>0, <1>2, <2>2, <2>3
<1>3. \A q \in 1 .. n + 1 : (\A r \in 1 .. n + 1 : r > q => r \in T) => q \in T
  BY <1>2
<1>4. p + 1 \in T /\ p + 1 \in p + 1 .. n
  <2>1. p + 1 \in 1 .. n + 1 /\ p + 1 \in p + 1 .. n
    BY <1>0
  <2> HIDE DEF T, n
  <2>2. QED BY <1>0, <1>3, <2>1, Descend
<1>5. QED
  BY <1>1, <1>4

LEMMA KeepsString ==
  ASSUME NEW x \in Seq(Symbols), NEW p \in 1 .. Len(x), x[p] = Quote, NEW s \in Seq(Symbols),
         next_token(x, p).tok = TextLiteral(s), \A i \in DOMAIN s : s[i] # Quote
  PROVE  KeepsToken(x, p)
<1> DEFINE r == next_token(x, p)
           e == r.next
           y == Alone(x, p)
           m == Len(y)
<1>0. Len(x) \in Nat /\ p \in 1 .. Len(x) /\ r = read_string(x, p) /\ r.tok = TextLiteral(s)
  BY NextTokenIs
<1>1. /\ e \in p + 2 .. Len(x) + 1 /\ s = SubSeq(x, p + 1, e - 2) /\ x[e - 1] = Quote
      /\ \A i \in p + 1 .. e - 2 : x[i] # Quote
  <2>1. Literal(x, p + 1, r)
    BY <1>0, LiteralIs
  <2>2. TextLiteral(s) # LexerError("UnterminatedString")
    BY DEF TextLiteral, LexerError
  <2>3. PICK v \in Seq(Symbols) : r.tok = TextLiteral(v) /\ Spans(x, p + 1, v, e)
    BY <1>0, <2>1, <2>2 DEF Literal
  <2>4. v = s
    BY <1>0, <2>3 DEF TextLiteral
  <2> HIDE DEF e, r
  <2>5. QED BY <1>0, <2>3, <2>4, SMTT(30) DEF Spans
<1> HIDE DEF e, r
<1>2. TokenEnd(x, p) = e
  <2> DEFINE S == Range(x) \ {Quote}
  <2>1. ~Is(x, e - 1, S) /\ \A i \in p + 1 .. (e - 1) - 1 : x[i] \in S
    BY <1>0, <1>1 DEF Is, Range
  <2>2. p + 1 \in 1 .. Len(x) + 1 /\ e - 1 \in p + 1 .. Len(x) + 1 /\ e - 1 \in p + 1 .. Len(x)
    BY <1>0, <1>1
  <2> HIDE DEF S
  <2>3. RunEnd(x, p + 1, S) = e - 1
    BY <2>1, <2>2, RunEndOnly
  <2>4. TokenEnd(x, p) = RunEnd(x, p + 1, S) + 1
    <3>1. \E q \in p + 1 .. Len(x) : x[q] = Quote
      BY <1>1, <2>2
    <3>2. QED BY <3>1, SymbolsApart DEF TokenEnd, Quote, S
  <2>5. QED BY <1>1, <2>3, <2>4
<1>3. /\ y \in Seq(Symbols) /\ m = e - p + 1
      /\ \A i \in 2 .. e - p + 1 : y[i] = x[p + i - 2]
  BY <1>2, AloneIs
<1> HIDE DEF y
<1>4. m \in Nat /\ 2 \in 1 .. m /\ 2 < m /\ y[2] = Quote /\ y[m] = Quote
  <2>1. m \in Nat /\ 2 \in 1 .. m /\ 2 < m /\ 2 \in 2 .. e - p + 1 /\ m \in 2 .. e - p + 1
        /\ p + 2 - 2 = p /\ p + m - 2 = e - 1
    BY <1>0, <1>1, <1>3
  <2> HIDE DEF m
  <2>2. QED BY <1>1, <1>3, <2>1
<1>5. \A i \in 2 + 1 .. m - 1 : y[i] # Quote
  <2>1. ASSUME NEW i \in 2 + 1 .. m - 1 PROVE y[i] # Quote
    <3>1. i \in 2 .. e - p + 1 /\ p + i - 2 \in p + 1 .. e - 2
      BY <1>0, <1>1, <1>3, <2>1
    <3>2. QED BY <1>1, <1>3, <3>1
  <2>2. QED BY <2>1
<1>6. read_string(y, 2) = Read(TextLiteral(SubSeq(y, 2 + 1, m - 1)), m + 1)
  BY <1>3, <1>4, <1>5, PlainString
<1>7. SubSeq(y, 2 + 1, m - 1) = s
  <2> DEFINE a == SubSeq(y, 2 + 1, m - 1)
             b == SubSeq(x, p + 1, e - 2)
  <2>1. a \in Seq(Symbols) /\ Len(a) = m - 3 /\ \A i \in 1 .. m - 3 : a[i] = y[i + 2]
    BY <1>3, <1>4
  <2>2. b \in Seq(Symbols) /\ Len(b) = m - 3 /\ \A i \in 1 .. m - 3 : b[i] = x[p + i]
    <3>1. e - 2 \in p .. Len(x) /\ m - 3 = (e - 2) - p
      BY <1>0, <1>1, <1>3
    <3> HIDE DEF m
    <3>2. QED BY <1>0, <3>1
  <2>3. ASSUME NEW i \in 1 .. m - 3 PROVE a[i] = b[i]
    <3> DEFINE j == i + 2
    <3>1. j \in 2 .. e - p + 1 /\ p + j - 2 = p + i
      BY <1>0, <1>1, <1>3, <2>3
    <3>2. a[i] = y[j] /\ b[i] = x[p + i]
      BY <2>1, <2>2, <2>3
    <3> HIDE DEF j, a, b, m
    <3>3. y[j] = x[p + j - 2]
      BY <1>3, <3>1
    <3>4. QED BY <3>1, <3>2, <3>3
  <2> HIDE DEF a, b
  <2>4. a = b
    BY <2>1, <2>2, <2>3, SeqEqual
  <2>5. QED BY <1>1, <2>4 DEF a, b
<1>8. next_token(y, 2) = Read(TextLiteral(s), m + 1)
  BY <1>4, <1>6, <1>7, NextTokenIs
<1>9. next_token(y, 2).tok = TextLiteral(s) /\ next_token(y, 2).next = m + 1
  BY <1>8 DEF Read
<1>10. y[2] # Space /\ TextLiteral(s)[1] # "error"
  BY <1>4 DEF Space, Quote, TextLiteral
<1>11. QED
  BY <1>0, <1>2, <1>9, <1>10 DEF KeepsToken, y, r, e

(* Letters and digits in another case.                                     *)
LEMMA FoldedKinds ==
  ASSUME NEW c
  PROVE  /\ c \in Digits => FoldedSymbol(c) = c
         /\ c \in Letters => FoldedSymbol(c) \in Letters
         /\ c \in Marks => FoldedSymbol(c) = c
  BY SymbolsApart, LexerAssumption DEF FoldedSymbol, Letters

LEMMA KeepsNumber ==
  ASSUME NEW x \in Seq(Symbols), NEW p \in 1 .. Len(x), NumberAt(x, p),
         next_token(x, p).tok[1] # "error"
  PROVE  KeepsToken(x, p)
<1> DEFINE e == next_token(x, p).next
           y == Alone(x, p)
           m == Len(y)
           start == IF x[p] = "-" THEN p + 1 ELSE p
           digits == SubSeq(x, start, e - 1)
           own == IF x[p] = "-" THEN 3 ELSE 2
<1>0. Len(x) \in Nat /\ p \in 1 .. Len(x) /\ next_token(x, p) = read_number(x, p)
  BY NextTokenIs
<1>1. start \in p .. Len(x) /\ start \in 1 .. Len(x) + 1 /\ Is(x, start, Digits)
      /\ start <= p + 1
  <2>1. CASE x[p] = "-"
    <3>1. Is(x, p + 1, Digits) /\ start = p + 1
      BY <2>1, SymbolsApart DEF NumberAt
    <3> HIDE DEF start
    <3>2. QED BY <1>0, <3>1 DEF Is
  <2>2. CASE x[p] # "-"
    BY <1>0, <2>2 DEF NumberAt, Is
  <2>3. QED BY <2>1, <2>2
<1>2. e = RunEnd(x, start, Digits) /\ next_token(x, p).tok = NumberToken(x[p] = "-", digits)
  <2> DEFINE end == RunEnd(x, start, Digits)
  <2>1. CASE x[p] = "-"
    <3>1. start = p + 1
      BY <2>1
    <3>2. read_number(x, p) = Read(NumberToken(TRUE, SubSeq(x, start, end - 1)), end)
      BY <2>1, <3>1, NumberIs, Zenon
    <3> HIDE DEF start, end
    <3>3. read_number(x, p).next = end /\ read_number(x, p).tok = NumberToken(TRUE, SubSeq(x, start, end - 1))
      BY <3>2 DEF Read
    <3>4. QED BY <1>0, <2>1, <3>3, Zenon DEF end
  <2>2. CASE x[p] # "-"
    <3>1. start = p
      BY <2>2
    <3>2. read_number(x, p) = Read(NumberToken(FALSE, SubSeq(x, start, end - 1)), end)
      BY <2>2, <3>1, NumberIs, Zenon
    <3> HIDE DEF start, end
    <3>3. read_number(x, p).next = end /\ read_number(x, p).tok = NumberToken(FALSE, SubSeq(x, start, end - 1))
      BY <3>2 DEF Read
    <3>4. QED BY <1>0, <2>2, <3>3, Zenon DEF end
  <2>3. QED BY <2>1, <2>2
<1> HIDE DEF e
<1>3. /\ e \in start + 1 .. Len(x) + 1 /\ ~Is(x, e, Digits)
      /\ \A i \in start .. e - 1 : x[i] \in Digits
  <2> HIDE DEF start
  <2>1. /\ e \in start .. Len(x) + 1 /\ ~Is(x, e, Digits)
        /\ \A i \in start .. e - 1 : x[i] \in Digits
    BY <1>1, <1>2, RunEndIs
  <2>2. e # start
    BY <1>1, <2>1
  <2>3. QED BY <1>0, <1>1, <2>1, <2>2
<1>4. TokenEnd(x, p) = e
  <2>1. TokenEnd(x, p) = RunEnd(x, p + 1, Digits)
    BY SymbolsApart DEF TokenEnd, NumberAt, Quote
  <2>2. p + 1 \in 1 .. Len(x) + 1 /\ e \in p + 1 .. Len(x) + 1
    BY <1>0, <1>1, <1>3
  <2>3. \A i \in p + 1 .. e - 1 : x[i] \in Digits
    BY <1>0, <1>1, <1>3
  <2>4. QED BY <1>3, <2>1, <2>2, <2>3, RunEndOnly
<1>5. /\ y \in Seq(Symbols) /\ m = e - p + 1
      /\ \A i \in 2 .. m : y[i] = x[p + i - 2]
  <2>1. x[p] # Quote
    BY SymbolsApart DEF NumberAt, Quote
  <2>2. /\ y \in Seq(Symbols) /\ m = e - p + 1
        /\ \A i \in 2 .. e - p + 1 : y[i] = FoldedSymbol(x[p + i - 2])
    BY <1>4, <2>1, AloneIs
  <2> HIDE DEF y, m
  <2>3. ASSUME NEW i \in 2 .. m PROVE y[i] = x[p + i - 2]
    <3>1. p + i - 2 \in start .. e - 1 \/ (p + i - 2 = p /\ x[p] = "-")
      BY <1>0, <1>1, <1>3, <2>2, <2>3
    <3>2. FoldedSymbol("-") = "-"
      BY FoldedKinds DEF Marks
    <3>3. \A c \in Digits : FoldedSymbol(c) = c
      BY FoldedKinds
    <3> HIDE DEF start
    <3>4. QED BY <1>3, <2>2, <2>3, <3>1, <3>2, <3>3
  <2>4. QED BY <2>2, <2>3
<1> HIDE DEF y
<1>6. m \in Nat /\ 2 \in 2 .. m /\ y[2] = x[p] /\ own \in 2 .. m /\ p + own - 2 = start
  <2>1. m \in Nat /\ 2 \in 2 .. m /\ own \in 2 .. m /\ p + own - 2 = start /\ p + 2 - 2 = p
    BY <1>0, <1>1, <1>3, <1>5
  <2> HIDE DEF m
  <2>2. QED BY <1>5, <2>1
<1>7. RunEnd(y, own, Digits) = m + 1
  <2>1. ~Is(y, m + 1, Digits)
    BY <1>5 DEF Is
  <2>2. ASSUME NEW i \in own .. (m + 1) - 1 PROVE y[i] \in Digits
    <3>1. i \in 2 .. m /\ p + i - 2 \in start .. e - 1
      <4> HIDE DEF own, start
      <4>1. QED BY <1>0, <1>1, <1>3, <1>5, <1>6, <2>2
    <3> HIDE DEF own, start, m
    <3>2. QED BY <1>3, <1>5, <3>1
  <2>3. own \in 1 .. m + 1 /\ m + 1 \in own .. m + 1
    BY <1>6
  <2> HIDE DEF own
  <2>4. QED BY <1>5, <2>1, <2>2, <2>3, RunEndOnly
<1>8. SubSeq(y, own, (m + 1) - 1) = digits
  <2> DEFINE a == SubSeq(y, own, m)
             k == m - own + 1
  <2>1. k \in Nat /\ k = (e - 1) - start + 1
    BY <1>0, <1>1, <1>3, <1>5, <1>6
  <2>2. a \in Seq(Symbols) /\ Len(a) = k /\ \A i \in 1 .. k : a[i] = y[own + i - 1]
    <3> HIDE DEF own
    <3>1. y \in Seq(Symbols) /\ own \in 2 .. Len(y) /\ k = Len(y) - own + 1 /\ Len(y) \in Nat
      BY <1>5, <1>6
    <3> HIDE DEF k
    <3>2. QED BY <3>1
  <2>3. digits \in Seq(Symbols) /\ Len(digits) = k /\ \A i \in 1 .. k : digits[i] = x[start + i - 1]
    <3> HIDE DEF start, k
    <3>1. QED BY <1>0, <1>1, <1>3, <2>1
  <2> HIDE DEF a, digits
  <2>4. ASSUME NEW i \in 1 .. k PROVE a[i] = digits[i]
    <3> DEFINE j == own + i - 1
    <3>1. j \in 2 .. m /\ p + j - 2 = start + i - 1
      <4> HIDE DEF own, start
      <4>1. p \in Nat
        BY <1>0
      <4> HIDE DEF m
      <4>2. QED BY <1>6, <2>4, <4>1
    <3>2. a[i] = y[j] /\ digits[i] = x[start + i - 1]
      BY <2>2, <2>3, <2>4
    <3> HIDE DEF j, own, start, m
    <3>3. QED BY <1>5, <3>1, <3>2
  <2>5. a = digits
    BY <2>2, <2>3, <2>4, SeqEqual
  <2>6. (m + 1) - 1 = m
    BY <1>6
  <2>7. QED BY <2>5, <2>6 DEF a
<1> HIDE DEF digits
<1>9. read_number(y, 2) = Read(NumberToken(x[p] = "-", digits), m + 1)
  <2>1. CASE x[p] = "-"
    <3>1. RunEnd(y, 2 + 1, Digits) = m + 1 /\ SubSeq(y, 2 + 1, (m + 1) - 1) = digits /\ y[2] = "-"
      BY <1>6, <1>7, <1>8, <2>1
    <3>2. read_number(y, 2) = Read(NumberToken(TRUE, digits), m + 1)
      BY <3>1, NumberIs, Zenon
    <3>3. QED BY <2>1, <3>2, Zenon
  <2>2. CASE x[p] # "-"
    <3>1. RunEnd(y, 2, Digits) = m + 1 /\ SubSeq(y, 2, (m + 1) - 1) = digits /\ y[2] # "-"
      BY <1>6, <1>7, <1>8, <2>2
    <3>2. read_number(y, 2) = Read(NumberToken(FALSE, digits), m + 1)
      BY <3>1, NumberIs, Zenon
    <3>3. QED BY <2>2, <3>2, Zenon
  <2>3. QED BY <2>1, <2>2
<1>10. NumberAt(y, 2)
  <2>1. CASE x[p] = "-"
    <3>1. own = 3 /\ p + 3 - 2 = p + 1 /\ start = p + 1
      BY <1>0, <2>1
    <3>2. 3 \in 2 .. m /\ y[3] = x[p + 3 - 2]
      BY <1>5, <1>6, <3>1
    <3>3. y[3] \in Digits
      BY <1>1, <3>1, <3>2 DEF Is
    <3>4. 2 + 1 = 3 /\ 3 <= m
      BY <3>2, <1>6
    <3>5. QED BY <1>6, <2>1, <3>3, <3>4 DEF NumberAt, Is
  <2>2. CASE x[p] # "-"
    BY <1>6, <2>2 DEF NumberAt
  <2>3. QED BY <2>1, <2>2
<1>11. next_token(y, 2) = read_number(y, 2)
  BY <1>10, NextTokenIs
<1>12. next_token(y, 2).tok = next_token(x, p).tok /\ next_token(y, 2).next = m + 1
  <2> DEFINE tok == NumberToken(x[p] = "-", digits)
  <2> HIDE DEF tok, m
  <2>1. next_token(y, 2) = Read(tok, m + 1)
    BY <1>9, <1>11, Zenon DEF tok
  <2>2. next_token(y, 2).tok = tok /\ next_token(y, 2).next = m + 1
    BY <2>1 DEF Read
  <2>3. QED BY <1>2, <2>2, Zenon DEF tok
<1>13. y[2] # Space
  BY <1>10, SymbolsApart DEF NumberAt, Space
<1>14. QED
  BY <1>4, <1>12, <1>13 DEF KeepsToken, y, e

LEMMA WordFolds ==
  ASSUME NEW w \in Seq(Symbols)
  PROVE  Fold(WordToken(Folded(w))) = Fold(WordToken(w)) /\ WordToken(Folded(w))[1] # "error"
<1> DEFINE IsKeyword(v) == Len(v) = 1 /\ v[1] \in Words /\ Upper[v[1]] \in Keywords
<1>1. /\ Folded(w) \in Seq(Symbols) /\ Len(Folded(w)) = Len(w) /\ Folded(Folded(w)) = Folded(w)
      /\ \A i \in 1 .. Len(w) : Folded(w)[i] = FoldedSymbol(w[i])
  BY FoldedIs
<1>2. Len(w) = 1 => /\ Folded(w)[1] \in Words <=> w[1] \in Words
                    /\ w[1] \in Words => Upper[Folded(w)[1]] = Upper[w[1]]
  BY <1>1, LexerAssumption DEF FoldedSymbol
<1>3. IsKeyword(Folded(w)) <=> IsKeyword(w)
  BY <1>1, <1>2
<1>4. \A v : WordToken(v) = IF IsKeyword(v) THEN Keyword(Upper[v[1]]) ELSE Ident(v)
  BY Zenon DEF WordToken
<1>5. CASE IsKeyword(w)
  <2>1. WordToken(Folded(w)) = Keyword(Upper[w[1]]) /\ WordToken(w) = Keyword(Upper[w[1]])
    BY <1>2, <1>3, <1>4, <1>5
  <2>2. Keyword(Upper[w[1]])[1] # "error"
    BY DEF Keyword
  <2>3. QED BY <2>1, <2>2
<1>6. CASE ~IsKeyword(w)
  <2>1. WordToken(Folded(w)) = Ident(Folded(w)) /\ WordToken(w) = Ident(w)
    BY <1>3, <1>4, <1>6
  <2>2. \A v : Fold(Ident(v)) = Ident(Folded(v)) /\ Ident(v)[1] # "error"
    BY DEF Fold, Ident
  <2>3. QED BY <1>1, <2>1, <2>2
<1>7. QED
  BY <1>5, <1>6

LEMMA KeepsWord ==
  ASSUME NEW x \in Seq(Symbols), NEW p \in 1 .. Len(x), x[p] \in Letters
  PROVE  KeepsToken(x, p)
<1> DEFINE S == Letters \cup Digits
           e == next_token(x, p).next
           word == SubSeq(x, p, e - 1)
           y == Alone(x, p)
           m == Len(y)
<1>0. Len(x) \in Nat /\ p \in 1 .. Len(x) /\ next_token(x, p) = read_ident_or_keyword(x, p)
  BY NextTokenIs
<1>1. e = RunEnd(x, p, S) /\ next_token(x, p).tok = WordToken(word)
  <2> DEFINE end == RunEnd(x, p, S)
  <2>1. next_token(x, p) = Read(WordToken(SubSeq(x, p, end - 1)), end)
    BY <1>0, WordIs, Zenon
  <2> HIDE DEF end
  <2>2. next_token(x, p).next = end /\ next_token(x, p).tok = WordToken(SubSeq(x, p, end - 1))
    BY <2>1 DEF Read
  <2>3. QED BY <2>2, Zenon DEF end
<1> HIDE DEF e
<1>2. /\ e \in p + 1 .. Len(x) + 1 /\ ~Is(x, e, S)
      /\ \A i \in p .. e - 1 : x[i] \in S
  <2> HIDE DEF S
  <2>1. /\ e \in p .. Len(x) + 1 /\ ~Is(x, e, S)
        /\ \A i \in p .. e - 1 : x[i] \in S
    BY <1>0, <1>1, RunEndIs
  <2>2. Is(x, p, S)
    BY <1>0 DEF Is, S
  <2>3. QED BY <1>0, <2>1, <2>2
<1>3. TokenEnd(x, p) = e
  BY <1>1, SymbolsApart DEF TokenEnd, Quote
<1>4. /\ y \in Seq(Symbols) /\ m = e - p + 1
      /\ \A i \in 2 .. m : y[i] = FoldedSymbol(x[p + i - 2])
  <2>1. x[p] # Quote
    BY SymbolsApart DEF Quote
  <2>2. QED BY <1>3, <2>1, AloneIs
<1> HIDE DEF y
<1>5. m \in Nat /\ 2 \in 1 .. m /\ 2 \in 2 .. m
  BY <1>0, <1>2, <1>4
<1>6. y[2] \in Letters
  <2>1. p + 2 - 2 = p
    BY <1>0
  <2> HIDE DEF m
  <2>2. QED BY <1>4, <1>5, <2>1, FoldedKinds
<1>7. \A c \in S : FoldedSymbol(c) \in S
  BY FoldedKinds
<1> HIDE DEF S
<1>8. RunEnd(y, 2, S) = m + 1
  <2>1. ~Is(y, m + 1, S)
    BY <1>5 DEF Is
  <2>2. ASSUME NEW i \in 2 .. (m + 1) - 1 PROVE y[i] \in S
    <3>1. i \in 2 .. m /\ p + i - 2 \in p .. e - 1
      BY <1>0, <1>2, <1>4, <1>5, <2>2
    <3> HIDE DEF m
    <3>2. QED BY <1>2, <1>4, <1>7, <3>1
  <2>3. 2 \in 1 .. m + 1 /\ m + 1 \in 2 .. m + 1
    BY <1>5
  <2>4. QED BY <1>4, <2>1, <2>2, <2>3, RunEndOnly
<1>9. word \in Seq(Symbols) /\ Len(word) = m - 1 /\ \A i \in 1 .. m - 1 : word[i] = x[p + i - 1]
  <2>1. e - 1 \in p .. Len(x) /\ m - 1 = (e - 1) - p + 1
    BY <1>0, <1>2, <1>4
  <2> HIDE DEF m
  <2>2. QED BY <1>0, <2>1
<1> HIDE DEF word
<1>10. SubSeq(y, 2, (m + 1) - 1) = Folded(word)
  <2> DEFINE a == SubSeq(y, 2, m)
             b == Folded(word)
  <2>1. a \in Seq(Symbols) /\ Len(a) = m - 1 /\ \A i \in 1 .. m - 1 : a[i] = y[i + 1]
    BY <1>4, <1>5
  <2>2. b \in Seq(Symbols) /\ Len(b) = m - 1 /\ \A i \in 1 .. m - 1 : b[i] = FoldedSymbol(word[i])
    BY <1>9, FoldedIs
  <2> HIDE DEF a, b
  <2>3. ASSUME NEW i \in 1 .. m - 1 PROVE a[i] = b[i]
    <3> DEFINE j == i + 1
    <3>1. j \in 2 .. m /\ p + j - 2 = p + i - 1
      BY <1>0, <1>5, <2>3
    <3>2. a[i] = y[j] /\ b[i] = FoldedSymbol(x[p + i - 1])
      BY <1>9, <2>1, <2>2, <2>3
    <3> HIDE DEF j, m
    <3>3. QED BY <1>4, <3>1, <3>2
  <2>4. a = b
    BY <2>1, <2>2, <2>3, SeqEqual
  <2>5. (m + 1) - 1 = m
    BY <1>5
  <2>6. QED BY <2>4, <2>5 DEF a, b
<1>11. next_token(y, 2) = Read(WordToken(Folded(word)), m + 1)
  <2>1. next_token(y, 2) = read_ident_or_keyword(y, 2)
    BY <1>6, NextTokenIs
  <2>2. read_ident_or_keyword(y, 2) = Read(WordToken(SubSeq(y, 2, RunEnd(y, 2, S) - 1)), RunEnd(y, 2, S))
    BY WordIs, Zenon DEF S
  <2>3. QED BY <1>8, <1>10, <2>1, <2>2, Zenon
<1>12. next_token(y, 2).tok = WordToken(Folded(word)) /\ next_token(y, 2).next = m + 1
  BY <1>11 DEF Read
<1>13. y[2] # Space
  BY <1>6, SymbolsApart DEF Space
<1>14. Fold(WordToken(Folded(word))) = Fold(WordToken(word)) /\ WordToken(Folded(word))[1] # "error"
  BY <1>9, WordFolds
<1>15. QED
  BY <1>1, <1>3, <1>12, <1>13, <1>14 DEF KeepsToken, y, e

LEMMA KeepsSign ==
  ASSUME NEW x \in Seq(Symbols), NEW p \in 1 .. Len(x), TwiceAt(x, p) \/ x[p] \in Singles
  PROVE  KeepsToken(x, p)
<1> DEFINE y == Alone(x, p)
           m == Len(y)
<1>0. Len(x) \in Nat /\ p \in 1 .. Len(x)
  OBVIOUS
<1>1. x[p] \in Marks /\ x[p] # Quote /\ x[p] \notin Letters /\ ~NumberAt(x, p) /\ x[p] # Space
  BY SymbolsApart DEF TwiceAt, Singles, Marks, Quote, NumberAt, Space
<1>2. FoldedSymbol(x[p]) = x[p]
  BY <1>1, FoldedKinds
<1>3. CASE TwiceAt(x, p)
  <2> DEFINE tok == Sign(x[p] \o "=")
  <2>1. TokenEnd(x, p) = p + 2
    BY <1>3, SymbolsApart DEF TokenEnd, TwiceAt, Quote
  <2>2. next_token(x, p) = Read(tok, p + 2)
    BY <1>3, NextTokenIs
  <2>3. p + 1 <= Len(x) /\ x[p + 1] = "=" /\ FoldedSymbol("=") = "="
    BY <1>3, FoldedKinds DEF TwiceAt, Is, Marks
  <2>4. y \in Seq(Symbols) /\ m = 3 /\ y[2] = x[p] /\ y[3] = "="
    <3>1. /\ y \in Seq(Symbols) /\ m = (p + 2) - p + 1
          /\ \A i \in 2 .. (p + 2) - p + 1 : y[i] = FoldedSymbol(x[p + i - 2])
      BY <1>1, <2>1, AloneIs
    <3>2. (p + 2) - p + 1 = 3 /\ 2 \in 2 .. 3 /\ 3 \in 2 .. 3 /\ p + 2 - 2 = p /\ p + 3 - 2 = p + 1
      BY <1>0
    <3> HIDE DEF y, m
    <3>3. QED BY <1>2, <2>3, <3>1, <3>2
  <2> HIDE DEF y
  <2>5. TwiceAt(y, 2)
    BY <1>3, <2>4 DEF TwiceAt, Is
  <2>6. next_token(y, 2) = Read(tok, 4)
    <3>1. next_token(y, 2) = Read(Sign(y[2] \o "="), 2 + 2)
      BY <2>5, NextTokenIs, Zenon
    <3>2. 2 + 2 = 4
      OBVIOUS
    <3>3. QED BY <2>4, <3>1, <3>2, Zenon
  <2>7. tok[1] # "error"
    BY DEF Sign
  <2> HIDE DEF tok
  <2>8. /\ next_token(x, p).tok = tok /\ next_token(x, p).next = p + 2
        /\ next_token(y, 2).tok = tok /\ next_token(y, 2).next = 4
    BY <2>2, <2>6 DEF Read
  <2>9. QED BY <1>1, <2>1, <2>4, <2>7, <2>8 DEF KeepsToken, y
<1>4. CASE ~TwiceAt(x, p)
  <2> DEFINE tok == Sign(x[p])
  <2>0. x[p] \in Singles
    BY <1>4
  <2>1. TokenEnd(x, p) = p + 1
    BY <1>1, <1>4, SymbolsApart DEF TokenEnd, TwiceAt, Quote, NumberAt
  <2>2. next_token(x, p) = Read(tok, p + 1)
    BY <1>4, <2>0, NextTokenIs
  <2>4. y \in Seq(Symbols) /\ m = 2 /\ y[2] = x[p]
    <3>1. /\ y \in Seq(Symbols) /\ m = (p + 1) - p + 1
          /\ \A i \in 2 .. (p + 1) - p + 1 : y[i] = FoldedSymbol(x[p + i - 2])
      BY <1>1, <2>1, AloneIs
    <3>2. (p + 1) - p + 1 = 2 /\ 2 \in 2 .. 2 /\ p + 2 - 2 = p
      BY <1>0
    <3> HIDE DEF y, m
    <3>3. QED BY <1>2, <3>1, <3>2
  <2> HIDE DEF y
  <2>5. ~TwiceAt(y, 2)
    BY <2>4 DEF TwiceAt, Is
  <2>6. next_token(y, 2) = Read(tok, 3)
    <3>1. next_token(y, 2) = Read(Sign(y[2]), 2 + 1)
      BY <2>0, <2>4, <2>5, NextTokenIs
    <3>2. QED BY <2>4, <3>1
  <2>7. tok[1] # "error"
    BY DEF Sign
  <2> HIDE DEF tok
  <2>8. /\ next_token(x, p).tok = tok /\ next_token(x, p).next = p + 1
        /\ next_token(y, 2).tok = tok /\ next_token(y, 2).next = 3
    BY <2>2, <2>6 DEF Read
  <2>9. QED BY <1>1, <2>1, <2>4, <2>7, <2>8 DEF KeepsToken, y
<1>5. QED
  BY <1>3, <1>4

LEMMA KeepsAny ==
  ASSUME NEW x \in Seq(Symbols), NEW p \in 1 .. Len(x), next_token(x, p).tok[1] # "error",
         next_token(x, p).tok[1] = "text" => Quote \notin Range(next_token(x, p).tok[2])
  PROVE  KeepsToken(x, p)
<1>1. CASE x[p] = Quote
  <2>1. Literal(x, p + 1, next_token(x, p))
    BY <1>1, NextTokenIs, LiteralIs
  <2>2. next_token(x, p).tok # LexerError("UnterminatedString")
    BY DEF LexerError
  <2>3. PICK s \in Seq(Symbols) : next_token(x, p).tok = TextLiteral(s)
    BY <2>1, <2>2 DEF Literal
  <2>4. \A i \in DOMAIN s : s[i] # Quote
    <3>1. Quote \notin Range(s)
      BY <2>3 DEF TextLiteral
    <3>2. QED BY <3>1 DEF Range
  <2>5. QED BY <1>1, <2>3, <2>4, KeepsString
<1>2. CASE NumberAt(x, p)
  BY <1>2, KeepsNumber
<1>3. CASE x[p] \in Letters
  BY <1>3, KeepsWord
<1>4. CASE TwiceAt(x, p) \/ x[p] \in Singles
  BY <1>4, KeepsSign
<1>5. ASSUME next_token(x, p) = Read(LexerError("UnexpectedChar"), p + 1) PROVE FALSE
  <2>1. next_token(x, p).tok = LexerError("UnexpectedChar")
    BY <1>5 DEF Read
  <2>2. LexerError("UnexpectedChar")[1] = "error"
    BY DEF LexerError
  <2>3. QED BY <2>1, <2>2
<1>6. QED
  BY <1>1, <1>2, <1>3, <1>4, <1>5, NextTokenIs

LEMMA AloneTokens ==
  ASSUME NEW x \in Seq(Symbols), NEW p \in 1 .. Len(x), KeepsToken(x, p)
  PROVE  /\ tokenize(Alone(x, p)) = <<next_token(Alone(x, p), 2).tok>>
         /\ next_token(Alone(x, p), 2).tok \in Token
<1> DEFINE y == Alone(x, p)
           r == next_token(y, 2)
           m == Len(y)
<1>1. y \in Seq(Symbols) /\ m = TokenEnd(x, p) - p + 1 /\ y[1] = Space /\ TokenEnd(x, p) \in p + 1 .. Len(x) + 1
  BY AloneIs
<1>2. y[2] # Space /\ r.next = m + 1 /\ r.tok[1] # "error"
  BY DEF KeepsToken
<1> HIDE DEF y
<1>3. Len(x) \in Nat /\ p \in 1 .. Len(x) /\ m \in Nat /\ 2 <= m
  BY <1>1
<1>4. Lexed(y)[1] = Lexed(y)[2]
  <2>1. 1 \in 1 .. m + 1 /\ 1 <= m /\ 1 + 1 = 2
    BY <1>3
  <2>2. QED BY <1>1, <2>1, LexedStep
<1>5. Lexed(y)[2] = <<r.tok>> \o Lexed(y)[r.next] /\ r.tok \in Token
  <2>1. 2 \in 1 .. m + 1
    BY <1>3
  <2>2. QED BY <1>1, <1>2, <1>3, <2>1, LexedStep
<1>6. Lexed(y)[m + 1] = <<>>
  <2>1. m + 1 \in 1 .. m + 1
    BY <1>3
  <2>2. QED BY <1>1, <2>1, LexedStep
<1> HIDE DEF r
<1>7. <<r.tok>> \o <<>> = <<r.tok>>
  <2>1. <<r.tok>> \in Seq(Token)
    BY <1>5
  <2>2. QED BY <2>1, ConcatEmptySeq
<1>8. tokenize(y) = <<r.tok>>
  BY <1>1, <1>2, <1>4, <1>5, <1>6, <1>7, LexedIs, Zenon
<1>9. QED
  BY <1>5, <1>8 DEF y, r

(* Dropping semicolons goes token by token.                                *)
LEMMA SameMore ==
  ASSUME NEW tok \in Token, NEW t \in Seq(Token)
  PROVE  Same(<<tok>> \o t) = IF tok = Sign(";") THEN Same(t) ELSE <<Fold(tok)>> \o Same(t)
<1> DEFINE n == Len(t)
           w == <<tok>> \o t
<1>0. n \in Nat /\ w \in Seq(Token) /\ Len(w) = n + 1 /\ w[1] = tok /\ \A i \in 1 .. n : w[i + 1] = t[i]
  OBVIOUS
<1> HIDE DEF w
<1> DEFINE T == {q \in 1 .. n + 1 : Samed(w)[q + 1] = Samed(t)[q]}
<1>1. ASSUME NEW q \in 1 .. n + 1, \A r \in 1 .. n + 1 : r > q => r \in T
      PROVE  Samed(w)[q + 1] = Samed(t)[q]
  <2> DEFINE v == q + 1
  <2>1. v \in 1 .. Len(w) + 1 /\ (v > Len(w) <=> q > n)
    BY <1>0
  <2>2. (q <= n => w[v] = t[q] /\ v \in T) /\ (q > n \/ q <= n)
    BY <1>0, <1>1
  <2> HIDE DEF v
  <2>3. Samed(w)[v] = SameAt(Samed(w), w, v) /\ Samed(t)[q] = SameAt(Samed(t), t, q)
    BY <1>0, <2>1, SamedIs
  <2>4. CASE q > n
    BY <2>1, <2>3, <2>4, Zenon DEF SameAt, v
  <2>5. CASE ~(q > n)
    <3>1. Samed(w)[v + 1] = Samed(t)[v] /\ w[v] = t[q]
      BY <2>2, <2>5
    <3>2. Samed(w)[v] = IF w[v] = Sign(";") THEN Samed(w)[v + 1] ELSE <<Fold(w[v])>> \o Samed(w)[v + 1]
      BY <2>1, <2>3, <2>5, Zenon DEF SameAt
    <3>3. Samed(t)[q] = IF t[q] = Sign(";") THEN Samed(t)[v] ELSE <<Fold(t[q])>> \o Samed(t)[v]
      BY <2>3, <2>5, Zenon DEF SameAt, v
    <3>4. QED BY <3>1, <3>2, <3>3, Zenon DEF v
  <2>6. QED BY <2>4, <2>5 DEF v
<1>2. \A q \in 1 .. n + 1 : (\A r \in 1 .. n + 1 : r > q => r \in T) => q \in T
  BY <1>1
<1>3. 1 \in T
  <2>1. 1 \in 1 .. n + 1
    BY <1>0
  <2> HIDE DEF T, n
  <2>2. QED BY <1>0, <1>2, <2>1, Descend
<1>4. Samed(w)[1 + 1] = Samed(t)[1]
  BY <1>3
<1>5. Samed(w)[1] = SameAt(Samed(w), w, 1) /\ Same(w) = Samed(w)[1] /\ Same(t) = Samed(t)[1]
  <2>1. 1 \in 1 .. Len(w) + 1
    BY <1>0
  <2>2. QED BY <1>0, <2>1, SamedIs
<1>6. ~(1 > Len(w))
  BY <1>0
<1>7. Samed(w)[1] = IF w[1] = Sign(";") THEN Samed(w)[1 + 1] ELSE <<Fold(w[1])>> \o Samed(w)[1 + 1]
  BY <1>5, <1>6, Zenon DEF SameAt
<1>8. Same(w) = IF tok = Sign(";") THEN Same(t) ELSE <<Fold(tok)>> \o Same(t)
  BY <1>0, <1>4, <1>5, <1>7, Zenon
<1>9. QED
  BY <1>8 DEF w

LEMMA UnquotedMore ==
  ASSUME NEW tok \in Token, NEW t \in Seq(Token), Unquoted(<<tok>> \o t)
  PROVE  Unquoted(t) /\ (tok[1] = "text" => Quote \notin Range(tok[2]))
<1> DEFINE w == <<tok>> \o t
<1>1. /\ DOMAIN w = 1 .. Len(t) + 1 /\ DOMAIN t = 1 .. Len(t) /\ w[1] = tok /\ Len(t) \in Nat
      /\ \A i \in 1 .. Len(t) : w[i + 1] = t[i]
  OBVIOUS
<1> HIDE DEF w
<1>2. Range(t) \subseteq Range(w) /\ tok \in Range(w)
  <2>1. ASSUME NEW i \in 1 .. Len(t) PROVE t[i] \in Range(w)
    <3>1. i + 1 \in DOMAIN w /\ t[i] = w[i + 1]
      BY <1>1
    <3>2. QED BY <3>1 DEF Range
  <2>2. tok \in Range(w)
    <3>1. 1 \in DOMAIN w
      BY <1>1
    <3>2. QED BY <1>1, <3>1 DEF Range
  <2>3. QED BY <1>1, <2>1, <2>2 DEF Range
<1>3. \A u \in Range(w) : u[1] = "text" => Quote \notin Range(u[2])
  BY DEF Unquoted, w
<1>4. QED
  BY <1>2, <1>3 DEF Unquoted

LEMMA NoTokens == tokenize(<<>>) = <<>>
<1> DEFINE e == <<>>
<1>1. e \in Seq(Symbols) /\ 1 \in 1 .. Len(e) + 1 /\ 1 = Len(e) + 1
  OBVIOUS
<1> HIDE DEF e
<1>2. tokenize(e) = Lexed(e)[1]
  BY <1>1, LexedIs
<1>3. Lexed(e)[1] = <<>>
  BY <1>1, LexedStep
<1>4. QED BY <1>2, <1>3 DEF e

(* The key of a text is one of its token texts after the other.            *)
LEMMA KeyedStep ==
  ASSUME NEW x \in Seq(Symbols), NEW p \in 1 .. Len(x) + 1
  PROVE  /\ p = Len(x) + 1 => Keyed(x)[p] = <<>>
         /\ p <= Len(x) /\ x[p] \in {Space, ";"} => Keyed(x)[p] = Keyed(x)[p + 1]
         /\ p <= Len(x) /\ x[p] \notin {Space, ";"}
                => Keyed(x)[p] = Alone(x, p) \o Keyed(x)[TokenEnd(x, p)]
<1>1. Keyed(x)[p] = KeyAt(Keyed(x), x, p)
  BY KeyedIs
<1>2. Len(x) \in Nat /\ p \in 1 .. Len(x) + 1
  OBVIOUS
<1>3. p = Len(x) + 1 => p > Len(x)
  BY <1>2
<1>4. p <= Len(x) => ~(p > Len(x))
  BY <1>2
<1>5. ASSUME p = Len(x) + 1 PROVE Keyed(x)[p] = <<>>
  BY <1>1, <1>3, <1>5, Zenon DEF KeyAt
<1>6. ASSUME p <= Len(x), x[p] \in {Space, ";"} PROVE Keyed(x)[p] = Keyed(x)[p + 1]
  BY <1>1, <1>4, <1>6, Zenon DEF KeyAt
<1>7. ASSUME p <= Len(x), x[p] \notin {Space, ";"}
      PROVE  Keyed(x)[p] = Alone(x, p) \o Keyed(x)[TokenEnd(x, p)]
  BY <1>1, <1>4, <1>7, Zenon DEF KeyAt, Alone
<1>8. QED
  BY <1>5, <1>6, <1>7

LEMMA KeyKeeps ==
  ASSUME NEW x \in Seq(Symbols), ~Unreadable(tokenize(x)), Unquoted(tokenize(x))
  PROVE  Same(tokenize(normalize_sql(x))) = Same(tokenize(x))
<1> DEFINE n == Len(x)
           Fine(q) == ~Unreadable(Lexed(x)[q]) /\ Unquoted(Lexed(x)[q])
           Good(q) == /\ Keyed(x)[q] \in Seq(Symbols)
                      /\ Keyed(x)[q] = <<>> \/ Keyed(x)[q][1] = Space
                      /\ ~Unreadable(tokenize(Keyed(x)[q]))
                      /\ Same(tokenize(Keyed(x)[q])) = Same(Lexed(x)[q])
           T == {q \in 1 .. n + 1 : Fine(q) => Good(q)}
<1>0. n \in Nat
  OBVIOUS
<1>1. ASSUME NEW q \in 1 .. n + 1, \A r \in 1 .. n + 1 : r > q => r \in T, Fine(q)
      PROVE  Good(q)
  <2> DEFINE r == next_token(x, q)
             e == TokenEnd(x, q)
             L == Lexed(x)
             K == Keyed(x)
  <2>1. CASE q = n + 1
    <3>1. L[q] = <<>> /\ K[q] = <<>>
      BY <2>1, LexedStep, KeyedStep
    <3>2. <<>> \in Seq(Symbols)
      OBVIOUS
    <3>3. QED BY <1>1, <3>1, <3>2, NoTokens
  <2>2. CASE q <= n /\ x[q] = Space
    <3>1. L[q] = L[q + 1]
      BY <2>2, LexedStep
    <3>2. K[q] = K[q + 1]
      BY <2>2, KeyedStep
    <3>3. q + 1 \in 1 .. n + 1 /\ q + 1 > q
      BY <1>0, <2>2
    <3>4. q + 1 \in T
      <4> HIDE DEF T
      <4>1. QED BY <1>1, <3>3
    <3>5. QED BY <1>1, <3>1, <3>2, <3>4
  <2>3. CASE q <= n /\ x[q] # Space
    <3>1. r.tok \in Token
      BY <2>3, LexedStep
    <3>2. r.tok[1] # "error"
      <4>1. ASSUME r.tok[1] = "error" PROVE FALSE
        <5>1. L[q] = <<r.tok>>
          BY <2>3, <4>1, LexedStep
        <5>2. ~Unreadable(L[q]) /\ <<>> \in Seq(Token)
          BY <1>1
        <5> HIDE DEF r, L
        <5>3. QED BY <3>1, <4>1, <5>1, <5>2, UnreadableMore
      <4>2. QED BY <4>1
    <3>3. L[q] = <<r.tok>> \o L[r.next] /\ r.next \in q + 1 .. n + 1
      BY <2>3, <3>2, LexedStep
    <3>4. L[r.next] \in Seq(Token)
      <4>1. r.next \in 1 .. n + 1
        BY <1>0, <3>3
      <4>2. QED BY <4>1, LexedType
    <3>5. Fine(r.next) /\ (r.tok[1] = "text" => Quote \notin Range(r.tok[2]))
      <4> HIDE DEF r, L
      <4>1. ~Unreadable(L[r.next])
        BY <1>1, <3>1, <3>3, <3>4, UnreadableMore DEF L, Unreadable
      <4>2. Unquoted(L[r.next]) /\ (r.tok[1] = "text" => Quote \notin Range(r.tok[2]))
        BY <1>1, <3>1, <3>3, <3>4, UnquotedMore DEF L
      <4>3. QED BY <4>1, <4>2 DEF L
    <3>6. Good(r.next)
      <4>1. r.next \in 1 .. n + 1 /\ r.next > q
        BY <1>0, <3>3
      <4>2. r.next \in T
        <5> HIDE DEF T
        <5>1. QED BY <1>1, <4>1
      <4>3. QED BY <3>5, <4>2
    <3>7. Same(L[q]) = IF r.tok = Sign(";") THEN Same(L[r.next]) ELSE <<Fold(r.tok)>> \o Same(L[r.next])
      <4> HIDE DEF r, L
      <4>1. QED BY <3>1, <3>3, <3>4, SameMore
    <3>8. CASE x[q] = ";"
      <4>1. r = Read(Sign(";"), q + 1)
        <5>1. ~TwiceAt(x, q) /\ x[q] \in Singles
          BY <3>8 DEF TwiceAt, Singles
        <5>2. QED BY <3>8, <5>1, NextTokenIs
      <4>2. r.tok = Sign(";") /\ r.next = q + 1
        <5> HIDE DEF r
        <5>1. QED BY <4>1 DEF Read
      <4>3. K[q] = K[q + 1]
        BY <2>3, <3>8, KeyedStep
      <4>4. K[q] = K[r.next] /\ Same(L[q]) = Same(L[r.next])
        BY <3>7, <4>2, <4>3
      <4>5. QED BY <3>6, <4>4
    <3>9. CASE x[q] # ";"
      <4> DEFINE y == Alone(x, q)
                 k == K[e]
                 tok == next_token(y, 2).tok
      <4>0. q \in 1 .. n
        BY <1>0, <2>3
      <4>1. KeepsToken(x, q)
        BY <3>2, <3>5, <4>0, KeepsAny
      <4>2. e = r.next /\ tok[1] # "error" /\ Fold(tok) = Fold(r.tok)
        BY <4>1, Zenon DEF KeepsToken
      <4>3. tokenize(y) = <<tok>> /\ tok \in Token
        BY <4>0, <4>1, AloneTokens
      <4>4. y \in Seq(Symbols) /\ Len(y) > 0 /\ y[1] = Space
        <5>1. y \in Seq(Symbols) /\ Len(y) = e - q + 1 /\ y[1] = Space /\ e \in q + 1 .. n + 1
          BY <4>0, AloneIs
        <5> HIDE DEF y, e
        <5>2. QED BY <4>0, <5>1
      <4>5. K[q] = y \o k
        BY <2>3, <3>9, KeyedStep
      <4>6. /\ k \in Seq(Symbols) /\ (k = <<>> \/ k[1] = Space)
            /\ ~Unreadable(tokenize(k)) /\ Same(tokenize(k)) = Same(L[r.next])
        BY <3>6, <4>2
      <4> HIDE DEF y, k, tok, e, r
      <4>7. ~Unreadable(tokenize(y))
        <5>1. <<>> \in Seq(Token)
          OBVIOUS
        <5>2. QED BY <4>2, <4>3, <5>1, UnreadableMore
      <4>8. tokenize(y \o k) = <<tok>> \o tokenize(k)
        BY <4>3, <4>4, <4>6, <4>7, TokenizeAppend
      <4>9. tokenize(k) \in Seq(Token)
        BY <4>6, LexedType
      <4>10. ~Unreadable(tokenize(y \o k))
        BY <4>2, <4>3, <4>6, <4>8, <4>9, UnreadableMore
      <4>11. tok = Sign(";") <=> r.tok = Sign(";")
        <5>1. ASSUME NEW u PROVE u = Sign(";") <=> Fold(u) = Sign(";")
          <6>1. CASE u[1] = "ident"
            <7>1. Fold(u)[1] = "ident" /\ Sign(";")[1] # "ident"
              BY <6>1 DEF Fold, Ident, Sign
            <7>2. QED BY <6>1, <7>1
          <6>2. CASE u[1] # "ident"
            BY <6>2 DEF Fold
          <6>3. QED BY <6>1, <6>2
        <5>2. QED BY <4>2, <5>1
      <4>12. Same(tokenize(y \o k)) = Same(L[q])
        <5>1. Same(tokenize(y \o k)) = IF tok = Sign(";") THEN Same(tokenize(k))
                                       ELSE <<Fold(tok)>> \o Same(tokenize(k))
          BY <4>3, <4>8, <4>9, SameMore
        <5> DEFINE a == Same(tokenize(y \o k))
                   b == Same(L[q])
                   c == Same(L[r.next])
        <5>2. b = IF r.tok = Sign(";") THEN c ELSE <<Fold(r.tok)>> \o c
          BY <3>7
        <5>3. a = IF tok = Sign(";") THEN c ELSE <<Fold(r.tok)>> \o c
          BY <4>2, <4>6, <5>1
        <5> HIDE DEF a, b, c
        <5>4. a = b
          BY <4>11, <5>2, <5>3
        <5>5. QED BY <5>4 DEF a, b
      <4>13. y \o k \in Seq(Symbols) /\ (y \o k)[1] = Space
        BY <4>4, <4>6
      <4>14. QED BY <4>5, <4>10, <4>12, <4>13
    <3>10. QED BY <3>8, <3>9
  <2>4. q = n + 1 \/ q <= n
    BY <1>0, <1>1
  <2>5. QED BY <2>1, <2>2, <2>3, <2>4
<1>2. \A q \in 1 .. n + 1 : (\A r \in 1 .. n + 1 : r > q => r \in T) => q \in T
  BY <1>1
<1>3. 1 \in T
  <2>1. 1 \in 1 .. n + 1
    BY <1>0
  <2> HIDE DEF T, n
  <2>2. QED BY <1>0, <1>2, <2>1, Descend
<1>4. tokenize(x) = Lexed(x)[1] /\ normalize_sql(x) = Keyed(x)[1]
  BY LexedIs, KeyedIs
<1>5. QED
  BY <1>3, <1>4

----------------------------------------------------------------------------
(* What is kept of a text is always what it says.                          *)

Inv == /\ text \in Seq(Symbols)
       /\ tokens = tokenize(text)
       /\ reading = execute(tokens)

LEMMA InvHolds == Init => Inv
<1>1. <<>> \in Seq(Symbols)
  OBVIOUS
<1>2. QED BY <1>1, NoTokens DEF Init, Inv

LEMMA Extends ==
  ASSUME NEW more, Extend(more), Inv
  PROVE  Inv'
<1>1. more \in Seq(Symbols) /\ text' = text \o more /\ tokens' = tokenize(text') /\ reading' = execute(tokens')
  BY DEF Extend
<1>2. text' \in Seq(Symbols)
  BY <1>1 DEF Inv
<1>3. QED BY <1>1, <1>2 DEF Inv

LEMMA InvKept == Inv /\ [Next]_vars => Inv'
<1> SUFFICES ASSUME Inv, [Next]_vars PROVE Inv'
  OBVIOUS
<1>1. ASSUME NEW c \in Characters, Character(c) PROVE Inv'
  BY <1>1, Extends DEF Character
<1>2. CASE Phrase
  BY <1>2, Extends DEF Phrase
<1>3. CASE Trailing
  BY <1>3, Extends DEF Trailing
<1>4. CASE UNCHANGED vars
  BY <1>4 DEF vars, Inv
<1>5. QED
  BY <1>1, <1>2, <1>3, <1>4 DEF Next

(* The text is made of symbols; the tokens and the statement execute hands *)
(* to the engine are those of the whole text (execute, lib.rs:34-41).      *)
THEOREM InvInvariant == Spec => []Inv
  BY InvHolds, InvKept, PTL DEF Spec

(* The key of a text without quotes in its literals keeps its tokens, but  *)
(* for case and semicolons: two such texts with one key, if neither has a  *)
(* semicolon inside, are one statement up to the case of names             *)
(* (normalize_sql, semantic_cache.py:20-28).                               *)
THEOREM KeysKept == Spec => []KeysKeepTokens
<1>1. Inv => KeysKeepTokens
  BY KeyKeeps DEF Inv, KeysKeepTokens
<1>2. QED
  BY <1>1, InvInvariant, PTL

----------------------------------------------------------------------------
(* What a parser makes of the tokens before the last it does not change    *)
(* when more tokens follow.                                                *)

Before(t, u) == /\ t \in Seq(Token) /\ u \in Seq(Token) /\ Len(t) <= Len(u)
                /\ \A i \in 1 .. Len(t) : u[i] = t[i]

(* A result r at p among the tokens t, and d at the same place among those *)
(* and more.                                                               *)
Fits(t, p, r, d) == r.ok => /\ r.next \in p .. Len(t) + 1
                            /\ r.next <= Len(t) => d = r

LEMMA ResultIs == /\ \A x, q : Got(x, q).ok /\ Got(x, q).node = x /\ Got(x, q).next = q
                  /\ \A x, q : ~Wrong(x, q).ok
  BY DEF Got, Wrong

LEMMA TokenIsOne == NoToken \notin Token
  BY DEF NoToken, Token, Keyword, Ident, IntLiteral, TextLiteral, Sign, LexerError

LEMMA SelfBefore ==
  ASSUME NEW t, NEW u, Before(t, u)
  PROVE  Before(t, t) /\ Before(u, u)
  BY DEF Before

LEMMA AtIs ==
  ASSUME NEW t, NEW u, Before(t, u), NEW p \in Places(t)
  PROVE  /\ Len(t) \in Nat /\ p \in 1 .. Len(t) + 1 /\ p \in Places(u)
         /\ p <= Len(t) => At(u, p) = At(t, p) /\ At(t, p) \in Token /\ At(t, p) # NoToken
         /\ p = Len(t) + 1 => At(t, p) = NoToken
         /\ At(t, p) # NoToken => p <= Len(t)
         /\ p <= Len(t) => p + 1 \in Places(t)
<1>1. Len(t) \in Nat /\ p \in 1 .. Len(t) + 1 /\ Len(u) \in Nat /\ p \in 1 .. Len(u) + 1
  BY DEF Before, Places
<1>2. p <= Len(t) => At(u, p) = At(t, p) /\ At(t, p) \in Token
  BY <1>1 DEF Before, At
<1>3. p = Len(t) + 1 => At(t, p) = NoToken
  BY <1>1 DEF At
<1>4. At(t, p) # NoToken => p <= Len(t)
  BY <1>1, <1>3
<1>5. p <= Len(t) => p + 1 \in Places(t)
  BY <1>1 DEF Places
<1>6. QED
  BY <1>1, <1>2, <1>3, <1>4, <1>5, TokenIsOne DEF Places

(* A sequence of tokens asked for.                                         *)
Shape(s) == /\ Len(s) \in Nat \ {0} /\ DOMAIN s = 1 .. Len(s)
            /\ \A i \in 1 .. Len(s) : s[i] # NoToken

Asked(t, p, s, i) == At(t, p + i - 1) = s[i] \/ (s[i] = Name /\ At(t, p + i - 1)[1] = "ident")
Said(t, p, s) == Got([i \in DOMAIN s |-> t[p + i - 1][2]], p + Len(s))

LEMMA ExpectFits ==
  ASSUME NEW t, NEW u, Before(t, u), NEW p \in Places(t), NEW s, Shape(s)
  PROVE  /\ Fits(t, p, Expect(t, p, s), Expect(u, p, s))
         /\ Expect(t, p, s).ok => /\ Expect(t, p, s).next \in p + 1 .. Len(t) + 1
                                  /\ Expect(t, p, s).next = p + Len(s)
<1> DEFINE n == Len(t)
           k == Len(s)
<1>0. n \in Nat /\ p \in 1 .. n + 1 /\ k \in Nat \ {0} /\ DOMAIN s = 1 .. k
  BY AtIs DEF Shape
<1>1. \A v : IF \A i \in 1 .. k : Asked(v, p, s, i) THEN Expect(v, p, s) = Said(v, p, s)
             ELSE ~Expect(v, p, s).ok
  <2> TAKE v
  <2> DEFINE misfits == {i \in DOMAIN s : ~Asked(v, p, s, i)}
  <2>1. Expect(v, p, s) = IF misfits = {} THEN Said(v, p, s)
                          ELSE Wrong(IF At(v, p + Min(misfits) - 1) = NoToken THEN "eof" ELSE "syntax", p)
    BY Zenon DEF Expect, Asked, Said
  <2>2. misfits = {} <=> \A i \in 1 .. k : Asked(v, p, s, i)
    BY <1>0
  <2> HIDE DEF misfits
  <2>3. CASE misfits = {}
    BY <2>1, <2>2, <2>3
  <2>4. CASE misfits # {}
    BY <2>1, <2>2, <2>4, ResultIs
  <2>5. QED BY <2>3, <2>4
<1>2. SUFFICES ASSUME Expect(t, p, s).ok
               PROVE  /\ Expect(t, p, s).next \in p + 1 .. n + 1 /\ Expect(t, p, s).next = p + k
                      /\ Expect(u, p, s) = Expect(t, p, s)
  BY <1>0 DEF Fits
<1>3. \A i \in 1 .. k : Asked(t, p, s, i)
  BY <1>1, <1>2
<1>4. ASSUME NEW i \in 1 .. k
      PROVE  p + i - 1 \in 1 .. n /\ u[p + i - 1] = t[p + i - 1] /\ Asked(u, p, s, i)
  <2> DEFINE q == p + i - 1
  <2>1. At(t, q) # NoToken
    <3>1. NoToken[1] # "ident"
      BY DEF NoToken
    <3>2. QED BY <1>3, <1>4, <3>1 DEF Asked, Shape
  <2>2. q \in Nat /\ q >= 1
    BY <1>0
  <2>3. q \in 1 .. n
    BY <1>0, <2>1, <2>2 DEF At
  <2>4. u[q] = t[q] /\ At(u, q) = At(t, q)
    <3> HIDE DEF q
    <3>1. QED BY <1>0, <2>3 DEF Before, At
  <2>5. Asked(u, p, s, i)
    BY <1>3, <2>4, Zenon DEF Asked
  <2>6. QED BY <2>3, <2>4, <2>5
<1>5. p + k \in p + 1 .. n + 1
  <2>1. p + k - 1 \in 1 .. n
    BY <1>0, <1>4
  <2>2. QED BY <1>0, <2>1
<1>6. Said(u, p, s) = Said(t, p, s)
  <2>1. [i \in DOMAIN s |-> u[p + i - 1][2]] = [i \in DOMAIN s |-> t[p + i - 1][2]]
    BY <1>0, <1>4
  <2>2. QED BY <2>1, Zenon DEF Said
<1>7. Expect(t, p, s) = Said(t, p, s) /\ Expect(u, p, s) = Said(u, p, s)
  BY <1>1, <1>3, <1>4
<1>8. Said(t, p, s).next = p + k
  BY ResultIs DEF Said
<1>9. QED
  BY <1>5, <1>6, <1>7, <1>8

LEMMA OneOfFits ==
  ASSUME NEW t, NEW u, Before(t, u), NEW p \in Places(t), NEW S
  PROVE  /\ Fits(t, p, OneOf(t, p, S), OneOf(u, p, S))
         /\ OneOf(t, p, S).ok => p <= Len(t) /\ OneOf(t, p, S).next = p + 1 /\ OneOf(u, p, S) = OneOf(t, p, S)
<1>1. CASE p <= Len(t)
  <2>1. At(u, p) = At(t, p) /\ Len(t) \in Nat /\ p \in 1 .. Len(t) + 1
    BY <1>1, AtIs
  <2>2. OneOf(u, p, S) = OneOf(t, p, S)
    BY <2>1, Zenon DEF OneOf
  <2>3. OneOf(t, p, S).ok => OneOf(t, p, S).next = p + 1
    BY ResultIs DEF OneOf
  <2>4. QED BY <1>1, <2>1, <2>2, <2>3 DEF Fits
<1>2. CASE p = Len(t) + 1
  <2>1. At(t, p) = NoToken
    BY <1>2, AtIs
  <2>2. ~OneOf(t, p, S).ok
    BY <2>1, ResultIs DEF OneOf
  <2>3. QED BY <2>2 DEF Fits
<1>3. QED
  BY <1>1, <1>2, AtIs

LEMMA ValueFits ==
  ASSUME NEW t, NEW u, Before(t, u), NEW p \in Places(t)
  PROVE  Fits(t, p, parse_value(t, p), parse_value(u, p))
<1> DEFINE Null1(v) == OneOf(v, p, {Keyword("NULL")})
<1>1. \A v : parse_value(v, p) = IF At(v, p)[1] \in {"int", "text"} THEN Got(At(v, p), p + 1)
                                 ELSE IF Null1(v).ok THEN Got(Null, Null1(v).next) ELSE Null1(v)
  BY Zenon DEF parse_value, Then
<1>2. Len(t) \in Nat /\ p \in 1 .. Len(t) + 1
  BY AtIs
<1>3. CASE p <= Len(t)
  <2>1. At(u, p) = At(t, p)
    BY <1>3, AtIs
  <2>2. Null1(u) = Null1(t) /\ (Null1(t).ok => Null1(t).next = p + 1)
    BY <2>1, ResultIs DEF OneOf
  <2>3. parse_value(u, p) = parse_value(t, p)
    BY <1>1, <2>1, <2>2
  <2>4. parse_value(t, p).ok => parse_value(t, p).next = p + 1
    BY <1>1, <2>2, ResultIs
  <2>5. QED BY <1>2, <1>3, <2>3, <2>4 DEF Fits
<1>4. CASE p = Len(t) + 1
  <2>1. At(t, p) = NoToken /\ NoToken[1] = "none"
    BY <1>4, AtIs DEF NoToken
  <2>2. ~Null1(t).ok
    BY <2>1, ResultIs DEF OneOf
  <2>3. ~parse_value(t, p).ok
    BY <1>1, <2>1, <2>2
  <2>4. QED BY <2>3 DEF Fits
<1>5. QED
  BY <1>2, <1>3, <1>4

LEMMA LimitValueFits ==
  ASSUME NEW t, NEW u, Before(t, u), NEW p \in Places(t)
  PROVE  Fits(t, p, parse_limit(t, p), parse_limit(u, p))
<1>1. Len(t) \in Nat /\ p \in 1 .. Len(t) + 1
  BY AtIs
<1>2. \A v : parse_limit(v, p) = IF At(v, p)[1] = "int" THEN Got(IntLiteral(as_usize(At(v, p)[2])), p + 1)
                                ELSE OneOf(v, p, {})
  BY Zenon DEF parse_limit
<1>3. CASE p <= Len(t)
  <2>1. At(u, p) = At(t, p)
    BY <1>3, AtIs
  <2>2. parse_limit(u, p) = parse_limit(t, p)
    BY <1>2, <2>1 DEF OneOf
  <2>3. parse_limit(t, p).ok => parse_limit(t, p).next = p + 1
    BY <1>2, ResultIs DEF OneOf
  <2>4. QED BY <1>1, <1>3, <2>2, <2>3 DEF Fits
<1>4. CASE p = Len(t) + 1
  <2>1. At(t, p) = NoToken /\ NoToken[1] = "none"
    BY <1>4, AtIs DEF NoToken
  <2>2. ~parse_limit(t, p).ok
    BY <1>2, <2>1, ResultIs DEF OneOf
  <2>3. QED BY <2>2 DEF Fits
<1>5. QED
  BY <1>1, <1>3, <1>4

(* The items between separators, from each place on.                       *)
SeparatedAt(f, item, sep, t, q) ==
    IF ~item[q].ok THEN item[q]
    ELSE IF At(t, item[q].next) # sep THEN Got(<<item[q].node>>, item[q].next)
    ELSE IF ~f[item[q].next + 1].ok THEN f[item[q].next + 1]
    ELSE Got(<<item[q].node>> \o f[item[q].next + 1].node, f[item[q].next + 1].next)

LEMMA SeparatedIs ==
  ASSUME NEW t \in Seq(Token), NEW sep, sep # NoToken, NEW p \in Places(t), NEW item,
         \A q \in p .. Len(t) + 1 : item[q].ok => item[q].next \in q .. Len(t) + 1
  PROVE  \E f : /\ \A q \in p .. Len(t) + 1 : f[q] = SeparatedAt(f, item, sep, t, q)
                /\ Separated(item, sep, t, p) = f[p]
<1> DEFINE n == Len(t)
           D == p .. n + 1
           B(f, q) == SeparatedAt(f, item, sep, t, q)
<1>0. n \in Nat /\ p \in 1 .. n + 1
  BY DEF Places
<1>1. ASSUME NEW f, NEW g, NEW q \in D, \A r \in D : r > q => f[r] = g[r]
      PROVE  B(f, q) = B(g, q)
  <2>1. CASE item[q].ok /\ At(t, item[q].next) = sep
    <3> DEFINE r == item[q].next + 1
    <3>1. item[q].next \in q .. n + 1
      BY <1>0, <1>1, <2>1
    <3>2. item[q].next # n + 1
      BY <1>0, <2>1 DEF At
    <3>3. r \in D /\ r > q
      BY <1>0, <1>1, <3>1, <3>2
    <3> HIDE DEF r
    <3>4. f[r] = g[r]
      BY <1>1, <3>3
    <3>5. QED BY <3>4, Zenon DEF SeparatedAt, r
  <2>2. CASE ~item[q].ok \/ At(t, item[q].next) # sep
    BY <2>2, Zenon DEF SeparatedAt
  <2>3. QED BY <2>1, <2>2
<1>2. Separated(item, sep, t, p) = (CHOOSE f : f = [q \in D |-> B(f, q)])[p]
  BY Zenon DEF Separated, SeparatedAt, Then
<1> HIDE DEF B
<1> DEFINE T == {k \in 0 .. n + 1 : \E g : \A q \in D : q > n + 1 - k => g[q] = B(g, q)}
<1>3. 0 \in T
  BY <1>0
<1>4. ASSUME NEW k \in 1 .. n + 1, k - 1 \in T PROVE k \in T
  <2>1. PICK g : \A q \in D : q > n + 1 - (k - 1) => g[q] = B(g, q)
    BY <1>4
  <2> DEFINE h == [q \in D |-> B(g, q)]
  <2>2. ASSUME NEW q \in D, q > n + 1 - k PROVE h[q] = B(h, q)
    <3>1. \A r \in D : r > q => h[r] = g[r]
      BY <1>0, <2>1, <2>2
    <3> HIDE DEF h
    <3>2. B(h, q) = B(g, q)
      BY <1>1, <3>1
    <3>3. QED BY <3>2 DEF h
  <2> HIDE DEF h
  <2>3. QED BY <1>0, <2>2
<1>5. n + 1 \in T
  <2> HIDE DEF T, D
  <2>1. QED BY <1>0, <1>3, <1>4, Climb
<1>6. PICK g : \A q \in D : g[q] = B(g, q)
  BY <1>0, <1>5
<1> DEFINE h == [q \in D |-> B(g, q)]
<1>7. h = [q \in D |-> B(h, q)]
  <2>1. ASSUME NEW q \in D PROVE B(h, q) = B(g, q)
    <3>1. \A r \in D : r > q => h[r] = g[r]
      BY <1>6
    <3> HIDE DEF h
    <3>2. QED BY <1>1, <3>1
  <2>2. QED BY <2>1
<1> DEFINE F == CHOOSE f : f = [q \in D |-> B(f, q)]
<1>8. F = [q \in D |-> B(F, q)]
  <2> HIDE DEF h
  <2>1. QED BY <1>7, Zenon
<1>9. (\A q \in D : F[q] = B(F, q)) /\ Separated(item, sep, t, p) = F[p]
  <2> HIDE DEF F
  <2>1. \A q \in D : F[q] = B(F, q)
    BY <1>8
  <2>2. QED BY <1>2, <2>1 DEF F
<1> HIDE DEF F
<1>10. QED
  BY <1>9 DEF B


LEMMA SeparatedFits ==
  ASSUME NEW t, NEW u, Before(t, u), NEW p \in Places(t), NEW sep, sep # NoToken, NEW i, NEW j,
         \A q \in Places(t) : q >= p => Fits(t, q, i[q], j[q]),
         \A q \in Places(u) : q >= p => Fits(u, q, j[q], j[q])
  PROVE  Fits(t, p, Separated(i, sep, t, p), Separated(j, sep, u, p))
<1> DEFINE n == Len(t)
<1>0. /\ t \in Seq(Token) /\ u \in Seq(Token) /\ n \in Nat /\ p \in 1 .. n + 1 /\ p \in Places(u)
      /\ Len(u) \in Nat /\ n <= Len(u)
  BY AtIs DEF Before, Places
<1>1. \A q \in p .. n + 1 : i[q].ok => i[q].next \in q .. n + 1
  BY <1>0 DEF Fits, Places
<1>2. \A q \in p .. Len(u) + 1 : j[q].ok => j[q].next \in q .. Len(u) + 1
  BY <1>0 DEF Fits, Places
<1>3. PICK f : /\ \A q \in p .. n + 1 : f[q] = SeparatedAt(f, i, sep, t, q)
               /\ Separated(i, sep, t, p) = f[p]
  BY <1>0, <1>1, SeparatedIs
<1>4. PICK g : /\ \A q \in p .. Len(u) + 1 : g[q] = SeparatedAt(g, j, sep, u, q)
               /\ Separated(j, sep, u, p) = g[p]
  BY <1>0, <1>2, SeparatedIs
<1> DEFINE T == {q \in 1 .. n + 1 : q >= p => Fits(t, q, f[q], g[q])}
<1>5. ASSUME NEW q \in 1 .. n + 1, \A r \in 1 .. n + 1 : r > q => r \in T, q >= p, f[q].ok
      PROVE  f[q].next \in q .. n + 1 /\ (f[q].next <= n => g[q] = f[q])
  <2> DEFINE a == i[q]
             r == a.next
  <2>1. f[q] = SeparatedAt(f, i, sep, t, q) /\ g[q] = SeparatedAt(g, j, sep, u, q)
    BY <1>0, <1>3, <1>4, <1>5
  <2>2. a.ok
    BY <1>5, <2>1 DEF SeparatedAt
  <2>3. r \in q .. n + 1 /\ r \in Places(t) /\ (r <= n => j[q] = a)
    <3>1. q \in Places(t)
      BY DEF Places
    <3>2. Fits(t, q, a, j[q])
      BY <1>5, <3>1
    <3>3. r \in q .. n + 1 /\ (r <= n => j[q] = a)
      BY <2>2, <3>2 DEF Fits
    <3>4. QED BY <1>0, <3>3 DEF Places
  <2>4. CASE At(t, r) # sep
    <3>1. f[q] = Got(<<a.node>>, r)
      BY <2>1, <2>2, <2>4, Zenon DEF SeparatedAt
    <3>2. f[q].next = r
      BY <3>1, ResultIs
    <3>3. ASSUME r <= n PROVE g[q] = f[q]
      <4>1. j[q] = a /\ At(u, r) = At(t, r)
        BY <2>3, <3>3, AtIs
      <4>2. QED BY <2>1, <2>2, <2>4, <3>1, <4>1, Zenon DEF SeparatedAt
    <3>4. QED BY <2>3, <3>2, <3>3
  <2>5. CASE At(t, r) = sep
    <3>1. r <= n
      BY <2>3, <2>5, AtIs
    <3>2. j[q] = a /\ At(u, r) = sep
      BY <2>3, <2>5, <3>1, AtIs
    <3> DEFINE s == r + 1
    <3>3. s \in 1 .. n + 1 /\ s > q /\ s >= p
      BY <1>0, <1>5, <2>3, <3>1
    <3> HIDE DEF s
    <3>4. Fits(t, s, f[s], g[s])
      <4>1. s \in T
        <5> HIDE DEF T
        <5>1. QED BY <1>5, <3>3
      <4>2. QED BY <3>3, <4>1
    <3>5. f[q] = IF ~f[s].ok THEN f[s] ELSE Got(<<a.node>> \o f[s].node, f[s].next)
      BY <2>1, <2>2, <2>5, Zenon DEF SeparatedAt, s
    <3>6. g[q] = IF ~g[s].ok THEN g[s] ELSE Got(<<a.node>> \o g[s].node, g[s].next)
      BY <2>1, <2>2, <3>2, Zenon DEF SeparatedAt, s
    <3>7. f[s].ok
      BY <1>5, <3>5
    <3>8. f[q] = Got(<<a.node>> \o f[s].node, f[s].next)
      BY <3>5, <3>7
    <3>9. f[q].next = f[s].next
      BY <3>8, ResultIs
    <3>10. f[s].next \in s .. n + 1 /\ (f[s].next <= n => g[s] = f[s])
      BY <3>4, <3>7 DEF Fits
    <3> HIDE DEF r
    <3>11. QED BY <1>0, <3>3, <3>5, <3>6, <3>9, <3>10
  <2>6. QED BY <2>4, <2>5
<1>6. \A q \in 1 .. n + 1 : (\A r \in 1 .. n + 1 : r > q => r \in T) => q \in T
  BY <1>5 DEF Fits
<1>7. p \in T
  <2> HIDE DEF T, n
  <2>1. QED BY <1>0, <1>6, Descend
<1>8. QED
  BY <1>0, <1>3, <1>4, <1>7

LEMMA Shapes ==
  /\ \A a : a # NoToken => Shape(<<a>>)
  /\ \A a, b : a # NoToken /\ b # NoToken => Shape(<<a, b>>)
  /\ \A a, b, c : a # NoToken /\ b # NoToken /\ c # NoToken => Shape(<<a, b, c>>)
  /\ \A a, b, c, d : a # NoToken /\ b # NoToken /\ c # NoToken /\ d # NoToken => Shape(<<a, b, c, d>>)
  /\ \A a, b, c, d, e, f, g :
        a # NoToken /\ b # NoToken /\ c # NoToken /\ d # NoToken /\ e # NoToken /\ f # NoToken /\ g # NoToken
            => Shape(<<a, b, c, d, e, f, g>>)
  BY DEF Shape

LEMMA NotNone ==
  /\ \A w : Keyword(w) # NoToken /\ Sign(w) # NoToken
  /\ Name # NoToken /\ Open # NoToken /\ Close # NoToken /\ Comma # NoToken
  BY DEF Keyword, Sign, Name, NoToken, Open, Close, Comma

LEMMA RowFits ==
  ASSUME NEW t, NEW u, Before(t, u), NEW p \in Places(t)
  PROVE  Fits(t, p, parse_row(t, p), parse_row(u, p))
<1> DEFINE A(v) == Expect(v, p, <<Open>>)
           B(v, q) == Separated(Each(parse_value, v), Comma, v, q)
           C(v, q) == Expect(v, q, <<Close>>)
<1>1. \A v : parse_row(v, p) = LET a == A(v)
                                   b == B(v, a.next)
                                   c == C(v, b.next)
                               IN  IF ~a.ok THEN a ELSE IF ~b.ok THEN b ELSE IF ~c.ok THEN c
                                   ELSE Got(b.node, c.next)
  BY Zenon DEF parse_row, Then
<1>2. Fits(t, p, A(t), A(u))
  BY ExpectFits, Shapes, NotNone
<1>3. \A q \in Places(t) : Fits(t, q, B(t, q), B(u, q))
  <2>1. \A q \in Places(t) : Fits(t, q, Each(parse_value, t)[q], Each(parse_value, u)[q])
    BY ValueFits, AtIs DEF Each
  <2>2. \A q \in Places(u) : Fits(u, q, Each(parse_value, u)[q], Each(parse_value, u)[q])
    BY ValueFits, SelfBefore DEF Each
  <2>3. QED BY <2>1, <2>2, SeparatedFits, NotNone
<1>4. \A q \in Places(t) : Fits(t, q, C(t, q), C(u, q))
  BY ExpectFits, Shapes, NotNone
<1> HIDE DEF A, B, C
<1>5. QED
  BY <1>1, <1>2, <1>3, <1>4, ResultIs, AtIs, SMTT(30) DEF Fits, Places

LEMMA CmpFits ==
  ASSUME NEW t, NEW u, Before(t, u), NEW p \in Places(t)
  PROVE  Fits(t, p, parse_cmp_op(t, p), parse_cmp_op(u, p))
  BY OneOfFits, Zenon DEF parse_cmp_op

LEMMA ColumnRefFits ==
  ASSUME NEW t, NEW u, Before(t, u), NEW p \in Places(t)
  PROVE  /\ Fits(t, p, parse_column_ref(t, p), parse_column_ref(u, p))
         /\ parse_column_ref(t, p).ok => parse_column_ref(t, p).next >= p + 1
<1> DEFINE A(v) == Expect(v, p, <<Name>>)
           B(v, q) == Expect(v, q, <<Name>>)
           W(v) == parse_column_ref(v, p)
<1>1. \A v : W(v) = LET a == A(v)
                        b == B(v, a.next + 1)
                    IN  IF ~a.ok THEN a ELSE IF At(v, a.next) # Sign(".") THEN Got(Bare(a.node[1]), a.next)
                        ELSE IF ~b.ok THEN b
                        ELSE Got([table |-> a.node[1], column |-> b.node[1]], b.next)
  BY Zenon DEF parse_column_ref, Then
<1>2. Fits(t, p, A(t), A(u)) /\ (A(t).ok => A(t).next \in p + 1 .. Len(t) + 1)
  BY ExpectFits, Shapes, NotNone
<1>3. \A q \in Places(t) : Fits(t, q, B(t, q), B(u, q))
  BY ExpectFits, Shapes, NotNone
<1>4. \A q \in Places(t) : At(t, q) = Sign(".") => q + 1 \in Places(t) /\ q <= Len(t)
  BY AtIs, NotNone
<1>5. \A q \in Places(t) : q <= Len(t) => At(u, q) = At(t, q)
  BY AtIs
<1>6. Len(t) \in Nat /\ p \in 1 .. Len(t) + 1
  BY AtIs
<1> HIDE DEF A, B, W
<1>7. SUFFICES ASSUME W(t).ok PROVE W(t).next \in p + 1 .. Len(t) + 1 /\ (W(t).next <= Len(t) => W(u) = W(t))
  BY <1>6 DEF Fits, W
<1>8. A(t).ok /\ A(t).next \in p + 1 .. Len(t) + 1 /\ A(t).next \in Places(t)
  <2>1. A(t).ok
    BY <1>1, <1>7
  <2>2. A(t).next \in p + 1 .. Len(t) + 1
    BY <1>2, <2>1
  <2>3. QED BY <1>6, <2>1, <2>2 DEF Places
<1>9. CASE At(t, A(t).next) # Sign(".")
  BY <1>1, <1>2, <1>5, <1>8, <1>9, ResultIs DEF Fits
<1>10. CASE At(t, A(t).next) = Sign(".")
  <2> DEFINE b == B(t, A(t).next + 1)
  <2>1. A(t).next + 1 \in Places(t) /\ A(t).next <= Len(t) /\ A(u) = A(t) /\ At(u, A(t).next) = Sign(".")
    BY <1>2, <1>4, <1>5, <1>8, <1>10 DEF Fits
  <2>2. Fits(t, A(t).next + 1, b, B(u, A(t).next + 1))
    BY <1>3, <2>1
  <2>3. W(t) = IF ~b.ok THEN b ELSE Got([table |-> A(t).node[1], column |-> b.node[1]], b.next)
    BY <1>1, <1>8, <1>10
  <2>4. W(u) = LET e == B(u, A(t).next + 1) IN IF ~e.ok THEN e ELSE Got([table |-> A(t).node[1], column |-> e.node[1]], e.next)
    BY <1>1, <1>8, <2>1
  <2> HIDE DEF b
  <2>5. b.ok /\ W(t).next = b.next
    BY <1>7, <2>3, ResultIs
  <2>6. b.next \in A(t).next + 1 .. Len(t) + 1
    BY <2>2, <2>5 DEF Fits
  <2>7. b.next <= Len(t) => B(u, A(t).next + 1) = b
    BY <2>2, <2>5 DEF Fits
  <2>8. QED BY <1>6, <1>8, <2>3, <2>4, <2>5, <2>6, <2>7
<1>11. QED BY <1>9, <1>10

(* One parser after another.                                               *)
LEMMA Chain ==
  ASSUME NEW t, NEW u, Before(t, u), NEW p \in Places(t), NEW a, NEW b, NEW c, NEW d, NEW e,
         Fits(t, p, a, b), a.ok => Fits(t, a.next, c, e), b = a => d = e
  PROVE  Fits(t, p, IF a.ok THEN c ELSE a, IF b.ok THEN d ELSE b)
<1>1. Len(t) \in Nat /\ p \in 1 .. Len(t) + 1
  BY AtIs
<1>2. CASE a.ok
  <2>1. a.next \in p .. Len(t) + 1 /\ (a.next <= Len(t) => b = a)
    BY <1>2 DEF Fits
  <2>2. c.ok => c.next \in a.next .. Len(t) + 1 /\ (c.next <= Len(t) => e = c)
    BY <1>2 DEF Fits
  <2>3. c.ok => c.next \in p .. Len(t) + 1
    BY <1>1, <2>1, <2>2
  <2>4. c.ok /\ c.next <= Len(t) => b = a /\ d = c
    BY <1>1, <2>1, <2>2
  <2>5. QED BY <1>2, <2>3, <2>4 DEF Fits
<1>3. CASE ~a.ok
  BY <1>3 DEF Fits
<1>4. QED BY <1>2, <1>3

LEMMA SelectItemFits ==
  ASSUME NEW t, NEW u, Before(t, u), NEW p \in Places(t)
  PROVE  Fits(t, p, parse_select_item(t, p), parse_select_item(u, p))
<1> DEFINE n == Len(t)
           W(v) == parse_select_item(v, p)
           Func(v) == IF At(v, p + 1) = Open THEN from_name(At(v, p)) ELSE ""
           Plain(v) == IF parse_column_ref(v, p).ok
                       THEN Got([agg |-> "", ref |-> parse_column_ref(v, p).node], parse_column_ref(v, p).next)
                       ELSE parse_column_ref(v, p)
           Arg(v) == IF At(v, p + 2) = Sign("*")
                     THEN IF Func(v) = "COUNT" THEN Got(StarArg, p + 3) ELSE Wrong("syntax", p + 2)
                     ELSE parse_column_ref(v, p + 2)
           Shut(v, f, ref, q) == IF Expect(v, q, <<Close>>).ok
                                 THEN Got([agg |-> f, ref |-> ref], Expect(v, q, <<Close>>).next)
                                 ELSE Expect(v, q, <<Close>>)
           Call(v) == IF Arg(v).ok THEN Shut(v, Func(v), Arg(v).node, Arg(v).next) ELSE Arg(v)
<1>0. n \in Nat /\ p \in 1 .. n + 1
  BY AtIs
<1>1. \A v : W(v) = IF Func(v) = "" THEN Plain(v) ELSE Call(v)
  BY Zenon DEF parse_select_item, Then
<1>2. /\ Fits(t, p, Plain(t), Plain(u))
      /\ Plain(t).ok => Plain(t).next >= p + 1
  <2> DEFINE a(v) == parse_column_ref(v, p)
             M(x) == [agg |-> "", ref |-> x]
  <2>1. \A v : Plain(v) = IF a(v).ok THEN Got(M(a(v).node), a(v).next) ELSE a(v)
    OBVIOUS
  <2>2. Fits(t, p, a(t), a(u)) /\ (a(t).ok => a(t).next >= p + 1)
    BY ColumnRefFits
  <2> HIDE DEF M, a, Plain
  <2>3. QED BY <2>1, <2>2, ResultIs DEF Fits
<1>3. ASSUME p = n + 1 \/ p = n PROVE Func(t) = ""
  <2>1. CASE p = n + 1
    <3>1. from_name(NoToken) = ""
      BY DEF from_name, NoToken
    <3>2. QED BY <2>1, <3>1, AtIs
  <2>2. CASE p = n
    <3>1. At(t, p + 1) = NoToken
      BY <1>0, <2>2 DEF At
    <3>2. QED BY <3>1, NotNone
  <2>3. QED BY <1>3, <2>1, <2>2
<1>4. CASE p = n + 1 \/ p = n
  <2> HIDE DEF W, Func, Plain, Call
  <2>1. W(t) = Plain(t)
    BY <1>1, <1>3, <1>4
  <2>2. Plain(t).ok => Plain(t).next \in p .. n + 1 /\ Plain(t).next >= p + 1
    BY <1>2 DEF Fits
  <2>3. Plain(t).ok => Plain(t).next = n + 1
    BY <1>0, <1>4, <2>2
  <2>4. QED BY <1>0, <1>4, <2>1, <2>2, <2>3 DEF Fits, W
<1>5. CASE p < n
  <2>1. /\ p + 1 \in Places(t) /\ p + 2 \in Places(t) /\ p <= n /\ p + 1 <= n
    BY <1>0, <1>5 DEF Places
  <2>2. Func(u) = Func(t)
    <3>1. At(u, p) = At(t, p) /\ At(u, p + 1) = At(t, p + 1)
      BY <2>1, AtIs
    <3>2. QED BY <3>1
  <2>3. Fits(t, p + 2, Arg(t), Arg(u))
    <3>1. CASE p + 2 <= n
      <4>1. At(u, p + 2) = At(t, p + 2)
        BY <2>1, <3>1, AtIs
      <4>2. CASE At(t, p + 2) = Sign("*")
        <5>1. Arg(u) = Arg(t) /\ (Arg(t).ok => Arg(t).next = p + 3)
          BY <2>2, <4>1, <4>2, ResultIs
        <5> HIDE DEF Arg
        <5>2. QED BY <1>0, <3>1, <5>1 DEF Fits
      <4>3. CASE At(t, p + 2) # Sign("*")
        BY <2>1, <4>1, <4>3, ColumnRefFits
      <4>4. QED BY <4>2, <4>3
    <3>2. CASE p + 2 = n + 1
      <4>1. At(t, p + 2) # Sign("*")
        BY <2>1, <3>2, AtIs, NotNone
      <4>2. Arg(t) = parse_column_ref(t, p + 2)
        BY <4>1
      <4>3. Fits(t, p + 2, parse_column_ref(t, p + 2), parse_column_ref(u, p + 2))
            /\ (parse_column_ref(t, p + 2).ok => parse_column_ref(t, p + 2).next >= p + 2 + 1)
        BY <2>1, ColumnRefFits
      <4>4. ~parse_column_ref(t, p + 2).ok
        BY <1>0, <3>2, <4>3 DEF Fits
      <4>5. QED BY <4>2, <4>4 DEF Fits
    <3>3. QED BY <1>0, <1>5, <3>1, <3>2
  <2>4. ASSUME NEW f, NEW ref, NEW q \in Places(t) PROVE Fits(t, q, Shut(t, f, ref, q), Shut(u, f, ref, q))
    <3>1. Fits(t, q, Expect(t, q, <<Close>>), Expect(u, q, <<Close>>))
      BY ExpectFits, Shapes, NotNone
    <3>2. QED BY <3>1, ResultIs DEF Fits
  <2>5. Arg(t).ok => Arg(t).next \in Places(t)
    <3> HIDE DEF Arg
    <3>1. QED BY <1>0, <2>1, <2>3 DEF Fits, Places
  <2> HIDE DEF Func, Arg, Shut
  <2>6. Fits(t, p + 2, Call(t), Call(u))
    <3> DEFINE e == Shut(u, Func(t), Arg(t).node, Arg(t).next)
    <3>1. Arg(t).ok => Fits(t, Arg(t).next, Shut(t, Func(t), Arg(t).node, Arg(t).next), e)
      BY <2>4, <2>5
    <3>2. Arg(u) = Arg(t) => Shut(u, Func(u), Arg(u).node, Arg(u).next) = e
      BY <2>2
    <3> HIDE DEF e
    <3>3. QED BY <1>0, <2>1, <2>3, <3>1, <3>2 DEF Fits
  <2> HIDE DEF Plain, Call, W
  <2>7. Fits(t, p, Call(t), Call(u))
    BY <1>0, <2>6 DEF Fits
  <2>8. Fits(t, p, W(t), W(u))
    BY <1>1, <1>2, <2>2, <2>7
  <2>9. QED BY <2>8 DEF W
<1>6. QED
  BY <1>0, <1>4, <1>5

LEMMA ComparisonFits ==
  ASSUME NEW t, NEW u, Before(t, u), NEW p \in Places(t)
  PROVE  Fits(t, p, parse_comparison(t, p), parse_comparison(u, p))
<1> DEFINE A(v) == Expect(v, p, <<Name>>)
           B(v, q) == parse_cmp_op(v, q)
           C(v, q) == parse_value(v, q)
           M(x, y, z) == [kind |-> "cmp", column |-> x[1], op |-> y, value |-> z]
<1>1. \A v : parse_comparison(v, p) =
                 LET a == A(v)
                     b == B(v, a.next)
                     c == C(v, b.next)
                 IN  IF ~a.ok THEN a ELSE IF ~b.ok THEN b ELSE IF ~c.ok THEN c
                     ELSE Got(M(a.node, b.node, c.node), c.next)
  BY Zenon DEF parse_comparison, Then
<1>2. Fits(t, p, A(t), A(u))
  BY ExpectFits, Shapes, NotNone
<1>3. \A q \in Places(t) : Fits(t, q, B(t, q), B(u, q)) /\ Fits(t, q, C(t, q), C(u, q))
  BY CmpFits, ValueFits
<1>4. Len(t) \in Nat /\ p \in 1 .. Len(t) + 1
  BY AtIs
<1> HIDE DEF A, B, C, M
<1>5. QED
  BY <1>1, <1>2, <1>3, <1>4, ResultIs, SMTT(60) DEF Fits, Places

LEMMA HavingComparisonFits ==
  ASSUME NEW t, NEW u, Before(t, u), NEW p \in Places(t)
  PROVE  Fits(t, p, parse_having_comparison(t, p), parse_having_comparison(u, p))
<1> DEFINE A(v) == parse_select_item(v, p)
           B(v, q) == parse_cmp_op(v, q)
           C(v, q) == parse_value(v, q)
           M(x, y, z) == [kind |-> "cmp", item |-> x, op |-> y, value |-> z]
           Plain(x) == x.agg = ""
<1>1. \A v : parse_having_comparison(v, p) =
                 LET a == A(v)
                     b == B(v, a.next)
                     c == C(v, b.next)
                 IN  IF ~a.ok THEN a ELSE IF Plain(a.node) THEN Wrong("syntax", a.next)
                     ELSE IF ~b.ok THEN b ELSE IF ~c.ok THEN c
                     ELSE Got(M(a.node, b.node, c.node), c.next)
  BY Zenon DEF parse_having_comparison, Then
<1>2. Fits(t, p, A(t), A(u))
  BY SelectItemFits
<1>3. \A q \in Places(t) : Fits(t, q, B(t, q), B(u, q)) /\ Fits(t, q, C(t, q), C(u, q))
  BY CmpFits, ValueFits
<1>4. Len(t) \in Nat /\ p \in 1 .. Len(t) + 1
  BY AtIs
<1> HIDE DEF A, B, C, M, Plain
<1>5. QED
  BY <1>1, <1>2, <1>3, <1>4, ResultIs, SMTT(60) DEF Fits, Places

LEMMA HavingAndFits ==
  ASSUME NEW t, NEW u, Before(t, u), NEW p \in Places(t)
  PROVE  Fits(t, p, parse_having_and(t, p), parse_having_and(u, p))
<1> DEFINE A(v) == Separated(Each(parse_having_comparison, v), Keyword("AND"), v, p)
           M(x) == LeftDeep("and", x)
<1>1. \A v : parse_having_and(v, p) = IF A(v).ok THEN Got(M(A(v).node), A(v).next) ELSE A(v)
  BY Zenon DEF parse_having_and, Then
<1>2. Fits(t, p, A(t), A(u))
  <2>1. \A q \in Places(t) : Fits(t, q, Each(parse_having_comparison, t)[q], Each(parse_having_comparison, u)[q])
    BY HavingComparisonFits, AtIs DEF Each
  <2>2. \A q \in Places(u) : Fits(u, q, Each(parse_having_comparison, u)[q], Each(parse_having_comparison, u)[q])
    BY HavingComparisonFits, SelfBefore DEF Each
  <2>3. QED BY <2>1, <2>2, SeparatedFits, NotNone
<1> HIDE DEF A, M
<1>3. QED
  BY <1>1, <1>2, ResultIs DEF Fits

LEMMA HavingOrFits ==
  ASSUME NEW t, NEW u, Before(t, u), NEW p \in Places(t)
  PROVE  Fits(t, p, parse_having_or(t, p), parse_having_or(u, p))
<1> DEFINE A(v) == Separated(Each(parse_having_and, v), Keyword("OR"), v, p)
           M(x) == LeftDeep("or", x)
<1>1. \A v : parse_having_or(v, p) = IF A(v).ok THEN Got(M(A(v).node), A(v).next) ELSE A(v)
  BY Zenon DEF parse_having_or, Then
<1>2. Fits(t, p, A(t), A(u))
  <2>1. \A q \in Places(t) : Fits(t, q, Each(parse_having_and, t)[q], Each(parse_having_and, u)[q])
    BY HavingAndFits, AtIs DEF Each
  <2>2. \A q \in Places(u) : Fits(u, q, Each(parse_having_and, u)[q], Each(parse_having_and, u)[q])
    BY HavingAndFits, SelfBefore DEF Each
  <2>3. QED BY <2>1, <2>2, SeparatedFits, NotNone
<1> HIDE DEF A, M
<1>3. QED
  BY <1>1, <1>2, ResultIs DEF Fits

LEMMA RefsFits ==
  ASSUME NEW t, NEW u, Before(t, u), NEW p \in Places(t)
  PROVE  Fits(t, p, parse_refs(t, p), parse_refs(u, p))
<1>1. \A q \in Places(t) : Fits(t, q, Each(parse_column_ref, t)[q], Each(parse_column_ref, u)[q])
  BY ColumnRefFits, AtIs DEF Each
<1>2. \A q \in Places(u) : Fits(u, q, Each(parse_column_ref, u)[q], Each(parse_column_ref, u)[q])
  BY ColumnRefFits, SelfBefore DEF Each
<1>3. Fits(t, p, Separated(Each(parse_column_ref, t), Comma, t, p), Separated(Each(parse_column_ref, u), Comma, u, p))
  BY <1>1, <1>2, SeparatedFits, NotNone
<1>4. QED
  BY <1>3, Zenon DEF parse_refs

LEMMA ColumnDefFits ==
  ASSUME NEW t, NEW u, Before(t, u), NEW p \in Places(t)
  PROVE  Fits(t, p, parse_column_def(t, p), parse_column_def(u, p))
<1> DEFINE A(v) == Expect(v, p, <<Name, Name>>)
           M(x) == [name |-> x[1], type |-> ColType[Upper[x[2][1]]]]
           Typed(x) == Len(x[2]) = 1 /\ x[2][1] \in Words /\ Upper[x[2][1]] \in DOMAIN ColType
<1>1. \A v : parse_column_def(v, p) =
                 LET a == A(v)
                 IN  IF ~a.ok THEN a ELSE IF ~Typed(a.node) THEN Wrong("syntax", a.next) ELSE Got(M(a.node), a.next)
  BY Zenon DEF parse_column_def, Then
<1>2. Fits(t, p, A(t), A(u))
  BY ExpectFits, Shapes, NotNone
<1>3. Len(t) \in Nat /\ p \in 1 .. Len(t) + 1
  BY AtIs
<1> HIDE DEF A, M, Typed
<1>4. QED
  BY <1>1, <1>2, <1>3, ResultIs, SMTT(60) DEF Fits, Places

LEMMA CreateIndexFits ==
  ASSUME NEW t, NEW u, Before(t, u), NEW p \in Places(t)
  PROVE  Fits(t, p, parse_create_index(t, p), parse_create_index(u, p))
<1> DEFINE A(v) == Expect(v, p, <<Keyword("INDEX"), Name, Keyword("ON"), Name, Open, Name, Close>>)
           M(x) == [kind |-> "create_index", name |-> x[2], table |-> x[4], column |-> x[6]]
<1>1. \A v : parse_create_index(v, p) =
                 LET a == A(v)
                 IN  IF ~a.ok THEN a ELSE Got(M(a.node), a.next)
  BY Zenon DEF parse_create_index, Then
<1>2. Fits(t, p, A(t), A(u))
  BY ExpectFits, Shapes, NotNone
<1>3. Len(t) \in Nat /\ p \in 1 .. Len(t) + 1
  BY AtIs
<1> HIDE DEF A, M
<1>4. QED
  BY <1>1, <1>2, <1>3, ResultIs, SMTT(60) DEF Fits, Places

LEMMA NameFits ==
  ASSUME NEW t, NEW u, Before(t, u), NEW p \in Places(t)
  PROVE  Fits(t, p, parse_name(t, p), parse_name(u, p))
<1> DEFINE A(v) == Expect(v, p, <<Name>>)
           M(x) == x[1]
<1>1. \A v : parse_name(v, p) =
                 LET a == A(v)
                 IN  IF ~a.ok THEN a ELSE Got(M(a.node), a.next)
  BY Zenon DEF parse_name, Then
<1>2. Fits(t, p, A(t), A(u))
  BY ExpectFits, Shapes, NotNone
<1>3. Len(t) \in Nat /\ p \in 1 .. Len(t) + 1
  BY AtIs
<1> HIDE DEF A, M
<1>4. QED
  BY <1>1, <1>2, <1>3, ResultIs, SMTT(60) DEF Fits, Places

LEMMA AssignmentFits ==
  ASSUME NEW t, NEW u, Before(t, u), NEW p \in Places(t)
  PROVE  Fits(t, p, parse_assignment(t, p), parse_assignment(u, p))
<1> DEFINE A(v) == Expect(v, p, <<Name, Sign("=")>>)
           B(v, q) == parse_value(v, q)
           M(x, y) == [column |-> x[1], value |-> y]
<1>1. \A v : parse_assignment(v, p) =
                 LET a == A(v)
                     b == B(v, a.next)
                 IN  IF ~a.ok THEN a ELSE IF ~b.ok THEN b ELSE
                     Got(M(a.node, b.node), b.next)
  BY Zenon DEF parse_assignment, Then
<1>2. Fits(t, p, A(t), A(u))
  BY ExpectFits, Shapes, NotNone
<1>3. \A q \in Places(t) : Fits(t, q, B(t, q), B(u, q))
  BY ValueFits
<1>4. Len(t) \in Nat /\ p \in 1 .. Len(t) + 1
  BY AtIs
<1> HIDE DEF A, B, M
<1>5. QED
  BY <1>1, <1>2, <1>3, <1>4, ResultIs, SMTT(60) DEF Fits, Places

LEMMA InsertFits ==
  ASSUME NEW t, NEW u, Before(t, u), NEW p \in Places(t)
  PROVE  Fits(t, p, parse_insert(t, p), parse_insert(u, p))
<1> DEFINE A(v) == Expect(v, p, <<Keyword("INSERT"), Keyword("INTO"), Name, Open>>)
           B(v, q) == Separated(Each(parse_name, v), Comma, v, q)
           C(v, q) == Expect(v, q, <<Close, Keyword("VALUES")>>)
           D(v, q) == Separated(Each(parse_row, v), Comma, v, q)
           M(x, y, z) == [kind |-> "insert", table |-> x[3], columns |-> y, rows |-> z]
<1>1. \A v : parse_insert(v, p) =
                 LET a == A(v)
                     b == B(v, a.next)
                     c == C(v, b.next)
                     d == D(v, c.next)
                 IN  IF ~a.ok THEN a ELSE IF ~b.ok THEN b ELSE 
                     IF ~c.ok THEN c ELSE IF ~d.ok THEN d ELSE
                     Got(M(a.node, b.node, d.node), d.next)
  BY Zenon DEF parse_insert, Then
<1>2. Fits(t, p, A(t), A(u))
  BY ExpectFits, Shapes, NotNone
<1>3. \A q \in Places(t) : Fits(t, q, B(t, q), B(u, q))
  <2>1. \A q \in Places(t) : Fits(t, q, Each(parse_name, t)[q], Each(parse_name, u)[q])
    BY NameFits, AtIs DEF Each
  <2>2. \A q \in Places(u) : Fits(u, q, Each(parse_name, u)[q], Each(parse_name, u)[q])
    BY NameFits, SelfBefore DEF Each
  <2>3. QED BY <2>1, <2>2, SeparatedFits, NotNone
<1>4. \A q \in Places(t) : Fits(t, q, C(t, q), C(u, q))
  BY ExpectFits, Shapes, NotNone
<1>5. \A q \in Places(t) : Fits(t, q, D(t, q), D(u, q))
  <2>1. \A q \in Places(t) : Fits(t, q, Each(parse_row, t)[q], Each(parse_row, u)[q])
    BY RowFits, AtIs DEF Each
  <2>2. \A q \in Places(u) : Fits(u, q, Each(parse_row, u)[q], Each(parse_row, u)[q])
    BY RowFits, SelfBefore DEF Each
  <2>3. QED BY <2>1, <2>2, SeparatedFits, NotNone
<1>6. Len(t) \in Nat /\ p \in 1 .. Len(t) + 1
  BY AtIs
<1> HIDE DEF A, B, C, D, M
<1>7. QED
  BY <1>1, <1>2, <1>3, <1>4, <1>5, <1>6, ResultIs, SMTT(60) DEF Fits, Places

LEMMA JoinConditionFits ==
  ASSUME NEW t, NEW u, Before(t, u), NEW p \in Places(t)
  PROVE  Fits(t, p, parse_join_condition(t, p), parse_join_condition(u, p))
<1> DEFINE A(v) == Expect(v, p, <<Name, Sign("."), Name, Sign("="), Name, Sign("."), Name>>)
           M(x) == [left |-> [table |-> x[1], column |-> x[3]], right |-> [table |-> x[5], column |-> x[7]]]
<1>1. \A v : parse_join_condition(v, p) =
                 LET a == A(v)
                 IN  IF ~a.ok THEN a ELSE Got(M(a.node), a.next)
  BY Zenon DEF parse_join_condition, Then
<1>2. Fits(t, p, A(t), A(u))
  BY ExpectFits, Shapes, NotNone
<1>3. Len(t) \in Nat /\ p \in 1 .. Len(t) + 1
  BY AtIs
<1> HIDE DEF A, M
<1>4. QED
  BY <1>1, <1>2, <1>3, ResultIs, SMTT(60) DEF Fits, Places

LEMMA ColumnsFits ==
  ASSUME NEW t, NEW u, Before(t, u), NEW p \in Places(t)
  PROVE  Fits(t, p, parse_columns(t, p), parse_columns(u, p))
<1> DEFINE A(v) == Separated(Each(parse_select_item, v), Comma, v, p)
           W(v) == parse_columns(v, p)
<1>1. \A v : W(v) = IF At(v, p) = Sign("*") THEN Got(Star, p + 1) ELSE A(v)
  BY Zenon DEF parse_columns
<1>2. Fits(t, p, A(t), A(u))
  <2>1. \A q \in Places(t) : Fits(t, q, Each(parse_select_item, t)[q], Each(parse_select_item, u)[q])
    BY SelectItemFits, AtIs DEF Each
  <2>2. \A q \in Places(u) : Fits(u, q, Each(parse_select_item, u)[q], Each(parse_select_item, u)[q])
    BY SelectItemFits, SelfBefore DEF Each
  <2>3. QED BY <2>1, <2>2, SeparatedFits, NotNone
<1>3. Len(t) \in Nat /\ p \in 1 .. Len(t) + 1
  BY AtIs
<1> HIDE DEF A, W
<1>4. CASE p <= Len(t)
  <2>1. At(u, p) = At(t, p)
    BY <1>4, AtIs
  <2>2. CASE At(t, p) = Sign("*")
    <3>1. W(u) = W(t) /\ W(t).next = p + 1
      BY <1>1, <2>1, <2>2, ResultIs
    <3>2. QED BY <1>3, <1>4, <3>1 DEF Fits, W
  <2>3. CASE At(t, p) # Sign("*")
    BY <1>1, <1>2, <2>1, <2>3 DEF W
  <2>4. QED BY <2>2, <2>3
<1>5. CASE p = Len(t) + 1
  <2>1. W(t) = A(t)
    BY <1>1, <1>5, AtIs, NotNone
  <2>2. QED BY <1>2, <1>3, <1>5, <2>1 DEF Fits, W
<1>6. QED
  BY <1>3, <1>4, <1>5

LEMMA OrderItemFits ==
  ASSUME NEW t, NEW u, Before(t, u), NEW p \in Places(t)
  PROVE  Fits(t, p, parse_order_item(t, p), parse_order_item(u, p))
<1> DEFINE A(v) == parse_select_item(v, p)
           Kept(x) == IF x.agg = "" THEN [agg |-> "", ref |-> Bare(x.ref.column)] ELSE x
           M(x, tok) == [item |-> Kept(x), desc |-> tok = Keyword("DESC")]
           Way(tok) == tok \in {Keyword("ASC"), Keyword("DESC")}
           W(v) == parse_order_item(v, p)
<1>1. \A v : W(v) = LET a == A(v)
                    IN  IF ~a.ok THEN a
                        ELSE Got(M(a.node, At(v, a.next)), IF Way(At(v, a.next)) THEN a.next + 1 ELSE a.next)
  BY Zenon DEF parse_order_item, Then
<1>2. Fits(t, p, A(t), A(u))
  BY SelectItemFits
<1>3. Len(t) \in Nat /\ p \in 1 .. Len(t) + 1
  BY AtIs
<1>4. \A q \in Places(t) : q <= Len(t) => At(u, q) = At(t, q)
  BY AtIs
<1>5. \A q \in Places(t) : Way(At(t, q)) => q <= Len(t)
  BY AtIs, NotNone
<1> DEFINE a == A(t)
<1> HIDE DEF A, M, Way, W
<1>6. SUFFICES ASSUME W(t).ok PROVE W(t).next \in p .. Len(t) + 1 /\ (W(t).next <= Len(t) => W(u) = W(t))
  BY DEF Fits, W
<1>7. a.ok
  BY <1>1, <1>6
<1>8. a.next \in p .. Len(t) + 1 /\ a.next \in Places(t) /\ (a.next <= Len(t) => A(u) = a)
  BY <1>2, <1>3, <1>7 DEF Fits, Places
<1>9. W(t) = Got(M(a.node, At(t, a.next)), IF Way(At(t, a.next)) THEN a.next + 1 ELSE a.next)
  BY <1>1, <1>7
<1>10. W(t).next = IF Way(At(t, a.next)) THEN a.next + 1 ELSE a.next
  BY <1>9, ResultIs
<1>11. a.next <= Len(t) => W(u) = W(t)
  BY <1>1, <1>4, <1>7, <1>8, <1>9
<1>12. QED
  BY <1>3, <1>5, <1>8, <1>10, <1>11

LEMMA OrdersFits ==
  ASSUME NEW t, NEW u, Before(t, u), NEW p \in Places(t)
  PROVE  Fits(t, p, parse_orders(t, p), parse_orders(u, p))
<1>1. \A q \in Places(t) : Fits(t, q, Each(parse_order_item, t)[q], Each(parse_order_item, u)[q])
  BY OrderItemFits, AtIs DEF Each
<1>2. \A q \in Places(u) : Fits(u, q, Each(parse_order_item, u)[q], Each(parse_order_item, u)[q])
  BY OrderItemFits, SelfBefore DEF Each
<1>3. Fits(t, p, Separated(Each(parse_order_item, t), Comma, t, p), Separated(Each(parse_order_item, u), Comma, u, p))
  BY <1>1, <1>2, SeparatedFits, NotNone
<1>4. QED
  BY <1>3, Zenon DEF parse_orders

LEMMA CreateFits ==
  ASSUME NEW t, NEW u, Before(t, u), NEW p \in Places(t)
  PROVE  Fits(t, p, parse_create(t, p), parse_create(u, p))
<1> DEFINE A(v) == Expect(v, p, <<Keyword("CREATE"), Keyword("TABLE"), Name, Open>>)
           B(v, q) == Separated(Each(parse_column_def, v), Comma, v, q)
           C(v, q) == Expect(v, q, <<Close>>)
           M(x, y) == [kind |-> "create_table", table |-> x[3], columns |-> y]
           Table(v) == LET a == A(v)
                           b == B(v, a.next)
                           c == C(v, b.next)
                       IN  IF ~a.ok THEN a ELSE IF ~b.ok THEN b ELSE IF ~c.ok THEN c
                           ELSE Got(M(a.node, b.node), c.next)
           W(v) == parse_create(v, p)
<1>1. \A v : W(v) = IF At(v, p + 1) = Keyword("INDEX") THEN parse_create_index(v, p + 1) ELSE Table(v)
  BY Zenon DEF parse_create, Then
<1>2. /\ Fits(t, p, A(t), A(u))
      /\ A(t).ok => A(t).next \in p + 1 .. Len(t) + 1 /\ A(t).next = p + 4
  <2>1. Len(<<Keyword("CREATE"), Keyword("TABLE"), Name, Open>>) = 4
    OBVIOUS
  <2>2. QED BY <2>1, ExpectFits, Shapes, NotNone
<1>3. \A q \in Places(t) : Fits(t, q, B(t, q), B(u, q))
  <2>1. \A q \in Places(t) : Fits(t, q, Each(parse_column_def, t)[q], Each(parse_column_def, u)[q])
    BY ColumnDefFits, AtIs DEF Each
  <2>2. \A q \in Places(u) : Fits(u, q, Each(parse_column_def, u)[q], Each(parse_column_def, u)[q])
    BY ColumnDefFits, SelfBefore DEF Each
  <2>3. QED BY <2>1, <2>2, SeparatedFits, NotNone
<1>4. \A q \in Places(t) : Fits(t, q, C(t, q), C(u, q))
  BY ExpectFits, Shapes, NotNone
<1>5. Len(t) \in Nat /\ p \in 1 .. Len(t) + 1
  BY AtIs
<1> HIDE DEF A, B, C, M, W
<1>6. Fits(t, p, Table(t), Table(u))
  BY <1>2, <1>3, <1>4, <1>5, ResultIs, SMTT(60) DEF Fits, Places
<1>7. Table(t).ok => A(t).ok
  OBVIOUS
<1> HIDE DEF Table
<1>8. CASE p + 1 <= Len(t)
  <2>1. p + 1 \in Places(t) /\ At(u, p + 1) = At(t, p + 1)
    BY <1>5, <1>8, AtIs
  <2>2. Fits(t, p + 1, parse_create_index(t, p + 1), parse_create_index(u, p + 1))
    BY <2>1, CreateIndexFits
  <2>3. Fits(t, p, parse_create_index(t, p + 1), parse_create_index(u, p + 1))
    BY <1>5, <2>2 DEF Fits
  <2>4. Fits(t, p, W(t), W(u))
    BY <1>1, <1>6, <2>1, <2>3
  <2>5. QED BY <2>4 DEF W
<1>9. CASE ~(p + 1 <= Len(t))
  <2>1. At(t, p + 1) # Keyword("INDEX")
    BY <1>9, NotNone DEF At
  <2>2. ~Table(t).ok
    BY <1>2, <1>5, <1>7, <1>9
  <2>3. ~W(t).ok
    BY <1>1, <2>1, <2>2
  <2>4. QED BY <2>3 DEF Fits, W
<1>10. QED
  BY <1>8, <1>9

----------------------------------------------------------------------------
(* Expressions.  What is read at a place depends on what is read beyond it. *)

LEMMA SeparatedSame ==
  ASSUME NEW t \in Seq(Token), NEW sep, sep # NoToken, NEW p \in Places(t), NEW i, NEW j,
         \A q \in p .. Len(t) + 1 : j[q] = i[q] /\ Fits(t, q, i[q], i[q])
  PROVE  Separated(i, sep, t, p) = Separated(j, sep, t, p)
<1> DEFINE n == Len(t)
<1>0. n \in Nat /\ p \in 1 .. n + 1
  BY DEF Places
<1>1. \A q \in p .. n + 1 : i[q].ok => i[q].next \in q .. n + 1
  BY DEF Fits
<1>2. \A q \in p .. n + 1 : j[q].ok => j[q].next \in q .. n + 1
  BY <1>1
<1>3. PICK f : /\ \A q \in p .. n + 1 : f[q] = SeparatedAt(f, i, sep, t, q)
               /\ Separated(i, sep, t, p) = f[p]
  BY <1>1, SeparatedIs
<1>4. PICK g : /\ \A q \in p .. n + 1 : g[q] = SeparatedAt(g, j, sep, t, q)
               /\ Separated(j, sep, t, p) = g[p]
  BY <1>2, SeparatedIs
<1> DEFINE T == {q \in 1 .. n + 1 : q >= p => f[q] = g[q]}
<1>5. ASSUME NEW q \in 1 .. n + 1, \A r \in 1 .. n + 1 : r > q => r \in T, q >= p
      PROVE  f[q] = g[q]
  <2>1. f[q] = SeparatedAt(f, i, sep, t, q) /\ g[q] = SeparatedAt(g, j, sep, t, q) /\ j[q] = i[q]
    BY <1>0, <1>3, <1>4, <1>5
  <2>2. CASE i[q].ok /\ At(t, i[q].next) = sep
    <3> DEFINE s == i[q].next + 1
    <3>1. i[q].next \in q .. n + 1 /\ i[q].next # n + 1
      BY <1>0, <1>1, <1>5, <2>2 DEF At
    <3>2. s \in 1 .. n + 1 /\ s > q /\ s >= p
      BY <1>0, <1>5, <3>1
    <3> HIDE DEF s
    <3>3. f[s] = g[s]
      <4>1. s \in T
        <5> HIDE DEF T
        <5>1. QED BY <1>5, <3>2
      <4>2. QED BY <3>2, <4>1
    <3>4. SeparatedAt(f, i, sep, t, q) = SeparatedAt(g, i, sep, t, q)
      BY <3>3, Zenon DEF SeparatedAt, s
    <3>5. SeparatedAt(g, i, sep, t, q) = SeparatedAt(g, j, sep, t, q)
      BY <2>1, Zenon DEF SeparatedAt
    <3>6. QED BY <2>1, <3>4, <3>5
  <2>3. CASE ~(i[q].ok /\ At(t, i[q].next) = sep)
    BY <2>1, <2>3, Zenon DEF SeparatedAt
  <2>4. QED BY <2>2, <2>3
<1>6. \A q \in 1 .. n + 1 : (\A r \in 1 .. n + 1 : r > q => r \in T) => q \in T
  BY <1>5
<1>7. p \in T
  <2> HIDE DEF T, n
  <2>1. QED BY <1>0, <1>6, Descend
<1>8. QED
  BY <1>0, <1>3, <1>4, <1>7

(* f reads expressions among the tokens t and g among those and more, from *)
(* the places beyond p.                                                    *)
Beyond(t, u, p, f, g) == /\ \A q \in Places(t) : q > p => Fits(t, q, f[q], g[q])
                         /\ \A q \in Places(u) : q > p => Fits(u, q, g[q], g[q])

LEMMA PrimaryIs ==
  ASSUME NEW f, NEW t, NEW p
  PROVE  parse_primary(f, t, p) =
             IF At(t, p) # Open THEN parse_comparison(t, p)
             ELSE IF ~f[p + 1].ok THEN f[p + 1]
             ELSE IF ~Expect(t, f[p + 1].next, <<Close>>).ok THEN Expect(t, f[p + 1].next, <<Close>>)
             ELSE Got(f[p + 1].node, Expect(t, f[p + 1].next, <<Close>>).next)
  BY Zenon DEF parse_primary, Then

LEMMA PrimaryFits ==
  ASSUME NEW t, NEW u, Before(t, u), NEW p \in Places(t), NEW f, NEW g, Beyond(t, u, p, f, g)
  PROVE  Fits(t, p, parse_primary(f, t, p), parse_primary(g, u, p))
<1> DEFINE C(v, q) == Expect(v, q, <<Close>>)
           Inside(v, h) == LET a == h[p + 1]
                               c == C(v, a.next)
                           IN  IF ~a.ok THEN a ELSE IF ~c.ok THEN c ELSE Got(a.node, c.next)
           D(v) == parse_comparison(v, p)
<1>1. \A v, h : parse_primary(h, v, p) = IF At(v, p) # Open THEN D(v) ELSE Inside(v, h)
  BY PrimaryIs, Zenon
<1>2. Fits(t, p, D(t), D(u))
  BY ComparisonFits
<1>3. Len(t) \in Nat /\ p \in 1 .. Len(t) + 1
  BY AtIs
<1>4. \A q \in Places(t) : Fits(t, q, C(t, q), C(u, q))
  BY ExpectFits, Shapes, NotNone
<1> HIDE DEF C, D
<1>5. CASE p <= Len(t)
  <2>1. At(u, p) = At(t, p) /\ p + 1 \in Places(t)
    BY <1>5, AtIs
  <2>2. Fits(t, p + 1, f[p + 1], g[p + 1])
    BY <1>3, <2>1 DEF Beyond
  <2>3. Fits(t, p, Inside(t, f), Inside(u, g))
    BY <1>3, <1>4, <1>5, <2>2, ResultIs, SMTT(60) DEF Fits, Places
  <2> HIDE DEF Inside
  <2>4. QED BY <1>1, <1>2, <2>1, <2>3
<1>6. CASE p = Len(t) + 1
  <2>1. parse_primary(f, t, p) = D(t)
    BY <1>1, <1>6, AtIs, NotNone
  <2>2. QED BY <1>2, <1>3, <1>6, <2>1 DEF Fits
<1>7. QED
  BY <1>3, <1>5, <1>6

LEMMA PrimarySame ==
  ASSUME NEW t \in Seq(Token), NEW p \in Places(t), NEW f, NEW g,
         \A q \in Places(t) : q > p => f[q] = g[q]
  PROVE  parse_primary(f, t, p) = parse_primary(g, t, p)
<1>1. Len(t) \in Nat /\ p \in 1 .. Len(t) + 1
  BY DEF Places
<1>2. CASE p <= Len(t)
  <2>1. p + 1 \in Places(t) /\ p + 1 > p
    BY <1>1, <1>2 DEF Places
  <2>2. f[p + 1] = g[p + 1]
    BY <2>1
  <2>3. QED BY <2>2, Zenon DEF parse_primary
<1>3. CASE p = Len(t) + 1
  <2>1. At(t, p) # Open
    BY <1>1, <1>3, NotNone DEF At
  <2>2. QED BY <2>1, Zenon DEF parse_primary
<1>4. QED BY <1>1, <1>2, <1>3

(* The factors of an expression and its terms.                             *)
LEMMA AndFits ==
  ASSUME NEW t, NEW u, Before(t, u), NEW p \in Places(t), NEW f, NEW g, Beyond(t, u, p, f, g)
  PROVE  Fits(t, p, parse_and(f, t, p), parse_and(g, u, p))
<1> DEFINE I(v, h) == [q \in Places(v) |-> parse_primary(h, v, q)]
           A(v, h) == Separated(I(v, h), Keyword("AND"), v, p)
           M(x) == LeftDeep("and", x)
<1>1. \A v, h : parse_and(h, v, p) = IF A(v, h).ok THEN Got(M(A(v, h).node), A(v, h).next) ELSE A(v, h)
  BY Zenon DEF parse_and, Then, Each
<1>2. Fits(t, p, A(t, f), A(u, g))
  <2>1. ASSUME NEW q \in Places(t), q >= p PROVE Fits(t, q, I(t, f)[q], I(u, g)[q])
    <3>1. Beyond(t, u, q, f, g) /\ q \in Places(u)
      BY <2>1, AtIs DEF Beyond, Places, Before
    <3>2. QED BY <3>1, PrimaryFits
  <2>2. ASSUME NEW q \in Places(u), q >= p PROVE Fits(u, q, I(u, g)[q], I(u, g)[q])
    <3>1. Before(u, u) /\ Beyond(u, u, q, g, g)
      BY <2>2, AtIs, SelfBefore DEF Beyond, Places, Before
    <3>2. QED BY <3>1, PrimaryFits
  <2> HIDE DEF I
  <2>3. QED BY <2>1, <2>2, SeparatedFits, NotNone
<1> HIDE DEF A, M
<1>3. QED
  BY <1>1, <1>2, ResultIs DEF Fits

LEMMA AndSame ==
  ASSUME NEW t \in Seq(Token), NEW p \in Places(t), NEW f, NEW g, Beyond(t, t, p, f, f),
         \A q \in Places(t) : q > p => f[q] = g[q]
  PROVE  parse_and(f, t, p) = parse_and(g, t, p)
<1> DEFINE I(h) == [q \in Places(t) |-> parse_primary(h, t, q)]
           A(h) == Separated(I(h), Keyword("AND"), t, p)
<1>1. \A h : parse_and(h, t, p) = IF A(h).ok THEN Got(LeftDeep("and", A(h).node), A(h).next) ELSE A(h)
  BY Zenon DEF parse_and, Then, Each
<1>2. Len(t) \in Nat /\ p \in 1 .. Len(t) + 1 /\ Before(t, t)
  BY DEF Before, Places
<1>3. ASSUME NEW q \in p .. Len(t) + 1 PROVE I(g)[q] = I(f)[q] /\ Fits(t, q, I(f)[q], I(f)[q])
  <2>1. q \in Places(t) /\ Beyond(t, t, q, f, f) /\ \A r \in Places(t) : r > q => f[r] = g[r]
    BY <1>2 DEF Beyond, Places
  <2>2. QED BY <1>2, <2>1, PrimaryFits, PrimarySame
<1> HIDE DEF I
<1>4. A(f) = A(g)
  BY <1>3, SeparatedSame, NotNone
<1> HIDE DEF A
<1>5. QED
  BY <1>1, <1>4

LEMMA OrFits ==
  ASSUME NEW t, NEW u, Before(t, u), NEW p \in Places(t), NEW f, NEW g, Beyond(t, u, p, f, g)
  PROVE  Fits(t, p, parse_or(f, t, p), parse_or(g, u, p))
<1> DEFINE I(v, h) == [q \in Places(v) |-> parse_and(h, v, q)]
           A(v, h) == Separated(I(v, h), Keyword("OR"), v, p)
           M(x) == LeftDeep("or", x)
<1>1. \A v, h : parse_or(h, v, p) = IF A(v, h).ok THEN Got(M(A(v, h).node), A(v, h).next) ELSE A(v, h)
  BY Zenon DEF parse_or, Then, Each
<1>2. Fits(t, p, A(t, f), A(u, g))
  <2>1. ASSUME NEW q \in Places(t), q >= p PROVE Fits(t, q, I(t, f)[q], I(u, g)[q])
    <3>1. Beyond(t, u, q, f, g) /\ q \in Places(u)
      BY <2>1, AtIs DEF Beyond, Places, Before
    <3>2. QED BY <3>1, AndFits
  <2>2. ASSUME NEW q \in Places(u), q >= p PROVE Fits(u, q, I(u, g)[q], I(u, g)[q])
    <3>1. Before(u, u) /\ Beyond(u, u, q, g, g)
      BY <2>2, AtIs, SelfBefore DEF Beyond, Places, Before
    <3>2. QED BY <3>1, AndFits
  <2> HIDE DEF I
  <2>3. QED BY <2>1, <2>2, SeparatedFits, NotNone
<1> HIDE DEF A, M
<1>3. QED
  BY <1>1, <1>2, ResultIs DEF Fits

LEMMA OrSame ==
  ASSUME NEW t \in Seq(Token), NEW p \in Places(t), NEW f, NEW g, Beyond(t, t, p, f, f),
         \A q \in Places(t) : q > p => f[q] = g[q]
  PROVE  parse_or(f, t, p) = parse_or(g, t, p)
<1> DEFINE I(h) == [q \in Places(t) |-> parse_and(h, t, q)]
           A(h) == Separated(I(h), Keyword("OR"), t, p)
<1>1. \A h : parse_or(h, t, p) = IF A(h).ok THEN Got(LeftDeep("or", A(h).node), A(h).next) ELSE A(h)
  BY Zenon DEF parse_or, Then, Each
<1>2. Len(t) \in Nat /\ p \in 1 .. Len(t) + 1 /\ Before(t, t)
  BY DEF Before, Places
<1>3. ASSUME NEW q \in p .. Len(t) + 1 PROVE I(g)[q] = I(f)[q] /\ Fits(t, q, I(f)[q], I(f)[q])
  <2>1. q \in Places(t) /\ Beyond(t, t, q, f, f) /\ \A r \in Places(t) : r > q => f[r] = g[r]
    BY <1>2 DEF Beyond, Places
  <2>2. QED BY <1>2, <2>1, AndFits, AndSame
<1> HIDE DEF I
<1>4. A(f) = A(g)
  BY <1>3, SeparatedSame, NotNone
<1> HIDE DEF A
<1>5. QED
  BY <1>1, <1>4

LEMMA ExprIs ==
  ASSUME NEW t \in Seq(Token)
  PROVE  \E F : /\ \A q \in Places(t) : F[q] = parse_or(F, t, q) /\ parse_expr(t, q) = F[q]
                /\ \A q \in Places(t) : Fits(t, q, F[q], F[q])
<1> DEFINE n == Len(t)
           D == Places(t)
           B(f, q) == parse_or(f, t, q)
<1>0. n \in Nat /\ D = 1 .. n + 1 /\ Before(t, t)
  BY DEF Places, Before
<1>1. ASSUME NEW f, NEW g, NEW q \in D, \A r \in D : r > q => f[r] = g[r] /\ Fits(t, r, f[r], f[r])
      PROVE  B(f, q) = B(g, q) /\ Fits(t, q, B(f, q), B(f, q))
  <2>1. Beyond(t, t, q, f, f)
    BY <1>1 DEF Beyond
  <2>2. QED BY <1>0, <1>1, <2>1, OrFits, OrSame
<1> DEFINE F == CHOOSE f : f = [q \in D |-> B(f, q)]
<1>2. \A p : parse_expr(t, p) = F[p]
  BY Zenon DEF parse_expr
<1> HIDE DEF B, D, F
<1> DEFINE T == {k \in 0 .. n + 1 : \E g : \A q \in D : q > n + 1 - k => /\ g[q] = B(g, q)
                                                                      /\ Fits(t, q, g[q], g[q])}
<1>3. 0 \in T
  BY <1>0
<1>4. ASSUME NEW k \in 1 .. n + 1, k - 1 \in T PROVE k \in T
  <2>1. PICK g : \A q \in D : q > n + 1 - (k - 1) => g[q] = B(g, q) /\ Fits(t, q, g[q], g[q])
    BY <1>4
  <2> DEFINE h == [q \in D |-> B(g, q)]
  <2>2. ASSUME NEW q \in D, q > n + 1 - k PROVE h[q] = B(h, q) /\ Fits(t, q, h[q], h[q])
    <3>1. \A r \in D : r > q => g[r] = h[r] /\ Fits(t, r, g[r], g[r])
      BY <1>0, <2>1, <2>2
    <3> HIDE DEF h
    <3>2. B(g, q) = B(h, q) /\ Fits(t, q, B(g, q), B(g, q))
      BY <1>1, <3>1
    <3>3. h[q] = B(g, q)
      BY DEF h
    <3>4. QED BY <3>2, <3>3
  <2> HIDE DEF h
  <2>3. QED BY <1>0, <2>2
<1>5. n + 1 \in T
  <2> HIDE DEF T
  <2>1. QED BY <1>0, <1>3, <1>4, Climb
<1>6. PICK g : \A q \in D : g[q] = B(g, q) /\ Fits(t, q, g[q], g[q])
  BY <1>0, <1>5
<1> DEFINE h == [q \in D |-> B(g, q)]
<1>7. h = [q \in D |-> B(h, q)]
  <2>1. ASSUME NEW q \in D PROVE B(h, q) = B(g, q)
    <3>1. \A r \in D : r > q => g[r] = h[r] /\ Fits(t, r, g[r], g[r])
      BY <1>6
    <3> HIDE DEF h
    <3>2. QED BY <1>1, <3>1
  <2>2. QED BY <2>1
<1>8. F = [q \in D |-> B(F, q)]
  <2> HIDE DEF h
  <2>1. QED BY <1>7, Zenon DEF F
<1>9. \A q \in D : F[q] = B(F, q)
  BY <1>8
<1>10. ASSUME NEW q \in 1 .. n + 1, \A r \in 1 .. n + 1 : r > q => Fits(t, r, F[r], F[r])
       PROVE  Fits(t, q, F[q], F[q])
  BY <1>0, <1>1, <1>9, <1>10
<1> DEFINE S == {q \in 1 .. n + 1 : Fits(t, q, F[q], F[q])}
<1>11. \A q \in 1 .. n + 1 : (\A r \in 1 .. n + 1 : r > q => r \in S) => q \in S
  BY <1>10
<1>12. \A q \in 1 .. n + 1 : q \in S
  <2> HIDE DEF S, n
  <2>1. QED BY <1>0, <1>11, Descend
<1>13. QED
  BY <1>0, <1>2, <1>9, <1>12 DEF B, D

LEMMA ExprFits ==
  ASSUME NEW t, NEW u, Before(t, u), NEW p \in Places(t)
  PROVE  Fits(t, p, parse_expr(t, p), parse_expr(u, p))
<1> DEFINE n == Len(t)
<1>0. t \in Seq(Token) /\ u \in Seq(Token) /\ n \in Nat /\ p \in 1 .. n + 1 /\ Places(t) = 1 .. n + 1
  BY DEF Before, Places
<1>1. PICK F : \A q \in Places(t) : F[q] = parse_or(F, t, q) /\ parse_expr(t, q) = F[q]
  BY <1>0, ExprIs
<1>2. PICK G : /\ \A q \in Places(u) : G[q] = parse_or(G, u, q) /\ parse_expr(u, q) = G[q]
               /\ \A q \in Places(u) : Fits(u, q, G[q], G[q])
  BY <1>0, ExprIs
<1> DEFINE T == {q \in 1 .. n + 1 : Fits(t, q, F[q], G[q])}
<1>3. ASSUME NEW q \in 1 .. n + 1, \A r \in 1 .. n + 1 : r > q => Fits(t, r, F[r], G[r])
      PROVE  Fits(t, q, F[q], G[q])
  <2>1. q \in Places(t) /\ q \in Places(u) /\ Beyond(t, u, q, F, G)
    BY <1>0, <1>2, <1>3, AtIs DEF Beyond
  <2>2. Fits(t, q, parse_or(F, t, q), parse_or(G, u, q))
    BY <2>1, OrFits
  <2>3. QED BY <1>1, <1>2, <2>1, <2>2
<1>4. \A q \in 1 .. n + 1 : (\A r \in 1 .. n + 1 : r > q => r \in T) => q \in T
  BY <1>3
<1>5. p \in T
  <2> HIDE DEF T, n
  <2>1. QED BY <1>0, <1>4, Descend
<1>6. p \in Places(u)
  BY AtIs
<1>7. QED
  BY <1>1, <1>2, <1>5, <1>6

----------------------------------------------------------------------------
(* Clauses that may be missing, and the statements.                        *)

LEMMA ClauseFits ==
  ASSUME NEW t, NEW u, Before(t, u), NEW p \in Places(t), NEW word, word # NoToken, NEW none,
         NEW c, NEW d, Fits(t, p, c, d), NEW r, r = IF At(t, p) # word THEN Got(none, p) ELSE c,
         NEW s, s = IF At(u, p) # word THEN Got(none, p) ELSE d
  PROVE  Fits(t, p, r, s)
<1>1. Len(t) \in Nat /\ p \in 1 .. Len(t) + 1
  BY AtIs
<1>2. CASE p <= Len(t)
  <2>1. At(u, p) = At(t, p)
    BY <1>2, AtIs
  <2>2. Got(none, p).next = p
    BY ResultIs
  <2>3. QED BY <1>1, <1>2, <2>1, <2>2 DEF Fits
<1>3. CASE p = Len(t) + 1
  <2>1. At(t, p) # word
    BY <1>3, AtIs
  <2>2. r = Got(none, p) /\ Got(none, p).next = p
    BY <2>1, ResultIs
  <2>3. QED BY <1>1, <1>3, <2>2 DEF Fits
<1>4. QED
  BY <1>1, <1>2, <1>3

LEMMA WhereFits ==
  ASSUME NEW t, NEW u, Before(t, u), NEW p \in Places(t)
  PROVE  Fits(t, p, parse_where(t, p),
                    parse_where(u, p))
<1> DEFINE A(v) == Expect(v, p, <<Keyword("WHERE")>>)
           B(v, q) == parse_expr(v, q)
           C(v) == IF ~A(v).ok THEN A(v) ELSE B(v, A(v).next)
           W(v) == parse_where(v, p)
<1>1. \A v : W(v) = IF At(v, p) # Keyword("WHERE") THEN Got(NoWhere, p) ELSE C(v)
  <2>1. Head(<<Keyword("WHERE")>>) = Keyword("WHERE")
    OBVIOUS
  <2>2. \A v : W(v) = IF At(v, p) # Head(<<Keyword("WHERE")>>) THEN Got(NoWhere, p) ELSE C(v)
    BY Zenon DEF parse_where, Optional, Then
  <2>3. QED BY <2>1, <2>2, Zenon
<1>2. Fits(t, p, A(t), A(u)) /\ \A q \in Places(t) : Fits(t, q, B(t, q), B(u, q))
  BY ExprFits, ExpectFits, Shapes, NotNone
<1>3. Len(t) \in Nat /\ p \in 1 .. Len(t) + 1
  BY AtIs
<1> HIDE DEF A, B, W
<1>4. Fits(t, p, C(t), C(u))
  BY <1>2, <1>3 DEF Fits, Places
<1> HIDE DEF C
<1>5. Fits(t, p, W(t), W(u))
  BY <1>1, <1>4, ClauseFits, NotNone
<1>6. QED
  BY <1>5 DEF W

LEMMA GroupFits ==
  ASSUME NEW t, NEW u, Before(t, u), NEW p \in Places(t)
  PROVE  Fits(t, p, Optional(<<Keyword("GROUP"), Keyword("BY")>>, parse_refs, <<>>, t, p),
                    Optional(<<Keyword("GROUP"), Keyword("BY")>>, parse_refs, <<>>, u, p))
<1> DEFINE A(v) == Expect(v, p, <<Keyword("GROUP"), Keyword("BY")>>)
           B(v, q) == parse_refs(v, q)
           C(v) == IF ~A(v).ok THEN A(v) ELSE B(v, A(v).next)
           W(v) == Optional(<<Keyword("GROUP"), Keyword("BY")>>, parse_refs, <<>>, v, p)
<1>1. \A v : W(v) = IF At(v, p) # Keyword("GROUP") THEN Got(<<>>, p) ELSE C(v)
  <2>1. Head(<<Keyword("GROUP"), Keyword("BY")>>) = Keyword("GROUP")
    OBVIOUS
  <2>2. \A v : W(v) = IF At(v, p) # Head(<<Keyword("GROUP"), Keyword("BY")>>) THEN Got(<<>>, p) ELSE C(v)
    BY Zenon DEF Optional, Then
  <2>3. QED BY <2>1, <2>2, Zenon
<1>2. Fits(t, p, A(t), A(u)) /\ \A q \in Places(t) : Fits(t, q, B(t, q), B(u, q))
  BY RefsFits, ExpectFits, Shapes, NotNone
<1>3. Len(t) \in Nat /\ p \in 1 .. Len(t) + 1
  BY AtIs
<1> HIDE DEF A, B, W
<1>4. Fits(t, p, C(t), C(u))
  BY <1>2, <1>3 DEF Fits, Places
<1> HIDE DEF C
<1>5. Fits(t, p, W(t), W(u))
  BY <1>1, <1>4, ClauseFits, NotNone
<1>6. QED
  BY <1>5 DEF W

LEMMA HavingFits ==
  ASSUME NEW t, NEW u, Before(t, u), NEW p \in Places(t)
  PROVE  Fits(t, p, Optional(<<Keyword("HAVING")>>, parse_having_or, NoHaving, t, p),
                    Optional(<<Keyword("HAVING")>>, parse_having_or, NoHaving, u, p))
<1> DEFINE A(v) == Expect(v, p, <<Keyword("HAVING")>>)
           B(v, q) == parse_having_or(v, q)
           C(v) == IF ~A(v).ok THEN A(v) ELSE B(v, A(v).next)
           W(v) == Optional(<<Keyword("HAVING")>>, parse_having_or, NoHaving, v, p)
<1>1. \A v : W(v) = IF At(v, p) # Keyword("HAVING") THEN Got(NoHaving, p) ELSE C(v)
  <2>1. Head(<<Keyword("HAVING")>>) = Keyword("HAVING")
    OBVIOUS
  <2>2. \A v : W(v) = IF At(v, p) # Head(<<Keyword("HAVING")>>) THEN Got(NoHaving, p) ELSE C(v)
    BY Zenon DEF Optional, Then
  <2>3. QED BY <2>1, <2>2, Zenon
<1>2. Fits(t, p, A(t), A(u)) /\ \A q \in Places(t) : Fits(t, q, B(t, q), B(u, q))
  BY HavingOrFits, ExpectFits, Shapes, NotNone
<1>3. Len(t) \in Nat /\ p \in 1 .. Len(t) + 1
  BY AtIs
<1> HIDE DEF A, B, W
<1>4. Fits(t, p, C(t), C(u))
  BY <1>2, <1>3 DEF Fits, Places
<1> HIDE DEF C
<1>5. Fits(t, p, W(t), W(u))
  BY <1>1, <1>4, ClauseFits, NotNone
<1>6. QED
  BY <1>5 DEF W

LEMMA OrderFits ==
  ASSUME NEW t, NEW u, Before(t, u), NEW p \in Places(t)
  PROVE  Fits(t, p, Optional(<<Keyword("ORDER"), Keyword("BY")>>, parse_orders, <<>>, t, p),
                    Optional(<<Keyword("ORDER"), Keyword("BY")>>, parse_orders, <<>>, u, p))
<1> DEFINE A(v) == Expect(v, p, <<Keyword("ORDER"), Keyword("BY")>>)
           B(v, q) == parse_orders(v, q)
           C(v) == IF ~A(v).ok THEN A(v) ELSE B(v, A(v).next)
           W(v) == Optional(<<Keyword("ORDER"), Keyword("BY")>>, parse_orders, <<>>, v, p)
<1>1. \A v : W(v) = IF At(v, p) # Keyword("ORDER") THEN Got(<<>>, p) ELSE C(v)
  <2>1. Head(<<Keyword("ORDER"), Keyword("BY")>>) = Keyword("ORDER")
    OBVIOUS
  <2>2. \A v : W(v) = IF At(v, p) # Head(<<Keyword("ORDER"), Keyword("BY")>>) THEN Got(<<>>, p) ELSE C(v)
    BY Zenon DEF Optional, Then
  <2>3. QED BY <2>1, <2>2, Zenon
<1>2. Fits(t, p, A(t), A(u)) /\ \A q \in Places(t) : Fits(t, q, B(t, q), B(u, q))
  BY OrdersFits, ExpectFits, Shapes, NotNone
<1>3. Len(t) \in Nat /\ p \in 1 .. Len(t) + 1
  BY AtIs
<1> HIDE DEF A, B, W
<1>4. Fits(t, p, C(t), C(u))
  BY <1>2, <1>3 DEF Fits, Places
<1> HIDE DEF C
<1>5. Fits(t, p, W(t), W(u))
  BY <1>1, <1>4, ClauseFits, NotNone
<1>6. QED
  BY <1>5 DEF W

LEMMA LimitFits ==
  ASSUME NEW t, NEW u, Before(t, u), NEW p \in Places(t)
  PROVE  Fits(t, p, Optional(<<Keyword("LIMIT")>>, parse_limit, NoLimit, t, p),
                    Optional(<<Keyword("LIMIT")>>, parse_limit, NoLimit, u, p))
<1> DEFINE A(v) == Expect(v, p, <<Keyword("LIMIT")>>)
           B(v, q) == parse_limit(v, q)
           C(v) == IF ~A(v).ok THEN A(v) ELSE B(v, A(v).next)
           W(v) == Optional(<<Keyword("LIMIT")>>, parse_limit, NoLimit, v, p)
<1>1. \A v : W(v) = IF At(v, p) # Keyword("LIMIT") THEN Got(NoLimit, p) ELSE C(v)
  <2>1. Head(<<Keyword("LIMIT")>>) = Keyword("LIMIT")
    OBVIOUS
  <2>2. \A v : W(v) = IF At(v, p) # Head(<<Keyword("LIMIT")>>) THEN Got(NoLimit, p) ELSE C(v)
    BY Zenon DEF Optional, Then
  <2>3. QED BY <2>1, <2>2, Zenon
<1>2. Fits(t, p, A(t), A(u)) /\ \A q \in Places(t) : Fits(t, q, B(t, q), B(u, q))
  BY LimitValueFits, ExpectFits, Shapes, NotNone
<1>3. Len(t) \in Nat /\ p \in 1 .. Len(t) + 1
  BY AtIs
<1> HIDE DEF A, B, W
<1>4. Fits(t, p, C(t), C(u))
  BY <1>2, <1>3 DEF Fits, Places
<1> HIDE DEF C
<1>5. Fits(t, p, W(t), W(u))
  BY <1>1, <1>4, ClauseFits, NotNone
<1>6. QED
  BY <1>5 DEF W

LEMMA UpdateFits ==
  ASSUME NEW t, NEW u, Before(t, u), NEW p \in Places(t)
  PROVE  Fits(t, p, parse_update(t, p), parse_update(u, p))
<1> DEFINE A(v) == Expect(v, p, <<Keyword("UPDATE"), Name, Keyword("SET")>>)
           B(v, q) == Separated(Each(parse_assignment, v), Comma, v, q)
           C(v, q) == parse_where(v, q)
           M(x, y, z) == [kind |-> "update", table |-> x[2], assignments |-> y, where |-> z]
<1>1. \A v : parse_update(v, p) =
                 LET a == A(v)
                     b == B(v, a.next)
                     c == C(v, b.next)
                 IN  IF ~a.ok THEN a ELSE IF ~b.ok THEN b ELSE 
                     IF ~c.ok THEN c ELSE Got(M(a.node, b.node, c.node), c.next)
  BY Zenon DEF parse_update, Then
<1>2. Fits(t, p, A(t), A(u))
  BY ExpectFits, Shapes, NotNone
<1>3. \A q \in Places(t) : Fits(t, q, B(t, q), B(u, q))
  <2>1. \A q \in Places(t) : Fits(t, q, Each(parse_assignment, t)[q], Each(parse_assignment, u)[q])
    BY AssignmentFits, AtIs DEF Each
  <2>2. \A q \in Places(u) : Fits(u, q, Each(parse_assignment, u)[q], Each(parse_assignment, u)[q])
    BY AssignmentFits, SelfBefore DEF Each
  <2>3. QED BY <2>1, <2>2, SeparatedFits, NotNone
<1>4. \A q \in Places(t) : Fits(t, q, C(t, q), C(u, q))
  BY WhereFits
<1>5. Len(t) \in Nat /\ p \in 1 .. Len(t) + 1
  BY AtIs
<1> HIDE DEF A, B, C, M
<1>6. QED
  BY <1>1, <1>2, <1>3, <1>4, <1>5, ResultIs, SMTT(60) DEF Fits, Places

LEMMA DeleteFits ==
  ASSUME NEW t, NEW u, Before(t, u), NEW p \in Places(t)
  PROVE  Fits(t, p, parse_delete(t, p), parse_delete(u, p))
<1> DEFINE A(v) == Expect(v, p, <<Keyword("DELETE"), Keyword("FROM"), Name>>)
           B(v, q) == parse_where(v, q)
           M(x, y) == [kind |-> "delete", table |-> x[3], where |-> y]
<1>1. \A v : parse_delete(v, p) =
                 LET a == A(v)
                     b == B(v, a.next)
                 IN  IF ~a.ok THEN a ELSE IF ~b.ok THEN b ELSE
                     Got(M(a.node, b.node), b.next)
  BY Zenon DEF parse_delete, Then
<1>2. Fits(t, p, A(t), A(u))
  BY ExpectFits, Shapes, NotNone
<1>3. \A q \in Places(t) : Fits(t, q, B(t, q), B(u, q))
  BY WhereFits
<1>4. Len(t) \in Nat /\ p \in 1 .. Len(t) + 1
  BY AtIs
<1> HIDE DEF A, B, M
<1>5. QED
  BY <1>1, <1>2, <1>3, <1>4, ResultIs, SMTT(60) DEF Fits, Places

----------------------------------------------------------------------------
(* JOIN clauses.                                                           *)

JoinWords == {Keyword("INNER"), Keyword("LEFT"), Keyword("JOIN")}
JoinShape(word) == (IF word = Keyword("JOIN") THEN <<>> ELSE <<word>>)
                   \o <<Keyword("JOIN"), Name, Keyword("ON")>>

LEMMA JoinShapes ==
  ASSUME NEW word, word # NoToken
  PROVE  Shape(JoinShape(word))
<1> DEFINE join == Keyword("JOIN")
           on == Keyword("ON")
<1>1. join # NoToken /\ on # NoToken /\ Name # NoToken
  BY NotNone
<1>2. JoinShape(word) = IF word = join THEN <<>> \o <<join, Name, on>> ELSE <<word>> \o <<join, Name, on>>
  BY Zenon DEF JoinShape
<1> HIDE DEF join, on
<1> DEFINE S == {word, join, Name, on}
           left == IF word = join THEN <<>> ELSE <<word>>
           right == <<join, Name, on>>
<1>3. left \in Seq(S) /\ right \in Seq(S) /\ Len(right) = 3
  OBVIOUS
<1>4. JoinShape(word) = left \o right
  BY <1>2
<1> HIDE DEF left, right
<1>5. /\ JoinShape(word) \in Seq(S) /\ Len(JoinShape(word)) \in Nat
      /\ Len(JoinShape(word)) = Len(left) + 3 /\ Len(left) \in Nat
  <2> HIDE DEF S
  <2>1. left \o right \in Seq(S) /\ Len(left \o right) = Len(left) + Len(right)
    BY <1>3, ConcatProperties, Zenon
  <2>2. Len(left) \in Nat /\ Len(left \o right) \in Nat
    BY <1>3, <2>1
  <2>3. QED BY <1>3, <1>4, <2>1, <2>2, Zenon
<1>6. \A x \in S : x # NoToken
  BY <1>1
<1> HIDE DEF S
<1>7. QED
  BY <1>5, <1>6 DEF Shape

LEMMA JoinIs ==
  ASSUME NEW f, NEW t, NEW p
  PROVE  parse_join(f, t, p) =
             LET a == Expect(t, p, JoinShape(At(t, p)))
                 b == parse_join_condition(t, a.next)
                 c == f[b.next]
             IN  IF At(t, p) \notin JoinWords THEN Got(<<>>, p)
                 ELSE IF ~a.ok THEN a ELSE IF ~b.ok THEN b ELSE IF ~c.ok THEN c
                 ELSE Got(<<[type |-> IF At(t, p) = Keyword("LEFT") THEN "left" ELSE "inner",
                             table |-> a.node[Len(a.node) - 1],
                             left |-> b.node.left, right |-> b.node.right]>> \o c.node, c.next)
  BY Zenon DEF parse_join, Then, JoinShape, JoinWords

LEMMA JoinFits ==
  ASSUME NEW t, NEW u, Before(t, u), NEW p \in Places(t), NEW f, NEW g, Beyond(t, u, p, f, g)
  PROVE  Fits(t, p, parse_join(f, t, p), parse_join(g, u, p))
<1> DEFINE A(v) == Expect(v, p, JoinShape(At(v, p)))
           B(v, q) == parse_join_condition(v, q)
           M(word, x, y, z) == <<[type |-> IF word = Keyword("LEFT") THEN "left" ELSE "inner",
                                  table |-> x[Len(x) - 1], left |-> y.left, right |-> y.right]>> \o z
           More(h, v, word, x, y, q) ==
               LET c == h[q] IN IF c.ok THEN Got(M(word, x, y, c.node), c.next) ELSE c
           On(h, v, word, x, q) ==
               LET b == B(v, q) IN IF b.ok THEN More(h, v, word, x, b.node, b.next) ELSE b
           Clause(h, v) ==
               LET a == A(v) IN IF a.ok THEN On(h, v, At(v, p), a.node, a.next) ELSE a
           W(h, v) == parse_join(h, v, p)
<1>1. \A h, v : W(h, v) = IF At(v, p) \notin JoinWords THEN Got(<<>>, p) ELSE Clause(h, v)
  BY JoinIs, Zenon
<1>2. Len(t) \in Nat /\ p \in 1 .. Len(t) + 1
  BY AtIs
<1>3. NoToken \notin JoinWords
  BY NotNone DEF JoinWords
<1>4. CASE At(t, p) \notin JoinWords
  <2>1. W(f, t) = Got(<<>>, p) /\ Got(<<>>, p).next = p
    BY <1>1, <1>4, ResultIs
  <2>2. p <= Len(t) => W(g, u) = Got(<<>>, p)
    <3>1. p <= Len(t) => At(u, p) = At(t, p)
      BY AtIs
    <3> HIDE DEF W
    <3>2. QED BY <1>1, <1>4, <3>1
  <2> HIDE DEF W
  <2>3. Fits(t, p, W(f, t), W(g, u))
    BY <1>2, <2>1, <2>2 DEF Fits
  <2>4. QED BY <2>3 DEF W
<1>5. CASE At(t, p) \in JoinWords
  <2>1. p <= Len(t) /\ At(u, p) = At(t, p) /\ At(t, p) # NoToken
    BY <1>3, <1>5, AtIs
  <2>2. Fits(t, p, A(t), A(u)) /\ (A(t).ok => A(t).next \in p + 1 .. Len(t) + 1)
    BY <2>1, ExpectFits, JoinShapes
  <2>3. \A q \in Places(t) : Fits(t, q, B(t, q), B(u, q))
    BY JoinConditionFits
  <2>4. \A q \in Places(t) : q > p => Fits(t, q, f[q], g[q])
    BY DEF Beyond
  <2> HIDE DEF A, B, M, W
  <2>5. ASSUME NEW x, NEW y, NEW q \in Places(t), q > p
        PROVE  Fits(t, q, More(f, t, At(t, p), x, y, q), More(g, u, At(t, p), x, y, q))
    BY <2>4, <2>5, ResultIs DEF Fits
  <2> HIDE DEF More
  <2>6. ASSUME NEW x, NEW q \in Places(t), q > p
        PROVE  Fits(t, q, On(f, t, At(t, p), x, q), On(g, u, At(t, p), x, q))
    BY <1>2, <2>3, <2>5, <2>6 DEF Fits, Places
  <2> HIDE DEF On
  <2>7. Fits(t, p, Clause(f, t), Clause(g, u))
    BY <1>2, <2>1, <2>2, <2>6 DEF Fits, Places
  <2> HIDE DEF Clause
  <2>8. W(f, t) = Clause(f, t) /\ W(g, u) = Clause(g, u)
    BY <1>1, <1>5, <2>1
  <2>9. QED BY <2>7, <2>8 DEF W
<1>6. QED
  BY <1>4, <1>5

LEMMA JoinSame ==
  ASSUME NEW t \in Seq(Token), NEW p \in Places(t), NEW f, NEW g,
         \A q \in Places(t) : q > p => f[q] = g[q]
  PROVE  parse_join(f, t, p) = parse_join(g, t, p)
<1> DEFINE a == Expect(t, p, JoinShape(At(t, p)))
           b == parse_join_condition(t, a.next)
<1>1. Len(t) \in Nat /\ p \in 1 .. Len(t) + 1 /\ Before(t, t)
  BY DEF Before, Places
<1>2. CASE At(t, p) \in JoinWords /\ a.ok /\ b.ok
  <2>1. At(t, p) # NoToken
    BY <1>2, NotNone DEF JoinWords
  <2>2. a.next \in p + 1 .. Len(t) + 1
    BY <1>1, <1>2, <2>1, ExpectFits, JoinShapes
  <2>3. a.next \in Places(t)
    BY <1>1, <2>2 DEF Places
  <2>4. Fits(t, a.next, b, b)
    BY <1>1, <2>3, JoinConditionFits
  <2>5. b.next \in Places(t) /\ b.next > p
    <3> HIDE DEF a, b
    <3>1. QED BY <1>1, <1>2, <2>2, <2>4 DEF Fits, Places
  <2>6. f[b.next] = g[b.next]
    BY <2>5
  <2>7. QED BY <2>6, JoinIs, Zenon
<1>3. CASE ~(At(t, p) \in JoinWords /\ a.ok /\ b.ok)
  BY <1>3, JoinIs, Zenon
<1>4. QED BY <1>2, <1>3

LEMMA JoinsIs ==
  ASSUME NEW t \in Seq(Token)
  PROVE  \E F : /\ \A q \in Places(t) : F[q] = parse_join(F, t, q) /\ parse_joins(t, q) = F[q]
                /\ \A q \in Places(t) : Fits(t, q, F[q], F[q])
<1> DEFINE n == Len(t)
           D == Places(t)
           B(f, q) == parse_join(f, t, q)
<1>0. n \in Nat /\ D = 1 .. n + 1 /\ Before(t, t)
  BY DEF Places, Before
<1>1. ASSUME NEW f, NEW g, NEW q \in D, \A r \in D : r > q => f[r] = g[r] /\ Fits(t, r, f[r], f[r])
      PROVE  B(f, q) = B(g, q) /\ Fits(t, q, B(f, q), B(f, q))
  <2>1. Beyond(t, t, q, f, f)
    BY <1>1 DEF Beyond
  <2>2. QED BY <1>0, <1>1, <2>1, JoinFits, JoinSame
<1> DEFINE F == CHOOSE f : f = [q \in D |-> B(f, q)]
<1>2. \A p : parse_joins(t, p) = F[p]
  BY Zenon DEF parse_joins
<1> HIDE DEF B, D, F
<1> DEFINE T == {k \in 0 .. n + 1 : \E g : \A q \in D : q > n + 1 - k => /\ g[q] = B(g, q)
                                                                      /\ Fits(t, q, g[q], g[q])}
<1>3. 0 \in T
  BY <1>0
<1>4. ASSUME NEW k \in 1 .. n + 1, k - 1 \in T PROVE k \in T
  <2>1. PICK g : \A q \in D : q > n + 1 - (k - 1) => g[q] = B(g, q) /\ Fits(t, q, g[q], g[q])
    BY <1>4
  <2> DEFINE h == [q \in D |-> B(g, q)]
  <2>2. ASSUME NEW q \in D, q > n + 1 - k PROVE h[q] = B(h, q) /\ Fits(t, q, h[q], h[q])
    <3>1. \A r \in D : r > q => g[r] = h[r] /\ Fits(t, r, g[r], g[r])
      BY <1>0, <2>1, <2>2
    <3> HIDE DEF h
    <3>2. B(g, q) = B(h, q) /\ Fits(t, q, B(g, q), B(g, q))
      BY <1>1, <3>1
    <3>3. h[q] = B(g, q)
      BY DEF h
    <3>4. QED BY <3>2, <3>3
  <2> HIDE DEF h
  <2>3. QED BY <1>0, <2>2
<1>5. n + 1 \in T
  <2> HIDE DEF T
  <2>1. QED BY <1>0, <1>3, <1>4, Climb
<1>6. PICK g : \A q \in D : g[q] = B(g, q) /\ Fits(t, q, g[q], g[q])
  BY <1>0, <1>5
<1> DEFINE h == [q \in D |-> B(g, q)]
<1>7. h = [q \in D |-> B(h, q)]
  <2>1. ASSUME NEW q \in D PROVE B(h, q) = B(g, q)
    <3>1. \A r \in D : r > q => g[r] = h[r] /\ Fits(t, r, g[r], g[r])
      BY <1>6
    <3> HIDE DEF h
    <3>2. QED BY <1>1, <3>1
  <2>2. QED BY <2>1
<1>8. F = [q \in D |-> B(F, q)]
  <2> HIDE DEF h
  <2>1. QED BY <1>7, Zenon DEF F
<1>9. \A q \in D : F[q] = B(F, q)
  BY <1>8
<1>10. ASSUME NEW q \in 1 .. n + 1, \A r \in 1 .. n + 1 : r > q => Fits(t, r, F[r], F[r])
       PROVE  Fits(t, q, F[q], F[q])
  BY <1>0, <1>1, <1>9, <1>10
<1> DEFINE S == {q \in 1 .. n + 1 : Fits(t, q, F[q], F[q])}
<1>11. \A q \in 1 .. n + 1 : (\A r \in 1 .. n + 1 : r > q => r \in S) => q \in S
  BY <1>10
<1>12. \A q \in 1 .. n + 1 : q \in S
  <2> HIDE DEF S, n
  <2>1. QED BY <1>0, <1>11, Descend
<1>13. QED
  BY <1>0, <1>2, <1>9, <1>12 DEF B, D

LEMMA JoinsFits ==
  ASSUME NEW t, NEW u, Before(t, u), NEW p \in Places(t)
  PROVE  Fits(t, p, parse_joins(t, p), parse_joins(u, p))
<1> DEFINE n == Len(t)
<1>0. t \in Seq(Token) /\ u \in Seq(Token) /\ n \in Nat /\ p \in 1 .. n + 1 /\ Places(t) = 1 .. n + 1
  BY DEF Before, Places
<1>1. PICK F : \A q \in Places(t) : F[q] = parse_join(F, t, q) /\ parse_joins(t, q) = F[q]
  BY <1>0, JoinsIs
<1>2. PICK G : /\ \A q \in Places(u) : G[q] = parse_join(G, u, q) /\ parse_joins(u, q) = G[q]
               /\ \A q \in Places(u) : Fits(u, q, G[q], G[q])
  BY <1>0, JoinsIs
<1> DEFINE T == {q \in 1 .. n + 1 : Fits(t, q, F[q], G[q])}
<1>3. ASSUME NEW q \in 1 .. n + 1, \A r \in 1 .. n + 1 : r > q => Fits(t, r, F[r], G[r])
      PROVE  Fits(t, q, F[q], G[q])
  <2>1. q \in Places(t) /\ q \in Places(u) /\ Beyond(t, u, q, F, G)
    BY <1>0, <1>2, <1>3, AtIs DEF Beyond
  <2>2. Fits(t, q, parse_join(F, t, q), parse_join(G, u, q))
    BY <2>1, JoinFits
  <2>3. QED BY <1>1, <1>2, <2>1, <2>2
<1>4. \A q \in 1 .. n + 1 : (\A r \in 1 .. n + 1 : r > q => r \in T) => q \in T
  BY <1>3
<1>5. p \in T
  <2> HIDE DEF T, n
  <2>1. QED BY <1>0, <1>4, Descend
<1>6. p \in Places(u)
  BY AtIs
<1>7. QED
  BY <1>1, <1>2, <1>5, <1>6

(* The clauses of SELECT, from the last one back to the first.             *)
LEMMA SelectFits ==
  ASSUME NEW t, NEW u, Before(t, u), NEW p \in Places(t)
  PROVE  Fits(t, p, parse_select(t, p), parse_select(u, p))
<1> DEFINE A(v) == Expect(v, p, <<Keyword("SELECT")>>)
           B(v, q) == parse_columns(v, q)
           C(v, q) == Expect(v, q, <<Keyword("FROM"), Name>>)
           D(v, q) == parse_joins(v, q)
           E(v, q) == parse_where(v, q)
           F(v, q) == Optional(<<Keyword("GROUP"), Keyword("BY")>>, parse_refs, <<>>, v, q)
           G(v, q) == Optional(<<Keyword("HAVING")>>, parse_having_or, NoHaving, v, q)
           H(v, q) == Optional(<<Keyword("ORDER"), Keyword("BY")>>, parse_orders, <<>>, v, q)
           I(v, q) == Optional(<<Keyword("LIMIT")>>, parse_limit, NoLimit, v, q)
           M(b, c, d, e, f, g, h, i) ==
               [kind |-> "select", table |-> c[2], columns |-> b, joins |-> d, where |-> e,
                group_by |-> f, having |-> g, order_by |-> h, limit |-> i]
           Limit(v, b, c, d, e, f, g, h, q) ==
               LET i == I(v, q) IN IF i.ok THEN Got(M(b, c, d, e, f, g, h, i.node), i.next) ELSE i
           Order(v, b, c, d, e, f, g, q) ==
               LET h == H(v, q) IN IF h.ok THEN Limit(v, b, c, d, e, f, g, h.node, h.next) ELSE h
           Having(v, b, c, d, e, f, q) ==
               LET g == G(v, q) IN IF g.ok THEN Order(v, b, c, d, e, f, g.node, g.next) ELSE g
           Group(v, b, c, d, e, q) ==
               LET f == F(v, q) IN IF f.ok THEN Having(v, b, c, d, e, f.node, f.next) ELSE f
           Where(v, b, c, d, q) ==
               LET e == E(v, q) IN IF e.ok THEN Group(v, b, c, d, e.node, e.next) ELSE e
           Joins(v, b, c, q) ==
               LET d == D(v, q) IN IF d.ok THEN Where(v, b, c, d.node, d.next) ELSE d
           From(v, b, q) ==
               LET c == C(v, q) IN IF c.ok THEN Joins(v, b, c.node, c.next) ELSE c
           Columns(v, q) ==
               LET b == B(v, q) IN IF b.ok THEN From(v, b.node, b.next) ELSE b
           W(v) == parse_select(v, p)
<1>1. \A v : W(v) = LET a == A(v) IN IF a.ok THEN Columns(v, a.next) ELSE a
  BY Zenon DEF parse_select, Then
<1>2. Len(t) \in Nat /\ p \in 1 .. Len(t) + 1
  BY AtIs
<1>3. Fits(t, p, A(t), A(u))
  BY ExpectFits, Shapes, NotNone
<1> HIDE DEF A, M, W
<1>4. \A q \in Places(t) : Fits(t, q, I(t, q), I(u, q))
  BY LimitFits
<1> HIDE DEF I
<1>5. ASSUME NEW b, NEW c, NEW d, NEW e, NEW f, NEW g, NEW h, NEW q \in Places(t)
      PROVE  Fits(t, q, Limit(t, b, c, d, e, f, g, h, q), Limit(u, b, c, d, e, f, g, h, q))
  BY <1>2, <1>4, ResultIs DEF Fits, Places
<1> HIDE DEF Limit
<1>6. \A q \in Places(t) : Fits(t, q, H(t, q), H(u, q))
  BY OrderFits
<1> HIDE DEF H
<1>7. ASSUME NEW b, NEW c, NEW d, NEW e, NEW f, NEW g, NEW q \in Places(t)
      PROVE  Fits(t, q, Order(t, b, c, d, e, f, g, q), Order(u, b, c, d, e, f, g, q))
  BY <1>2, <1>6, <1>5 DEF Fits, Places
<1> HIDE DEF Order
<1>8. \A q \in Places(t) : Fits(t, q, G(t, q), G(u, q))
  BY HavingFits
<1> HIDE DEF G
<1>9. ASSUME NEW b, NEW c, NEW d, NEW e, NEW f, NEW q \in Places(t)
      PROVE  Fits(t, q, Having(t, b, c, d, e, f, q), Having(u, b, c, d, e, f, q))
  BY <1>2, <1>8, <1>7 DEF Fits, Places
<1> HIDE DEF Having
<1>10. \A q \in Places(t) : Fits(t, q, F(t, q), F(u, q))
  BY GroupFits
<1> HIDE DEF F
<1>11. ASSUME NEW b, NEW c, NEW d, NEW e, NEW q \in Places(t)
      PROVE  Fits(t, q, Group(t, b, c, d, e, q), Group(u, b, c, d, e, q))
  BY <1>2, <1>10, <1>9 DEF Fits, Places
<1> HIDE DEF Group
<1>12. \A q \in Places(t) : Fits(t, q, E(t, q), E(u, q))
  BY WhereFits
<1> HIDE DEF E
<1>13. ASSUME NEW b, NEW c, NEW d, NEW q \in Places(t)
      PROVE  Fits(t, q, Where(t, b, c, d, q), Where(u, b, c, d, q))
  BY <1>2, <1>12, <1>11 DEF Fits, Places
<1> HIDE DEF Where
<1>14. \A q \in Places(t) : Fits(t, q, D(t, q), D(u, q))
  BY JoinsFits
<1> HIDE DEF D
<1>15. ASSUME NEW b, NEW c, NEW q \in Places(t)
      PROVE  Fits(t, q, Joins(t, b, c, q), Joins(u, b, c, q))
  BY <1>2, <1>14, <1>13 DEF Fits, Places
<1> HIDE DEF Joins
<1>16. \A q \in Places(t) : Fits(t, q, C(t, q), C(u, q))
  BY ExpectFits, Shapes, NotNone
<1> HIDE DEF C
<1>17. ASSUME NEW b, NEW q \in Places(t)
      PROVE  Fits(t, q, From(t, b, q), From(u, b, q))
  BY <1>2, <1>16, <1>15 DEF Fits, Places
<1> HIDE DEF From
<1>18. \A q \in Places(t) : Fits(t, q, B(t, q), B(u, q))
  BY ColumnsFits
<1> HIDE DEF B
<1>19. ASSUME NEW q \in Places(t)
      PROVE  Fits(t, q, Columns(t, q), Columns(u, q))
  BY <1>2, <1>18, <1>17 DEF Fits, Places
<1> HIDE DEF Columns
<1>20. Fits(t, p, W(t), W(u))
  BY <1>1, <1>2, <1>3, <1>19 DEF Fits, Places
<1>21. QED
  BY <1>20 DEF W

----------------------------------------------------------------------------
(* Statements.                                                             *)

LEMMA ExplainFits ==
  ASSUME NEW t, NEW u, Before(t, u), NEW p \in Places(t), p <= Len(t), NEW f, NEW g, Beyond(t, u, p, f, g)
  PROVE  Fits(t, p, parse_explain(f, t, p), parse_explain(g, u, p))
<1> DEFINE Known(x) == x.kind \in {"select", "update", "delete"}
           M(x) == [kind |-> "explain", of |-> x]
           W(h, v) == parse_explain(h, v, p)
<1>1. \A h, v : W(h, v) = IF ~h[p + 1].ok THEN h[p + 1]
                          ELSE IF Known(h[p + 1].node) THEN Got(M(h[p + 1].node), h[p + 1].next)
                          ELSE Wrong("syntax", h[p + 1].next)
  BY Zenon DEF parse_explain, Then
<1>2. Len(t) \in Nat /\ p \in 1 .. Len(t) + 1 /\ p + 1 \in Places(t)
  BY AtIs
<1>3. Fits(t, p + 1, f[p + 1], g[p + 1])
  BY <1>2 DEF Beyond
<1> HIDE DEF Known, M, W
<1>4. Fits(t, p, W(f, t), W(g, u))
  BY <1>1, <1>2, <1>3, ResultIs DEF Fits
<1>5. QED
  BY <1>4 DEF W

LEMMA ShowFits ==
  ASSUME NEW t, NEW u, Before(t, u), NEW p \in Places(t), p <= Len(t)
  PROVE  Fits(t, p, parse_show(t, p), parse_show(u, p))
<1> DEFINE A(v) == Expect(v, p + 1, <<Name>>)
           Tables(x) == Len(x[1]) = 1 /\ x[1][1] \in Words /\ Upper[x[1][1]] = "TABLES"
           M == [kind |-> "show_tables"]
           W(v) == parse_show(v, p)
<1>1. \A v : W(v) = LET a == A(v)
                    IN  IF ~a.ok THEN a ELSE IF Tables(a.node) THEN Got(M, a.next) ELSE Wrong("syntax", a.next)
  BY Zenon DEF parse_show, Then
<1>2. Len(t) \in Nat /\ p \in 1 .. Len(t) + 1 /\ p + 1 \in Places(t)
  BY AtIs
<1>3. Fits(t, p + 1, A(t), A(u))
  BY <1>2, ExpectFits, Shapes, NotNone
<1> HIDE DEF A, Tables, M, W
<1>4. Fits(t, p, W(t), W(u))
  BY <1>1, <1>2, <1>3, ResultIs DEF Fits
<1>5. QED
  BY <1>4 DEF W

(* DESCRIBE and a name.                                                    *)
Describe(t, p) == Then(Expect(t, p + 1, <<Name>>), LAMBDA names, q :
                      Got([kind |-> "describe", table |-> names[1]], q))

LEMMA DescribeFits ==
  ASSUME NEW t, NEW u, Before(t, u), NEW p \in Places(t), p <= Len(t)
  PROVE  Fits(t, p, Describe(t, p), Describe(u, p))
<1> DEFINE A(v) == Expect(v, p + 1, <<Name>>)
           M(x) == [kind |-> "describe", table |-> x[1]]
           W(v) == Describe(v, p)
<1>1. \A v : W(v) = LET a == A(v) IN IF ~a.ok THEN a ELSE Got(M(a.node), a.next)
  BY Zenon DEF Describe, Then
<1>2. Len(t) \in Nat /\ p \in 1 .. Len(t) + 1 /\ p + 1 \in Places(t)
  BY AtIs
<1>3. Fits(t, p + 1, A(t), A(u))
  BY <1>2, ExpectFits, Shapes, NotNone
<1> HIDE DEF A, M, W
<1>4. Fits(t, p, W(t), W(u))
  BY <1>1, <1>2, <1>3, ResultIs DEF Fits
<1>5. QED
  BY <1>4 DEF W

LEMMA WordFits ==
  ASSUME NEW t, NEW u, Before(t, u), NEW p \in Places(t), p <= Len(t), NEW x
  PROVE  Fits(t, p, Got(x, p + 1), Got(x, p + 1))
  BY AtIs, ResultIs DEF Fits

LEMMA KindFits ==
  ASSUME NEW t, NEW u, Before(t, u), NEW p \in Places(t), NEW f, NEW g, Beyond(t, u, p, f, g)
  PROVE  Fits(t, p, parse_kind(f, t, p), parse_kind(g, u, p))
<1> DEFINE Begin == Got([kind |-> "begin"], p + 1)
           Commit == Got([kind |-> "commit"], p + 1)
           Rollback == Got([kind |-> "rollback"], p + 1)
           Arm(word, h, v) ==
               IF word = NoToken THEN Wrong("eof", p)
               ELSE IF word = Keyword("CREATE") THEN parse_create(v, p)
               ELSE IF word = Keyword("INSERT") THEN parse_insert(v, p)
               ELSE IF word = Keyword("SELECT") THEN parse_select(v, p)
               ELSE IF word = Keyword("UPDATE") THEN parse_update(v, p)
               ELSE IF word = Keyword("DELETE") THEN parse_delete(v, p)
               ELSE IF word = Keyword("EXPLAIN") THEN parse_explain(h, v, p)
               ELSE IF word = Keyword("SHOW") THEN parse_show(v, p)
               ELSE IF word = Keyword("DESCRIBE") THEN Describe(v, p)
               ELSE IF word = Keyword("BEGIN") THEN Begin
               ELSE IF word = Keyword("COMMIT") THEN Commit
               ELSE IF word = Keyword("ROLLBACK") THEN Rollback
               ELSE Wrong("syntax", p)
<1>1. \A h, v : parse_kind(h, v, p) = Arm(At(v, p), h, v)
  <2> TAKE h, v
  <2>1. \A w, x : Keyword(w) = Keyword(x) => w = x
    BY DEF Keyword
  <2>2. \A w : Keyword(w) # NoToken
    BY NotNone
  <2>3. QED
    BY <2>1, <2>2, ZenonT(90) DEF parse_kind, Describe
<1>2. CASE p = Len(t) + 1
  <2>1. At(t, p) = NoToken
    BY <1>2, AtIs
  <2>2. Arm(NoToken, f, t) = Wrong("eof", p)
    OBVIOUS
  <2> HIDE DEF Arm
  <2>3. ~parse_kind(f, t, p).ok
    BY <1>1, <2>1, <2>2, ResultIs
  <2>4. QED BY <2>3 DEF Fits
<1>3. CASE p <= Len(t)
  <2> DEFINE word == At(t, p)
  <2>1. At(u, p) = word
    BY <1>3, AtIs
  <2>2. Fits(t, p, parse_create(t, p), parse_create(u, p))
    BY CreateFits
  <2>3. Fits(t, p, parse_insert(t, p), parse_insert(u, p))
    BY InsertFits
  <2>4. Fits(t, p, parse_select(t, p), parse_select(u, p))
    BY SelectFits
  <2>5. Fits(t, p, parse_update(t, p), parse_update(u, p))
    BY UpdateFits
  <2>6. Fits(t, p, parse_delete(t, p), parse_delete(u, p))
    BY DeleteFits
  <2>7. Fits(t, p, parse_explain(f, t, p), parse_explain(g, u, p))
    BY <1>3, ExplainFits
  <2>8. Fits(t, p, parse_show(t, p), parse_show(u, p))
    BY <1>3, ShowFits
  <2>9. Fits(t, p, Describe(t, p), Describe(u, p))
    BY <1>3, DescribeFits
  <2>10. Fits(t, p, Begin, Begin) /\ Fits(t, p, Commit, Commit) /\ Fits(t, p, Rollback, Rollback)
    BY <1>3, WordFits
  <2>11. \A x : Fits(t, p, Wrong(x, p), Wrong(x, p))
    BY ResultIs DEF Fits
  <2> HIDE DEF word, Begin, Commit, Rollback
  <2>12. Fits(t, p, Arm(word, f, t), Arm(word, g, u))
    BY <2>2, <2>3, <2>4, <2>5, <2>6, <2>7, <2>8, <2>9, <2>10, <2>11
  <2>13. QED BY <1>1, <2>1, <2>12, Zenon DEF word
<1>4. QED
  BY <1>2, <1>3, AtIs

LEMMA KindSame ==
  ASSUME NEW t \in Seq(Token), NEW p \in Places(t), NEW f, NEW g,
         \A q \in Places(t) : q > p => f[q] = g[q]
  PROVE  parse_kind(f, t, p) = parse_kind(g, t, p)
<1>1. Len(t) \in Nat /\ p \in 1 .. Len(t) + 1
  BY DEF Places
<1>2. CASE p <= Len(t)
  <2>1. p + 1 \in Places(t) /\ p + 1 > p
    BY <1>1, <1>2 DEF Places
  <2>2. f[p + 1] = g[p + 1]
    BY <2>1
  <2>3. parse_explain(f, t, p) = parse_explain(g, t, p)
    BY <2>2, Zenon DEF parse_explain
  <2>4. QED BY <2>3, Zenon DEF parse_kind
<1>3. CASE p = Len(t) + 1
  <2>1. At(t, p) = NoToken
    BY <1>1, <1>3 DEF At
  <2>2. \A h : parse_kind(h, t, p) = Wrong("eof", p)
    BY <2>1, NotNone, Zenon DEF parse_kind
  <2>3. QED BY <2>2
<1>4. QED BY <1>1, <1>2, <1>3

LEMMA StmtsIs ==
  ASSUME NEW t \in Seq(Token)
  PROVE  \E F : /\ \A q \in Places(t) : F[q] = parse_kind(F, t, q) /\ parse_stmt(t, q) = F[q]
                /\ \A q \in Places(t) : Fits(t, q, F[q], F[q])
<1> DEFINE n == Len(t)
           D == Places(t)
           B(f, q) == parse_kind(f, t, q)
<1>0. n \in Nat /\ D = 1 .. n + 1 /\ Before(t, t)
  BY DEF Places, Before
<1>1. ASSUME NEW f, NEW g, NEW q \in D, \A r \in D : r > q => f[r] = g[r] /\ Fits(t, r, f[r], f[r])
      PROVE  B(f, q) = B(g, q) /\ Fits(t, q, B(f, q), B(f, q))
  <2>1. Beyond(t, t, q, f, f)
    BY <1>1 DEF Beyond
  <2>2. QED BY <1>0, <1>1, <2>1, KindFits, KindSame
<1> DEFINE F == CHOOSE f : f = [q \in D |-> B(f, q)]
<1>2. \A p : parse_stmt(t, p) = F[p]
  BY Zenon DEF parse_stmt
<1> HIDE DEF B, D, F
<1> DEFINE T == {k \in 0 .. n + 1 : \E g : \A q \in D : q > n + 1 - k => /\ g[q] = B(g, q)
                                                                      /\ Fits(t, q, g[q], g[q])}
<1>3. 0 \in T
  BY <1>0
<1>4. ASSUME NEW k \in 1 .. n + 1, k - 1 \in T PROVE k \in T
  <2>1. PICK g : \A q \in D : q > n + 1 - (k - 1) => g[q] = B(g, q) /\ Fits(t, q, g[q], g[q])
    BY <1>4
  <2> DEFINE h == [q \in D |-> B(g, q)]
  <2>2. ASSUME NEW q \in D, q > n + 1 - k PROVE h[q] = B(h, q) /\ Fits(t, q, h[q], h[q])
    <3>1. \A r \in D : r > q => g[r] = h[r] /\ Fits(t, r, g[r], g[r])
      BY <1>0, <2>1, <2>2
    <3> HIDE DEF h
    <3>2. B(g, q) = B(h, q) /\ Fits(t, q, B(g, q), B(g, q))
      BY <1>1, <3>1
    <3>3. h[q] = B(g, q)
      BY DEF h
    <3>4. QED BY <3>2, <3>3
  <2> HIDE DEF h
  <2>3. QED BY <1>0, <2>2
<1>5. n + 1 \in T
  <2> HIDE DEF T
  <2>1. QED BY <1>0, <1>3, <1>4, Climb
<1>6. PICK g : \A q \in D : g[q] = B(g, q) /\ Fits(t, q, g[q], g[q])
  BY <1>0, <1>5
<1> DEFINE h == [q \in D |-> B(g, q)]
<1>7. h = [q \in D |-> B(h, q)]
  <2>1. ASSUME NEW q \in D PROVE B(h, q) = B(g, q)
    <3>1. \A r \in D : r > q => g[r] = h[r] /\ Fits(t, r, g[r], g[r])
      BY <1>6
    <3> HIDE DEF h
    <3>2. QED BY <1>1, <3>1
  <2>2. QED BY <2>1
<1>8. F = [q \in D |-> B(F, q)]
  <2> HIDE DEF h
  <2>1. QED BY <1>7, Zenon DEF F
<1>9. \A q \in D : F[q] = B(F, q)
  BY <1>8
<1>10. ASSUME NEW q \in 1 .. n + 1, \A r \in 1 .. n + 1 : r > q => Fits(t, r, F[r], F[r])
       PROVE  Fits(t, q, F[q], F[q])
  BY <1>0, <1>1, <1>9, <1>10
<1> DEFINE S == {q \in 1 .. n + 1 : Fits(t, q, F[q], F[q])}
<1>11. \A q \in 1 .. n + 1 : (\A r \in 1 .. n + 1 : r > q => r \in S) => q \in S
  BY <1>10
<1>12. \A q \in 1 .. n + 1 : q \in S
  <2> HIDE DEF S, n
  <2>1. QED BY <1>0, <1>11, Descend
<1>13. QED
  BY <1>0, <1>2, <1>9, <1>12 DEF B, D

LEMMA StmtFits ==
  ASSUME NEW t, NEW u, Before(t, u), NEW p \in Places(t)
  PROVE  Fits(t, p, parse_stmt(t, p), parse_stmt(u, p))
<1> DEFINE n == Len(t)
<1>0. t \in Seq(Token) /\ u \in Seq(Token) /\ n \in Nat /\ p \in 1 .. n + 1 /\ Places(t) = 1 .. n + 1
  BY DEF Before, Places
<1>1. PICK F : \A q \in Places(t) : F[q] = parse_kind(F, t, q) /\ parse_stmt(t, q) = F[q]
  BY <1>0, StmtsIs
<1>2. PICK G : /\ \A q \in Places(u) : G[q] = parse_kind(G, u, q) /\ parse_stmt(u, q) = G[q]
               /\ \A q \in Places(u) : Fits(u, q, G[q], G[q])
  BY <1>0, StmtsIs
<1> DEFINE T == {q \in 1 .. n + 1 : Fits(t, q, F[q], G[q])}
<1>3. ASSUME NEW q \in 1 .. n + 1, \A r \in 1 .. n + 1 : r > q => Fits(t, r, F[r], G[r])
      PROVE  Fits(t, q, F[q], G[q])
  <2>1. q \in Places(t) /\ q \in Places(u) /\ Beyond(t, u, q, F, G)
    BY <1>0, <1>2, <1>3, AtIs DEF Beyond
  <2>2. Fits(t, q, parse_kind(F, t, q), parse_kind(G, u, q))
    BY <2>1, KindFits
  <2>3. QED BY <1>1, <1>2, <2>1, <2>2
<1>4. \A q \in 1 .. n + 1 : (\A r \in 1 .. n + 1 : r > q => r \in T) => q \in T
  BY <1>3
<1>5. p \in T
  <2> HIDE DEF T, n
  <2>1. QED BY <1>0, <1>4, Descend
<1>6. p \in Places(u)
  BY AtIs
<1>7. QED
  BY <1>1, <1>2, <1>5, <1>6

LEMMA ParseFits ==
  ASSUME NEW t, NEW u, Before(t, u)
  PROVE  Fits(t, 1, parse(t), parse(u))
<1> DEFINE A(v) == parse_stmt(v, 1)
           Ends(v, q) == At(v, q) = Sign(";")
<1>1. \A v : parse(v) = LET a == A(v)
                        IN  IF ~a.ok THEN a ELSE Got(a.node, IF Ends(v, a.next) THEN a.next + 1 ELSE a.next)
  BY Zenon DEF parse, Then
<1>2. Len(t) \in Nat /\ 1 \in Places(t)
  BY DEF Before, Places
<1>3. Fits(t, 1, A(t), A(u))
  BY <1>2, StmtFits
<1>4. \A q \in Places(t) : /\ q <= Len(t) => (Ends(u, q) <=> Ends(t, q))
                           /\ Ends(t, q) => q <= Len(t)
  <2> SUFFICES ASSUME NEW q \in Places(t)
               PROVE  /\ q <= Len(t) => At(u, q) = At(t, q)
                      /\ At(t, q) = Sign(";") => q <= Len(t)
    OBVIOUS
  <2>1. QED BY AtIs, NotNone
<1> HIDE DEF A, Ends
<1> DEFINE a == A(t)
           ended == Ends(t, a.next)
<1>5. SUFFICES ASSUME parse(t).ok
               PROVE  parse(t).next \in 1 .. Len(t) + 1 /\ (parse(t).next <= Len(t) => parse(u) = parse(t))
  BY DEF Fits
<1>6. a.ok
  BY <1>1, <1>5
<1>7. a.next \in 1 .. Len(t) + 1 /\ a.next \in Places(t) /\ (a.next <= Len(t) => A(u) = a)
  BY <1>2, <1>3, <1>6 DEF Fits, Places
<1>8. parse(t) = Got(a.node, IF ended THEN a.next + 1 ELSE a.next)
  BY <1>1, <1>6
<1>9. parse(t).next = IF ended THEN a.next + 1 ELSE a.next
  BY <1>8, ResultIs
<1>10. a.next <= Len(t) => parse(u) = parse(t)
  BY <1>1, <1>4, <1>6, <1>7, <1>8
<1>11. QED
  BY <1>2, <1>4, <1>7, <1>9, <1>10

----------------------------------------------------------------------------
(* What follows a statement.                                               *)

LEMMA TrailingDecides ==
  ASSUME Inv, Trailing
  PROVE  reading' = reading \/ (Unreadable(tokens') /\ ~reading'.ok)
<1>1. reading.ok /\ Len(Ignored) = 1
  BY DEF Trailing
<1>2. PICK f \in Tails : Extend(<<Space>> \o f)
  BY DEF Trailing
<1> DEFINE z == <<Space>> \o f
           t == tokens
           u == tokens \o tokenize(z)
           n == Len(t)
<1>3. z \in Seq(Symbols) /\ z[1] = Space
  <2>1. <<Space>> \in Seq(Symbols) /\ f \in Seq(Symbols) /\ Len(<<Space>>) = 1 /\ Len(f) \in Nat
    BY BridgeAssumption
  <2>2. QED BY <2>1, ConcatProperties
<1>4. text' = text \o z /\ tokens' = tokenize(text') /\ reading' = execute(tokens')
  BY <1>2 DEF Extend
<1> HIDE DEF z
<1>5. t \in Seq(Token) /\ tokenize(z) \in Seq(Token)
  BY <1>3, LexedType DEF Inv
<1>6. ~Unreadable(t) /\ reading = parse(t)
  BY <1>1, ResultIs DEF Inv, execute
<1>7. tokens' = u
  BY <1>3, <1>4, <1>6, TokenizeAppend DEF Inv
<1>8. Before(t, u)
  BY <1>5 DEF Before
<1>9. Fits(t, 1, parse(t), parse(u))
  BY <1>8, ParseFits
<1>10. reading.next \in 1 .. n + 1 /\ (reading.next <= n => parse(u) = reading)
  BY <1>1, <1>6, <1>9 DEF Fits
<1>11. n \in Nat /\ reading.next # n + 1
  <2>1. n \in Nat
    BY <1>5
  <2>2. SubSeq(t, n + 1, n) = <<>>
    BY <1>5, <2>1
  <2>3. QED BY <1>1, <2>1, <2>2 DEF Ignored
<1>12. parse(u) = reading
  BY <1>10, <1>11
<1>13. CASE Unreadable(u)
  BY <1>4, <1>7, <1>13, ResultIs DEF execute
<1>14. CASE ~Unreadable(u)
  BY <1>4, <1>7, <1>12, <1>14 DEF execute
<1>15. QED
  BY <1>7, <1>13, <1>14

(* What follows a statement that has ended changes nothing, except that it *)
(* must consist of tokens (parse, sql/parser.rs:38; execute,               *)
(* lib.rs:34-41).                                                          *)
THEOREM StatementsEndThere == Spec => PrefixDecides
<1>1. Inv /\ [Next]_vars =>
          [Trailing => reading' = reading \/ (Unreadable(tokens') /\ ~reading'.ok)]_vars
  BY TrailingDecides
<1>2. QED
  BY <1>1, InvInvariant, PTL DEF Spec, PrefixDecides
=============================================================================
