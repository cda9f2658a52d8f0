--------------------------- MODULE SemanticCache ---------------------------
(***************************************************************************)
(* src/snail_ai/semantic_cache.py in front of a Session: a text is         *)
(* answered from the cache when its normalised form was answered before,   *)
(* or when an embedding calls a cached text similar and the signatures     *)
(* agree; writes and transaction control go to the engine and empty the    *)
(* cache.                                                                  *)
(*                                                                         *)
(* A text is the sequence of its tokens.  A token has the class of         *)
(* _TOKEN_RE it matches, its spelling, its spelling in lower case, and     *)
(* whether it is glued to the token before it (no white space between).    *)
(* How similar two texts are is not modelled: any two may be, or not.      *)
(***************************************************************************)
EXTENDS Integers, Sequences, FiniteSets

CONSTANTS Texts, Contents, KindOf(_), Answer(_, _), Outcomes(_, _), NoAnswer,
          MaxEntries   \* max_entries

ASSUME MaxEntriesAssumption == MaxEntries \in Nat

ASSUME TextsAssumption ==
    \A x \in Texts : x # <<>> /\ \A i \in DOMAIN x :
        x[i].class \in {"word", "int", "string", "sign"}

ASSUME SessionAssumption ==
    \A x \in Texts :
        /\ KindOf(x) \in {"read", "write", "begin", "commit", "rollback", "invalid"}
        /\ \A d \in Contents : Outcomes(x, d) \subseteq Contents

VARIABLES committed, current, open, reply,
          cache,          \* [text, key, sig, result], oldest first
          in_transaction  \* what the cache believes of the session

engine == <<committed, current, open>>
vars   == <<committed, current, open, reply, cache, in_transaction>>

S == INSTANCE Session

----------------------------------------------------------------------------
(* What is read off a text.                                                *)

WRITE_KEYWORDS == {"insert", "create", "drop", "update", "delete",
                   "begin", "commit", "rollback"}

PUNCT == {",", "(", ")", ";", "."}

Literal(tok) == tok.class \in {"string", "int"}
NoSemi(tok)  == tok.as # ";"

tokens(x) == SelectSeq(x, NoSemi)

(* The key of an exact match: case is kept in string literals only.        *)
normalize_sql(x) ==
    [i \in DOMAIN tokens(x) |-> IF tokens(x)[i].class = "string"
                                THEN tokens(x)[i].as ELSE tokens(x)[i].low]

(* sorted(...) of the tokens that are no literals: how often each occurs.  *)
rest(x) ==
    LET counted == {i \in DOMAIN x : ~Literal(x[i]) /\ x[i].as \notin PUNCT}
    IN  [w \in {x[i].low : i \in counted} |->
            Cardinality({i \in counted : x[i].low = w})]

(* The tokens between the first SELECT and the first FROM.                 *)
select_list(x) ==
    LET toks == tokens(x)
        At(word) == {i \in DOMAIN toks : toks[i].low = word
                                         /\ \A j \in 1 .. i - 1 : toks[j].low # word}
        inside == {i \in DOMAIN toks : \E s \in At("select"), f \in At("from") :
                                          s < i /\ i < f}
    IN  {<<i - s, toks[i].low>> : i \in inside, s \in At("select")}

signature(x) ==
    LET literals == SelectSeq(x, Literal)
    IN  <<[i \in DOMAIN literals |-> literals[i].as], rest(x), select_list(x)>>

(* The first word up to white space, without semicolons at its end.        *)
first_word(x) ==
    LET run == {i \in DOMAIN x : \A j \in 2 .. i : x[j].glued}
    IN  IF \A i \in run \ {1} : x[i].as = ";" THEN x[1].low ELSE "other"

is_write(x) == first_word(x) \in WRITE_KEYWORDS

----------------------------------------------------------------------------
(* execute: one action per way through it.                                 *)

Init == /\ S!Init
        /\ cache = <<>>
        /\ in_transaction = FALSE

RaisedNow == reply'.result = S!Raised

(* Mutant: the flag is not set.                                            *)
begin_noFlag(x) == /\ first_word(x) = "begin"
                   /\ S!Execute(x)
                   /\ cache' = IF RaisedNow THEN cache ELSE <<>>
                   /\ UNCHANGED in_transaction

(* BEGIN: an exception leaves before the flag is set.                      *)
begin(x) == /\ first_word(x) = "begin"
            /\ S!Execute(x)
            /\ IF RaisedNow THEN UNCHANGED <<cache, in_transaction>>
                            ELSE cache' = <<>> /\ in_transaction' = TRUE

(* Mutant: an exception leaves before the flag falls.                      *)
end_noFinally(x) == /\ first_word(x) \in {"commit", "rollback"}
                    /\ S!Execute(x)
                    /\ cache' = <<>>
                    /\ in_transaction' = (in_transaction /\ RaisedNow)

(* COMMIT and ROLLBACK: the flag falls in a finally.                       *)
end(x) == /\ first_word(x) \in {"commit", "rollback"}
          /\ S!Execute(x)
          /\ cache' = <<>>
          /\ in_transaction' = FALSE

(* Mutant: the cache outlives a write.                                     *)
write_keepsCache(x) == /\ is_write(x)
                       /\ first_word(x) \notin {"begin", "commit", "rollback"}
                       /\ S!Execute(x)
                       /\ UNCHANGED <<cache, in_transaction>>

write(x) == /\ is_write(x) /\ first_word(x) \notin {"begin", "commit", "rollback"}
            /\ S!Execute(x)
            /\ cache' = IF RaisedNow THEN cache ELSE <<>>
            /\ UNCHANGED in_transaction

bypass(x) == /\ ~is_write(x) /\ in_transaction
             /\ S!Execute(x)
             /\ UNCHANGED <<cache, in_transaction>>

Lookup(x) == ~is_write(x) /\ ~in_transaction

SameKey(x) == {i \in DOMAIN cache : cache[i].key = normalize_sql(x)}
SameSig(x) == {i \in DOMAIN cache : cache[i].sig = signature(x)}

Serve(x, i) == /\ S!Replies(x, cache[i].result)
               /\ UNCHANGED <<engine, cache, in_transaction>>

(* The first entry with the key.                                           *)
exact_hit(x) == /\ Lookup(x)
                /\ \E i \in SameKey(x) : /\ \A j \in SameKey(x) : i <= j
                                         /\ Serve(x, i)

(* The most similar entry with the signature, if similar enough.           *)
semantic_hit(x) == /\ Lookup(x) /\ SameKey(x) = {}
                   /\ \E i \in SameSig(x) : Serve(x, i)

(* Mutant: nothing is evicted.                                             *)
Remembered_unbounded(entry) == Append(cache, entry)

(* The oldest entry leaves a full cache.                                   *)
Remembered(entry) == LET longer == Append(cache, entry)
                     IN  IF Len(longer) > MaxEntries THEN Tail(longer) ELSE longer

Answered(x) == [text   |-> x,
                key    |-> normalize_sql(x),
                sig    |-> signature(x),
                result |-> reply'.result]

(* Mutant: an exception is remembered like a result.                       *)
miss_remembersErrors(x) == /\ Lookup(x) /\ SameKey(x) = {}
                           /\ S!Execute(x)
                           /\ cache' = Remembered(Answered(x))
                           /\ UNCHANGED in_transaction

miss(x) == /\ Lookup(x) /\ SameKey(x) = {}
           /\ S!Execute(x)
           /\ cache' = IF RaisedNow THEN cache
                       ELSE Remembered(Answered(x))
           /\ UNCHANGED in_transaction

execute(x) == \/ begin(x) \/ end(x) \/ write(x) \/ bypass(x)
              \/ exact_hit(x) \/ semantic_hit(x) \/ miss(x)

(* A new process has a new cache.                                          *)
restart == S!Restart /\ cache' = <<>> /\ in_transaction' = FALSE

Next == (\E x \in Texts : execute(x)) \/ restart

Spec == Init /\ [][Next]_vars

----------------------------------------------------------------------------
(* What keeps the cache out of sight: keys, signatures and first words     *)
(* tell apart the texts of a session.                                      *)

(* Two texts, one of them a query, that ask for the same.                  *)
SameQuestion(x, y) == /\ KindOf(x) = "read"
                      /\ \A d \in Contents : Answer(x, d) = Answer(y, d)

KeysSeparate ==
    \A x, y \in Texts : KindOf(y) = "read" /\ normalize_sql(x) = normalize_sql(y)
                            => SameQuestion(x, y)

SignaturesSeparate ==
    \A x, y \in Texts : KindOf(y) = "read" /\ signature(x) = signature(y)
                            => SameQuestion(x, y)

(* The first word names every transaction statement and every write, and   *)
(* BEGIN, COMMIT and ROLLBACK start nothing else.                          *)
WordsTell ==
    \A x \in Texts :
        /\ KindOf(x) = "begin" => first_word(x) = "begin"
        /\ KindOf(x) = "commit" => first_word(x) = "commit"
        /\ KindOf(x) = "rollback" => first_word(x) = "rollback"
        /\ first_word(x) = "begin" => KindOf(x) \in {"begin", "invalid"}
        /\ first_word(x) \in {"commit", "rollback"} => KindOf(x) \in {"commit", "rollback"}
        /\ KindOf(x) = "write" => first_word(x) \in {"insert", "create", "drop",
                                                     "update", "delete"}

TextsTell == KeysSeparate /\ SignaturesSeparate /\ WordsTell

----------------------------------------------------------------------------
(* Properties.                                                             *)

(* The session behind the cache is the session without it: every reply,    *)
(* served or not, is what the engine would have answered at that moment    *)
(* (semantic_cache.py:66-81).                                              *)
PlainSession == S!Spec

(* What is in the cache is still true: no write, commit, rollback or       *)
(* failure of one leaves behind a result the engine no longer gives        *)
(* (semantic_cache.py:78, "bypass the cache and clear it").                *)
CacheCoherent ==
    \A i \in DOMAIN cache :
        cache[i].result = S!Result(Answer(cache[i].text, current))

(* While the engine has a transaction open nothing is cached               *)
(* (semantic_cache.py:79).                                                 *)
NothingCachedInTransaction == open => cache = <<>>

(* The prompt of the REPL shows an open transaction exactly while there is *)
(* one, whatever BEGIN, COMMIT and ROLLBACK meet (main.py:128,             *)
(* semantic_cache.py:138-151).                                             *)
PromptTells == in_transaction = open

(* The cache holds a text's key at most once, and never more than          *)
(* max_entries (semantic_cache.py:182).                                    *)
KeysUnique == /\ Len(cache) <= MaxEntries
              /\ \A i, j \in DOMAIN cache : cache[i].key = cache[j].key => i = j

(* Exact repeats are always safe (README.md:238, semantic_cache.py:71):    *)
(* a query answered from the entry with its key gets the engine's answer,  *)
(* and never that of a transaction since rolled back                       *)
(* (tests/test_engine_integration.py:111).                                 *)
ExactHitsSafe ==
    [][\A x \in Texts : exact_hit(x) /\ KindOf(x) = "read" =>
          reply'.result = S!Result(Answer(x, current))]_vars

(* An answer past the signature guard is the engine's answer               *)
(* (README.md:238, semantic_cache.py:72-75).                               *)
GuardedHitsSafe ==
    [][\A x \in Texts : semantic_hit(x) /\ KindOf(x) = "read" =>
          reply'.result = S!Result(Answer(x, current))]_vars
=============================================================================
