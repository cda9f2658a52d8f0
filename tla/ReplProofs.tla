----------------------------- MODULE ReplProofs -----------------------------
(***************************************************************************)
(* The cache and the loop around it.                                       *)
(*                                                                         *)
(* When the cache is safe.  For every set of texts, contents and answers:  *)
(* if keys, signatures and first words tell texts apart (TextsTell), then  *)
(* a session cannot notice the cache.  Each of the three conditions is     *)
(* needed: the runs cache_case, cache_operators and cache_invalid drop one *)
(* each and find the cache caught out.                                     *)
(*                                                                         *)
(* Whatever is typed, asked or answered by the model, the loop only does   *)
(* what a session with the cache does, so what holds of the cache holds of *)
(* the loop; the model only reads; and ASK knows every table if texts tell *)
(* what they create.                                                       *)
(***************************************************************************)
EXTENDS Repl, FiniteSetTheorems, SequenceTheorems, TLAPS

Entry == [text : Texts, key : {normalize_sql(x) : x \in Texts},
          sig : {signature(x) : x \in Texts},
          result : {S!Result(Answer(x, d)) : x \in Texts, d \in Contents}]

(* What makes the cache safe: it knows whether a transaction is open and   *)
(* is empty while one is; and every entry is a query with its present      *)
(* answer.                                                                 *)
Truthful(e) == /\ e.text \in Texts /\ KindOf(e.text) = "read"
               /\ e.key = normalize_sql(e.text)
               /\ e.sig = signature(e.text)
               /\ Answer(e.text, current) # NoAnswer
               /\ e.result = S!Result(Answer(e.text, current))

CacheInv == /\ committed \in Contents /\ current \in Contents
            /\ open \in BOOLEAN
            /\ in_transaction = open
            /\ in_transaction => cache = <<>>
            /\ cache \in Seq(Entry)
            /\ \A i \in DOMAIN cache : Truthful(cache[i])

----------------------------------------------------------------------------
LEMMA RepliesDiffer == S!Raised # S!Message /\ \A r : S!Result(r) # S!Raised
  BY DEF S!Raised, S!Message, S!Result

(* What one call of the engine can do to the state the cache depends on.   *)
LEMMA EngineStep ==
  ASSUME NEW x \in Texts, CacheInv, S!Execute(x)
  PROVE  /\ committed' \in Contents /\ current' \in Contents /\ open' \in BOOLEAN
         /\ open' /\ ~open => KindOf(x) = "begin" /\ ~RaisedNow
         /\ KindOf(x) \in {"commit", "rollback"} => ~open'
         /\ ~open' /\ open => KindOf(x) \in {"commit", "rollback"}
         /\ KindOf(x) = "begin" /\ ~RaisedNow => open'
         /\ KindOf(x) # "commit" /\ RaisedNow => UNCHANGED engine
         /\ KindOf(x) \in {"read", "invalid"} => UNCHANGED engine
         /\ KindOf(x) \in {"read", "invalid"} /\ ~RaisedNow =>
                /\ KindOf(x) = "read" /\ Answer(x, current) # NoAnswer
                /\ reply'.result = S!Result(Answer(x, current))
<1> USE RepliesDiffer DEF CacheInv, RaisedNow, S!Replies, engine
<1>1. CASE S!Raise(x)
  BY <1>1 DEF S!Raise
<1>2. CASE S!Read(x)
  BY <1>2 DEF S!Read
<1>3. CASE S!Write(x)
  <2>1. current' \in Contents
    BY <1>3, SessionAssumption DEF S!Write
  <2>2. QED
    BY <1>3, <2>1 DEF S!Write
<1>4. CASE S!Begin(x)
  BY <1>4 DEF S!Begin
<1>5. CASE S!Commit(x)
  BY <1>5 DEF S!Commit
<1>6. CASE S!Lose(x)
  <2>1. open' = FALSE /\ current' = committed /\ committed' = committed
    BY <1>6 DEF S!Lose
  <2>2. CASE KindOf(x) = "rollback" /\ reply'.result = S!Message
    BY <2>1, <2>2
  <2>3. CASE KindOf(x) = "commit"
    BY <2>1, <2>3
  <2>4. \/ KindOf(x) = "rollback" /\ reply' = [text |-> x, result |-> S!Message]
        \/ KindOf(x) = "commit"
    BY <1>6 DEF S!Lose
  <2>5. [text |-> x, result |-> S!Message].result = S!Message
    OBVIOUS
  <2>6. QED
    BY <2>2, <2>3, <2>4, <2>5
<1>7. QED
  BY <1>1, <1>2, <1>3, <1>4, <1>5, <1>6 DEF S!Execute

(* A text that is looked up is a query, or the engine refuses it.          *)
LEMMA LookedUp ==
  ASSUME WordsTell, NEW x \in Texts, ~is_write(x)
  PROVE  KindOf(x) \in {"read", "invalid"}
  BY SessionAssumption DEF WordsTell, is_write, WRITE_KEYWORDS

(* Remembering a true entry, and forgetting the oldest, keeps a cache of   *)
(* true entries.                                                           *)
LEMMA RememberedTrue ==
  ASSUME NEW e \in Entry, cache \in Seq(Entry), Truthful(e),
         \A i \in DOMAIN cache : Truthful(cache[i])
  PROVE  /\ Remembered(e) \in Seq(Entry)
         /\ \A i \in DOMAIN Remembered(e) : Truthful(Remembered(e)[i])
<1> DEFINE longer == Append(cache, e)
<1>1. longer \in Seq(Entry) /\ Len(longer) = Len(cache) + 1
  OBVIOUS
<1>2. \A i \in 1 .. Len(longer) : Truthful(longer[i])
  <2> SUFFICES ASSUME NEW i \in 1 .. Len(longer) PROVE Truthful(longer[i])
    OBVIOUS
  <2>1. CASE i \in 1 .. Len(cache)
    <3>1. longer[i] = cache[i]
      BY <2>1
    <3>2. QED BY <2>1, <3>1
  <2>2. CASE i = Len(cache) + 1
    <3>1. longer[i] = e
      BY <2>2
    <3>2. QED BY <3>1
  <2>3. QED BY <1>1, <2>1, <2>2
<1>3. longer # <<>>
  <2>1. \A s \in Seq(Entry) : Len(s) = Len(cache) + 1 => s # <<>>
    BY LenProperties, EmptySeq
  <2>2. QED BY <1>1, <2>1
<1> HIDE DEF longer
<1>4. /\ Tail(longer) \in Seq(Entry)
      /\ \A i \in 1 .. Len(Tail(longer)) : i + 1 \in 1 .. Len(longer)
                                           /\ Tail(longer)[i] = longer[i + 1]
  BY <1>1, <1>3
<1>5. \A i \in 1 .. Len(Tail(longer)) : Truthful(Tail(longer)[i])
  BY <1>2, <1>4
<1>6. Remembered(e) = IF Len(longer) > MaxEntries THEN Tail(longer) ELSE longer
  BY DEF Remembered, longer
<1>7. QED
  BY <1>1, <1>2, <1>4, <1>5, <1>6

LEMMA CacheStep == TextsTell /\ CacheInv /\ [Next]_vars => CacheInv'
<1> SUFFICES ASSUME TextsTell, CacheInv, [Next]_vars PROVE CacheInv'
  OBVIOUS
<1>1. CASE UNCHANGED vars
  BY <1>1 DEF vars, CacheInv, Truthful
<1>2. ASSUME NEW x \in Texts, begin(x) PROVE CacheInv'
  <2>1. S!Execute(x) /\ KindOf(x) \in {"begin", "invalid"}
    BY <1>2 DEF begin, TextsTell, WordsTell
  <2>2. CASE RaisedNow
    BY <1>2, <2>1, <2>2, EngineStep DEF begin, CacheInv, Truthful, engine
  <2>3. CASE ~RaisedNow
    <3>1. /\ committed' \in Contents /\ current' \in Contents
          /\ open' \in BOOLEAN /\ open'
      BY <2>1, <2>3, EngineStep
    <3>2. cache' = <<>> /\ in_transaction' = TRUE
      BY <1>2, <2>3 DEF begin
    <3>3. QED
      BY <3>1, <3>2, EmptySeq DEF CacheInv
  <2>4. QED BY <2>2, <2>3
<1>3. ASSUME NEW x \in Texts, end(x) PROVE CacheInv'
  <2>1. S!Execute(x) /\ KindOf(x) \in {"commit", "rollback"}
    BY <1>3 DEF end, TextsTell, WordsTell
  <2>2. committed' \in Contents /\ current' \in Contents
    BY <2>1, EngineStep
  <2>3. open' = FALSE
    BY <2>1, EngineStep
  <2>4. cache' = <<>> /\ in_transaction' = FALSE
    BY <1>3 DEF end
  <2>5. cache' \in Seq(Entry) /\ DOMAIN cache' = {}
    BY <2>4, EmptySeq
  <2>6. QED
    BY <2>2, <2>3, <2>4, <2>5 DEF CacheInv
<1>4. ASSUME NEW x \in Texts, write(x) PROVE CacheInv'
  <2>1. S!Execute(x) /\ KindOf(x) \notin {"begin", "commit", "rollback"}
    BY <1>4 DEF write, TextsTell, WordsTell
  <2>2. CASE RaisedNow
    BY <1>4, <2>1, <2>2, EngineStep DEF write, CacheInv, Truthful, engine
  <2>3. CASE ~RaisedNow
    <3>1. open' = open
      BY <2>1, <2>3, EngineStep, open \in BOOLEAN, open' \in BOOLEAN DEF CacheInv
    <3>2. committed' \in Contents /\ current' \in Contents /\ open' \in BOOLEAN
      BY <2>1, EngineStep
    <3>3. cache' = <<>> /\ in_transaction' = in_transaction
      BY <1>4, <2>3 DEF write
    <3>4. QED
      BY <3>1, <3>2, <3>3, EmptySeq DEF CacheInv
  <2>4. QED BY <2>2, <2>3
<1>5. ASSUME NEW x \in Texts, bypass(x) PROVE CacheInv'
  <2>1. UNCHANGED engine
    BY <1>5, EngineStep, LookedUp DEF bypass, TextsTell
  <2>2. QED
    BY <1>5, <2>1 DEF bypass, CacheInv, Truthful, engine
<1>6. ASSUME NEW x \in Texts, exact_hit(x) \/ semantic_hit(x) PROVE CacheInv'
  BY <1>6 DEF exact_hit, semantic_hit, Serve, CacheInv, Truthful, engine
<1>7. ASSUME NEW x \in Texts, miss(x) PROVE CacheInv'
  <2>1. S!Execute(x) /\ KindOf(x) \in {"read", "invalid"} /\ ~in_transaction
    BY <1>7, LookedUp DEF miss, Lookup, TextsTell
  <2>2. UNCHANGED engine /\ UNCHANGED in_transaction
    BY <1>7, <2>1, EngineStep DEF miss
  <2>3. CASE RaisedNow
    BY <1>7, <2>2, <2>3 DEF miss, CacheInv, Truthful, engine
  <2>4. CASE ~RaisedNow
    <3> DEFINE e == Answered(x)
    <3>1. /\ KindOf(x) = "read" /\ Answer(x, current) # NoAnswer
          /\ reply'.result = S!Result(Answer(x, current))
      BY <2>1, <2>4, EngineStep
    <3>2. e \in Entry /\ Truthful(e)
      BY <3>1 DEF Answered, Entry, Truthful, CacheInv
    <3>3. cache' = Remembered(e)
      BY <1>7, <2>4 DEF miss
    <3> HIDE DEF e
    <3>4. /\ cache' \in Seq(Entry)
          /\ \A i \in DOMAIN cache' : Truthful(cache'[i])
      BY <3>2, <3>3, RememberedTrue DEF CacheInv
    <3>5. QED
      BY <2>1, <2>2, <3>4 DEF CacheInv, Truthful, engine
  <2>5. QED BY <2>3, <2>4
<1>8. CASE restart
  <2>1. cache' = <<>> /\ cache' \in Seq(Entry) /\ DOMAIN cache' = {}
    BY <1>8, EmptySeq DEF restart
  <2>2. QED
    BY <1>8, <2>1 DEF restart, S!Restart, CacheInv
<1>9. QED
  BY <1>1, <1>2, <1>3, <1>4, <1>5, <1>6, <1>7, <1>8 DEF Next, execute

LEMMA CacheInitially == Init => CacheInv
<1>1. Init => cache \in Seq(Entry) /\ DOMAIN cache = {}
  BY EmptySeq DEF Init
<1>2. QED
  BY <1>1 DEF Init, S!Init, CacheInv

(* Every cached result is what the engine would answer now, through        *)
(* writes, transactions and their failures (SemanticCache.execute,         *)
(* semantic_cache.py:136-185).                                             *)
THEOREM Coherent == TextsTell => (Spec => []CacheCoherent)
<1> SUFFICES ASSUME TextsTell PROVE Spec => []CacheCoherent
  OBVIOUS
<1>1. CacheInv => CacheCoherent
  BY DEF CacheInv, CacheCoherent, Truthful
<1>2. CacheInv /\ [Next]_vars => CacheInv'
  BY CacheStep
<1>3. QED
  BY <1>1, <1>2, CacheInitially, PTL DEF Spec

(* Nothing is cached while the engine has a transaction open               *)
(* (semantic_cache.py:160).                                                *)
THEOREM EmptyInTransaction == TextsTell => (Spec => []NothingCachedInTransaction)
<1> SUFFICES ASSUME TextsTell PROVE Spec => []NothingCachedInTransaction
  OBVIOUS
<1>1. CacheInv => NothingCachedInTransaction
  BY DEF CacheInv, NothingCachedInTransaction
<1>2. CacheInv /\ [Next]_vars => CacheInv'
  BY CacheStep
<1>3. QED
  BY <1>1, <1>2, CacheInitially, PTL DEF Spec

(* The prompt tells whether a transaction is open (main.py:128).           *)
THEOREM PromptTrue == TextsTell => (Spec => []PromptTells)
<1> SUFFICES ASSUME TextsTell PROVE Spec => []PromptTells
  OBVIOUS
<1>1. CacheInv => PromptTells
  BY DEF CacheInv, PromptTells
<1>2. CacheInv /\ [Next]_vars => CacheInv'
  BY CacheStep
<1>3. QED
  BY <1>1, <1>2, CacheInitially, PTL DEF Spec

(* The session with the cache is a session without it: a served answer is  *)
(* the one the engine would have given.                                    *)
THEOREM Transparent == TextsTell => (Spec => PlainSession)
<1> SUFFICES ASSUME TextsTell PROVE Spec => PlainSession
  OBVIOUS
<1>1. Init => S!Init
  BY DEF Init
<1>2. CacheInv /\ [Next]_vars => [S!Next]_(S!vars)
  <2> SUFFICES ASSUME CacheInv, [Next]_vars PROVE [S!Next]_(S!vars)
    OBVIOUS
  <2>1. CASE UNCHANGED vars
    BY <2>1 DEF vars, S!vars
  <2>2. ASSUME NEW x \in Texts, S!Execute(x) PROVE S!Next
    BY <2>2 DEF S!Next
  <2>3. ASSUME NEW x \in Texts, NEW i \in DOMAIN cache, Serve(x, i),
               normalize_sql(x) = cache[i].key \/ signature(x) = cache[i].sig
        PROVE  S!Read(x)
    <3>1. Truthful(cache[i])
      BY DEF CacheInv
    <3>2. SameQuestion(x, cache[i].text)
      BY <2>3, <3>1 DEF Truthful, TextsTell, KeysSeparate, SignaturesSeparate
    <3>3. QED
      BY <2>3, <3>1, <3>2 DEF Truthful, SameQuestion, Serve, S!Read, S!Replies,
                              CacheInv, engine
  <2>4. ASSUME NEW x \in Texts, exact_hit(x) \/ semantic_hit(x) PROVE S!Next
    <3>1. PICK i \in DOMAIN cache :
             /\ Serve(x, i)
             /\ normalize_sql(x) = cache[i].key \/ signature(x) = cache[i].sig
      BY <2>4 DEF exact_hit, semantic_hit, SameKey, SameSig
    <3>2. S!Read(x)
      BY <2>3, <3>1
    <3>3. QED BY <3>2 DEF S!Next, S!Execute
  <2>5. ASSUME restart PROVE S!Next
    BY <2>5 DEF restart, S!Next
  <2>6. CASE Next
    BY <2>2, <2>4, <2>5, <2>6 DEF Next, execute, begin, end, write, bypass, miss
  <2>7. QED BY <2>1, <2>6
<1>3. CacheInv /\ [Next]_vars => CacheInv'
  BY CacheStep
<1>4. QED
  BY <1>1, <1>2, <1>3, CacheInitially, PTL DEF Spec, PlainSession, S!Spec

----------------------------------------------------------------------------
(* The bound on the cache and its keys, whatever the texts are: this needs *)
(* nothing of TextsTell.                                                   *)

Replied == {S!Raised, S!Message}
               \cup {S!Result(Answer(x, d)) : x \in Texts, d \in Contents}

Stored == [text : Texts, key : {normalize_sql(x) : x \in Texts},
           sig : {signature(x) : x \in Texts}, result : Replied]

KeysInv == /\ committed \in Contents /\ current \in Contents
           /\ cache \in Seq(Stored)
           /\ KeysUnique

LEMMA EngineReplies ==
  ASSUME NEW x \in Texts, committed \in Contents, current \in Contents, S!Execute(x)
  PROVE  committed' \in Contents /\ current' \in Contents /\ reply'.result \in Replied
<1>1. reply'.result \in {S!Raised, S!Message, S!Result(Answer(x, current))}
  BY DEF S!Execute, S!Raise, S!Read, S!Write, S!Begin, S!Commit, S!Lose, S!Replies
<1>2. committed' \in Contents /\ current' \in Contents
  BY SessionAssumption DEF S!Execute, S!Raise, S!Read, S!Write, S!Begin, S!Commit, S!Lose
<1>3. QED
  BY <1>1, <1>2 DEF Replied

(* An entry with a new key may be remembered: the keys stay apart, and     *)
(* forgetting the oldest entry keeps the bound.                            *)
LEMMA RememberedOnce ==
  ASSUME NEW e \in Stored, cache \in Seq(Stored), KeysUnique,
         \A i \in DOMAIN cache : cache[i].key # e.key,
         cache' = Remembered(e)
  PROVE  cache' \in Seq(Stored) /\ KeysUnique'
<1> DEFINE longer == Append(cache, e)
           n == Len(cache)
<1>1. /\ longer \in Seq(Stored) /\ Len(longer) = n + 1
      /\ n \in Nat /\ n <= MaxEntries
      /\ longer[n + 1] = e
      /\ \A i \in 1 .. n : longer[i] = cache[i]
  BY DEF KeysUnique
<1>2. /\ \A i \in 1 .. n : cache[i].key # e.key
      /\ \A i, j \in 1 .. n : cache[i].key = cache[j].key => i = j
  BY DEF KeysUnique
<1>3. longer # <<>>
  <2>1. \A s \in Seq(Stored) : Len(s) = n + 1 => s # <<>>
    BY <1>1, LenProperties, EmptySeq
  <2>2. QED BY <1>1, <2>1
<1>4. Remembered(e) = IF Len(longer) > MaxEntries THEN Tail(longer) ELSE longer
  BY DEF Remembered
<1> HIDE DEF longer, n
<1>5. \A i, j \in 1 .. n + 1 : longer[i].key = longer[j].key => i = j
  <2> SUFFICES ASSUME NEW i \in 1 .. n + 1, NEW j \in 1 .. n + 1,
                      longer[i].key = longer[j].key
               PROVE  i = j
    OBVIOUS
  <2>1. \A k \in 1 .. n + 1 : k \in 1 .. n \/ k = n + 1
    BY <1>1
  <2>2. CASE i \in 1 .. n /\ j \in 1 .. n
    BY <1>1, <1>2, <2>2
  <2>3. CASE i = n + 1 /\ j \in 1 .. n
    BY <1>1, <1>2, <2>3
  <2>4. CASE i \in 1 .. n /\ j = n + 1
    BY <1>1, <1>2, <2>4
  <2>5. QED BY <2>1, <2>2, <2>3, <2>4
<1>6. /\ Tail(longer) \in Seq(Stored) /\ Len(Tail(longer)) = n
      /\ \A i \in 1 .. n : i + 1 \in 1 .. n + 1 /\ Tail(longer)[i] = longer[i + 1]
  BY <1>1, <1>3
<1>7. CASE n + 1 > MaxEntries
  <2>1. cache' = Tail(longer)
    BY <1>1, <1>4, <1>7
  <2>2. cache' \in Seq(Stored) /\ Len(cache') = n /\ DOMAIN cache' = 1 .. n
    BY <1>6, <2>1
  <2>3. \A i, j \in 1 .. n : cache'[i].key = cache'[j].key => i = j
    <3> SUFFICES ASSUME NEW i \in 1 .. n, NEW j \in 1 .. n,
                        cache'[i].key = cache'[j].key
                 PROVE  i = j
      OBVIOUS
    <3>1. i + 1 = j + 1
      BY <1>5, <1>6, <2>1
    <3>2. QED BY <3>1, <1>1
  <2>4. QED
    BY <1>1, <2>2, <2>3 DEF KeysUnique
<1>8. CASE ~(n + 1 > MaxEntries)
  <2>1. cache' = longer
    BY <1>1, <1>4, <1>8
  <2>2. cache' \in Seq(Stored) /\ Len(cache') = n + 1 /\ DOMAIN cache' = 1 .. n + 1
    BY <1>1, <2>1
  <2>3. n + 1 <= MaxEntries
    BY <1>1, <1>8, MaxEntriesAssumption
  <2>4. QED
    BY <1>5, <2>1, <2>2, <2>3 DEF KeysUnique
<1>9. QED BY <1>7, <1>8

LEMMA KeysEmptied == cache' = <<>> => cache' \in Seq(Stored) /\ KeysUnique'
<1> SUFFICES ASSUME cache' = <<>> PROVE cache' \in Seq(Stored) /\ KeysUnique'
  OBVIOUS
<1>1. cache' \in Seq(Stored) /\ Len(cache') = 0 /\ DOMAIN cache' = {}
  BY EmptySeq
<1>2. QED
  BY <1>1, MaxEntriesAssumption DEF KeysUnique

LEMMA KeysStep == KeysInv /\ [Next]_vars => KeysInv'
<1> SUFFICES ASSUME KeysInv, [Next]_vars PROVE KeysInv'
  OBVIOUS
<1>1. ASSUME cache' = cache PROVE cache' \in Seq(Stored) /\ KeysUnique'
  BY <1>1 DEF KeysInv, KeysUnique
<1>2. ASSUME NEW x \in Texts, S!Execute(x), cache' \in {cache, <<>>} PROVE KeysInv'
  BY <1>1, <1>2, KeysEmptied, EngineReplies DEF KeysInv
<1>3. ASSUME NEW x \in Texts, begin(x) \/ end(x) \/ write(x) \/ bypass(x) PROVE KeysInv'
  <2>1. S!Execute(x) /\ cache' \in {cache, <<>>}
    BY <1>3 DEF begin, end, write, bypass
  <2>2. QED BY <1>2, <2>1
<1>4. ASSUME NEW x \in Texts, exact_hit(x) \/ semantic_hit(x) PROVE KeysInv'
  BY <1>1, <1>4 DEF exact_hit, semantic_hit, Serve, engine, KeysInv
<1>5. ASSUME NEW x \in Texts, miss(x) PROVE KeysInv'
  <2>1. S!Execute(x)
    BY <1>5 DEF miss
  <2>2. CASE RaisedNow
    BY <1>2, <1>5, <2>1, <2>2 DEF miss
  <2>3. CASE ~RaisedNow
    <3> DEFINE e == Answered(x)
    <3>1. committed' \in Contents /\ current' \in Contents /\ reply'.result \in Replied
      BY <2>1, EngineReplies DEF KeysInv
    <3>2. e \in Stored /\ e.key = normalize_sql(x)
      BY <3>1 DEF Answered, Stored
    <3>3. cache' = Remembered(e)
      BY <1>5, <2>3 DEF miss
    <3>4. \A i \in DOMAIN cache : cache[i].key # e.key
      BY <1>5, <3>2 DEF miss, SameKey
    <3> HIDE DEF e
    <3>5. cache' \in Seq(Stored) /\ KeysUnique'
      BY <3>2, <3>3, <3>4, RememberedOnce DEF KeysInv
    <3>6. QED BY <3>1, <3>5 DEF KeysInv
  <2>4. QED BY <2>2, <2>3
<1>6. CASE restart
  BY <1>6, KeysEmptied DEF restart, S!Restart, KeysInv
<1>7. CASE UNCHANGED vars
  BY <1>1, <1>7 DEF vars, KeysInv
<1>8. QED
  BY <1>3, <1>4, <1>5, <1>6, <1>7 DEF Next, execute

LEMMA KeysInitially == Init => KeysInv
<1> SUFFICES ASSUME Init PROVE KeysInv
  OBVIOUS
<1>1. cache \in Seq(Stored) /\ Len(cache) = 0 /\ DOMAIN cache = {}
  BY EmptySeq DEF Init
<1>2. QED
  BY <1>1, MaxEntriesAssumption DEF Init, S!Init, KeysInv, KeysUnique

(* The cache never holds more than max_entries answers, and no key twice,  *)
(* through hits, misses, evictions and writes (semantic_cache.py:166-185). *)
(* No text needs to be well behaved for this.                              *)
THEOREM KeysOnce == Spec => []KeysUnique
<1>1. KeysInv => KeysUnique
  BY DEF KeysInv
<1>2. QED
  BY <1>1, KeysInitially, KeysStep, PTL DEF Spec

----------------------------------------------------------------------------
(* The loop.                                                               *)

Names == Registered \cup (UNION {NamesIn(x) : x \in Texts})
                    \cup (UNION {TablesIn(d) : d \in Contents})

Cleaned == {clean_sql(raw) : raw \in ModelAnswers} \ {NoText}

(* What is in the history was written by the rules or cleaned from what    *)
(* the model said.                                                         *)
HistoryInv == /\ history \in Seq([sql : Texts, by : {"rules", "llm"}])
              /\ \A i \in DOMAIN history :
                    history[i].by = "llm" => history[i].sql \in Cleaned

----------------------------------------------------------------------------
LEMMA CleanedTexts == Cleaned \subseteq Texts
  BY TranslationsAssumption DEF Cleaned

LEMMA HistoryTexts ==
  ASSUME HistoryInv, NEW i \in DOMAIN history
  PROVE  history[i].sql \in Texts
<1>1. history \in Seq([sql : Texts, by : {"rules", "llm"}]) /\ i \in 1 .. Len(history)
  BY DEF HistoryInv
<1>2. history[i] \in [sql : Texts, by : {"rules", "llm"}]
  BY <1>1, ElementOfSeq
<1>3. QED BY <1>2

LEMMA NotedTrue ==
  ASSUME HistoryInv, NEW sql \in Texts, NEW by \in {"rules", "llm"},
         by = "llm" => sql \in Cleaned, Noted(sql, by)
  PROVE  HistoryInv'
<1> DEFINE e == [sql |-> sql, by |-> by]
           H == [sql : Texts, by : {"rules", "llm"}]
<1>1. e \in H /\ history \in Seq(H) /\ history' = Append(history, e)
  BY DEF Noted, HistoryInv
<1>2. e.by = "llm" => e.sql \in Cleaned
  OBVIOUS
<1> HIDE DEF e, H
<1>3. /\ history' \in Seq(H)
      /\ \A i \in DOMAIN history' : history'[i] = e \/ (i \in DOMAIN history
                                                        /\ history'[i] = history[i])
  BY <1>1
<1>4. QED
  BY <1>2, <1>3 DEF HistoryInv, H

(* Every turn is a step of the cached session or none, and keeps the       *)
(* history.                                                                *)
LEMMA Turn ==
  ASSUME HistoryInv, ReplNext
  PROVE  HistoryInv' /\ (Next \/ UNCHANGED vars)
<1>1. ASSUME NEW x \in Typed, line(x) PROVE HistoryInv' /\ Next
  BY <1>1, TranslationsAssumption DEF line, Run, Next, HistoryInv
<1>2. ASSUME NEW name \in Registered, tables(name) PROVE HistoryInv' /\ UNCHANGED vars
  BY <1>2 DEF tables, HistoryInv
<1>3. ASSUME NEW q \in Questions, ask_rules(q) PROVE HistoryInv' /\ Next
  BY <1>3, NotedTrue DEF ask_rules, Run, Next
<1>4. ASSUME NEW q \in Questions, NEW raw \in ModelAnswers, ask_model(q, raw)
      PROVE  HistoryInv' /\ Next
  <2>1. clean_sql(raw) \in Cleaned /\ clean_sql(raw) \in Texts
    BY <1>4, CleanedTexts DEF ask_model, Cleaned
  <2>2. HistoryInv'
    BY <1>4, <2>1, NotedTrue DEF ask_model
  <2>3. QED
    BY <1>4, <2>1, <2>2 DEF ask_model, Run, Next
<1>5. ASSUME NEW q \in Questions, NEW raw \in ModelAnswers, ask_rejected(q, raw)
      PROVE  HistoryInv' /\ UNCHANGED vars
  <2>1. clean_sql(raw) \in Cleaned /\ clean_sql(raw) \in Texts
    BY <1>5, CleanedTexts DEF ask_rejected, Cleaned
  <2>2. QED
    BY <1>5, <2>1, NotedTrue DEF ask_rejected
<1>6. ASSUME NEW q \in Questions, NEW i \in DOMAIN history, ask_history(q, i)
      PROVE  HistoryInv' /\ Next
  <2>1. history[i].sql \in Texts
    BY HistoryTexts
  <2>2. QED
    BY <1>6, <2>1 DEF ask_history, Run, Next, HistoryInv
<1>7. CASE again
  <2>1. history' \in Seq([sql : Texts, by : {"rules", "llm"}]) /\ DOMAIN history' = {}
    BY <1>7, EmptySeq DEF again
  <2>2. QED
    BY <1>7, <2>1 DEF again, Next, HistoryInv
<1>8. QED
  BY <1>1, <1>2, <1>3, <1>4, <1>5, <1>6, <1>7 DEF ReplNext

LEMMA HistoryInitially == ReplInit => HistoryInv
  BY EmptySeq DEF ReplInit, HistoryInv

LEMMA TurnOrNone == HistoryInv /\ [ReplNext]_replVars => HistoryInv' /\ [Next]_vars
<1> SUFFICES ASSUME HistoryInv, [ReplNext]_replVars PROVE HistoryInv' /\ [Next]_vars
  OBVIOUS
<1>1. CASE ReplNext
  BY <1>1, Turn
<1>2. CASE UNCHANGED replVars
  BY <1>2 DEF replVars, HistoryInv
<1>3. QED BY <1>1, <1>2

(* The loop is a session with the cache (main.py:119-213).                 *)
THEOREM ReplCached == ReplSpec => Spec
<1>1. ReplInit => Init
  BY DEF ReplInit
<1>2. QED
  BY <1>1, HistoryInitially, TurnOrNone, PTL DEF ReplSpec, Spec

(* The cache cannot be noticed in the loop either.                         *)
THEOREM ReplTransparent == TextsTell => (ReplSpec => PlainSession)
  BY ReplCached, Transparent

(* Nor does the prompt tell a lie (main.py:128).                           *)
THEOREM ReplPromptTrue == TextsTell => (ReplSpec => []PromptTells)
  BY ReplCached, PromptTrue

(* And the loop cannot make the cache outgrow its bound, or hold a key     *)
(* twice (semantic_cache.py:166-185).                                      *)
THEOREM ReplKeysOnce == ReplSpec => []KeysUnique
  BY ReplCached, KeysOnce

----------------------------------------------------------------------------
(* Reading only.                                                           *)

LEMMA ReadsOnly ==
  ASSUME NEW x \in Texts, KindOf(x) \in {"read", "invalid"}, execute(x)
  PROVE  UNCHANGED engine
<1>1. ASSUME S!Execute(x) PROVE UNCHANGED engine
  BY <1>1 DEF S!Execute, S!Raise, S!Read, S!Write, S!Begin, S!Commit, S!Lose, engine
<1>2. ASSUME exact_hit(x) \/ semantic_hit(x) PROVE UNCHANGED engine
  BY <1>2 DEF exact_hit, semantic_hit, Serve
<1>3. QED
  BY <1>1, <1>2 DEF execute, begin, end, write, bypass, miss

LEMMA CleanedRead ==
  ASSUME SelectsRead, NEW x \in Cleaned
  PROVE  KindOf(x) \in {"read", "invalid"}
<1>1. PICK raw \in ModelAnswers : x = clean_sql(raw) /\ x # NoText
  BY DEF Cleaned
<1>2. x[1].low = "select"
  BY <1>1 DEF clean_sql
<1>3. QED
  BY <1>2, CleanedTexts DEF SelectsRead

(* Whatever the model says, and whenever it comes back out of the history, *)
(* it changes nothing, as long as what starts with SELECT is a SELECT      *)
(* (clean_sql, llm_ask.py:39-51; the history, ask.py:258-283).             *)
THEOREM ModelReads == SelectsRead => (ReplSpec => ModelOnlyReads)
<1> SUFFICES ASSUME SelectsRead PROVE ReplSpec => ModelOnlyReads
  OBVIOUS
<1> DEFINE ByRules == engine' # engine =>
                        /\ \A q \in Questions, raw \in ModelAnswers : ~ask_model(q, raw)
                        /\ \A q \in Questions, i \in DOMAIN history :
                              history[i].by = "llm" => ~ask_history(q, i)
<1>1. ASSUME HistoryInv PROVE ByRules
  <2>1. ASSUME NEW q \in Questions, NEW raw \in ModelAnswers, ask_model(q, raw)
        PROVE  UNCHANGED engine
    <3>1. clean_sql(raw) \in Cleaned /\ clean_sql(raw) \in Texts
      BY <2>1, CleanedTexts DEF ask_model, Cleaned
    <3>2. execute(clean_sql(raw))
      BY <2>1 DEF ask_model, Run
    <3>3. QED BY <3>1, <3>2, CleanedRead, ReadsOnly
  <2>2. ASSUME NEW q \in Questions, NEW i \in DOMAIN history,
               history[i].by = "llm", ask_history(q, i)
        PROVE  UNCHANGED engine
    <3>1. history[i].sql \in Cleaned /\ history[i].sql \in Texts
      BY <1>1, <2>2, CleanedTexts DEF HistoryInv
    <3>2. execute(history[i].sql)
      BY <2>2 DEF ask_history, Run
    <3>3. QED BY <3>1, <3>2, CleanedRead, ReadsOnly
  <2>3. QED BY <2>1, <2>2
<1>2. HistoryInv /\ [ReplNext]_replVars => HistoryInv'
  BY TurnOrNone
<1>3. QED
  BY <1>1, <1>2, HistoryInitially, PTL DEF ReplSpec, ModelOnlyReads

----------------------------------------------------------------------------
(* Knowing the tables.                                                     *)

TablesInv == /\ committed \in Contents /\ current \in Contents
             /\ known_tables \in Seq(Names)
             /\ TablesIn(committed) \subseteq Known
             /\ TablesIn(current) \subseteq Known

LEMMA RegisteringKeeps ==
  ASSUME known_tables \in Seq(Names), NEW name \in Names,
         known_tables' = Registering(name)
  PROVE  known_tables' \in Seq(Names) /\ Known' = Known \cup {name}
<1>1. CASE name \in Known
  BY <1>1 DEF Registering, Known
<1>2. CASE name \notin Known
  <2>1. known_tables' = Append(known_tables, name)
    BY <1>2 DEF Registering
  <2>2. /\ known_tables' \in Seq(Names)
        /\ DOMAIN known_tables' = 1 .. Len(known_tables) + 1
        /\ DOMAIN known_tables = 1 .. Len(known_tables) /\ Len(known_tables) \in Nat
        /\ \A i \in 1 .. Len(known_tables) : known_tables'[i] = known_tables[i]
        /\ known_tables'[Len(known_tables) + 1] = name
    BY <2>1
  <2>3. 1 .. Len(known_tables) + 1 = (1 .. Len(known_tables)) \cup {Len(known_tables) + 1}
    BY <2>2
  <2>4. Known' = {known_tables'[i] : i \in 1 .. Len(known_tables)} \cup {name}
    BY <2>2, <2>3 DEF Known
  <2>5. {known_tables'[i] : i \in 1 .. Len(known_tables)} = Known
    BY <2>2 DEF Known
  <2>6. QED BY <2>2, <2>4, <2>5
<1>3. QED BY <1>1, <1>2

LEMMA TrackedKeeps ==
  ASSUME known_tables \in Seq(Names), NEW x \in Texts, known_tables' = Tracked(x)
  PROVE  known_tables' \in Seq(Names) /\ Known' = Known \cup NamesIn(x)
<1>1. CASE NamesIn(x) = {}
  BY <1>1 DEF Tracked, Known
<1>2. CASE NamesIn(x) # {}
  <2>1. NamesIn(x) = {stripped(x, ThirdWord(x))}
    BY <1>2 DEF NamesIn
  <2>2. stripped(x, ThirdWord(x)) \in Names
    BY <2>1 DEF Names
  <2>3. QED
    BY <1>2, <2>1, <2>2, RegisteringKeeps DEF Tracked
<1>3. QED BY <1>1, <1>2

LEMMA Discovered ==
  ASSUME NEW d \in Contents, NEW s \in discover_tables(d)
  PROVE  s \in Seq(Names) /\ TablesIn(d) = {s[i] : i \in DOMAIN s}
<1>1. Cardinality(TablesIn(d)) \in Nat
  BY TablesAssumption, FS_CardinalityType
<1>2. s \in [1 .. Cardinality(TablesIn(d)) -> TablesIn(d)] /\ TablesIn(d) \subseteq Names
  BY DEF discover_tables, Names
<1>3. s \in Seq(Names)
  BY <1>1, <1>2
<1>4. QED BY <1>3 DEF discover_tables

(* What one call of the engine does to the tables.                         *)
LEMMA EngineTables ==
  ASSUME NamesTell, NEW x \in Texts, committed \in Contents, current \in Contents,
         S!Execute(x) \/ UNCHANGED engine
  PROVE  /\ committed' \in Contents /\ current' \in Contents
         /\ \A d \in {committed', current'} :
               TablesIn(d) \subseteq TablesIn(committed) \cup TablesIn(current) \cup NamesIn(x)
<1>1. CASE S!Raise(x) \/ S!Read(x) \/ S!Begin(x) \/ UNCHANGED engine
  BY <1>1 DEF S!Raise, S!Read, S!Begin, engine
<1>2. CASE S!Write(x)
  <2>1. current' \in Outcomes(x, current) /\ committed' \in {committed, current'}
    BY <1>2 DEF S!Write
  <2>2. current' \in Contents
    BY <2>1, SessionAssumption
  <2>3. TablesIn(current') \subseteq TablesIn(current) \cup NamesIn(x)
    BY <2>1 DEF NamesTell
  <2>4. QED BY <2>1, <2>2, <2>3
<1>3. CASE S!Commit(x)
  BY <1>3 DEF S!Commit
<1>4. CASE S!Lose(x)
  BY <1>4 DEF S!Lose
<1>5. QED
  BY <1>1, <1>2, <1>3, <1>4 DEF S!Execute

LEMMA RunTables ==
  ASSUME NamesTell, TablesInv, NEW x \in Texts, Run(x)
  PROVE  TablesInv'
<1>1. S!Execute(x) \/ UNCHANGED engine
  BY DEF Run, execute, begin, end, write, bypass, miss, exact_hit, semantic_hit, Serve
<1>2. known_tables' \in Seq(Names) /\ Known' = Known \cup NamesIn(x)
  BY TrackedKeeps DEF Run, TablesInv
<1>3. QED
  BY <1>1, <1>2, EngineTables DEF TablesInv

LEMMA TurnTables == NamesTell /\ HistoryInv /\ TablesInv /\ [ReplNext]_replVars => TablesInv'
<1> SUFFICES ASSUME NamesTell, HistoryInv, TablesInv, [ReplNext]_replVars
             PROVE  TablesInv'
  OBVIOUS
<1>1. CASE UNCHANGED replVars
  BY <1>1 DEF replVars, vars, TablesInv, Known
<1>2. ASSUME NEW x \in Typed, line(x) PROVE TablesInv'
  BY <1>2, RunTables, TranslationsAssumption DEF line
<1>3. ASSUME NEW name \in Registered, tables(name) PROVE TablesInv'
  <2>1. known_tables' \in Seq(Names) /\ Known' = Known \cup {name}
    BY <1>3, RegisteringKeeps DEF tables, TablesInv, Names
  <2>2. QED
    BY <1>3, <2>1 DEF tables, vars, TablesInv
<1>4. ASSUME NEW q \in Questions, ask_rules(q) PROVE TablesInv'
  BY <1>4, RunTables DEF ask_rules
<1>5. ASSUME NEW q \in Questions, NEW raw \in ModelAnswers, ask_model(q, raw)
      PROVE  TablesInv'
  <2>1. clean_sql(raw) \in Texts
    BY <1>5, CleanedTexts DEF ask_model, Cleaned
  <2>2. QED
    BY <1>5, <2>1, RunTables DEF ask_model
<1>6. ASSUME NEW q \in Questions, NEW raw \in ModelAnswers, ask_rejected(q, raw)
      PROVE  TablesInv'
  BY <1>6 DEF ask_rejected, vars, TablesInv, Known
<1>7. ASSUME NEW q \in Questions, NEW i \in DOMAIN history, ask_history(q, i)
      PROVE  TablesInv'
  BY <1>7, HistoryTexts, RunTables DEF ask_history
<1>8. CASE again
  <2>1. committed' = committed /\ current' = committed
    BY <1>8 DEF again, restart, S!Restart
  <2>2. known_tables' \in discover_tables(committed)
    BY <1>8, <2>1 DEF again
  <2>3. known_tables' \in Seq(Names) /\ TablesIn(committed) = Known'
    BY <2>2, Discovered DEF TablesInv, Known
  <2>4. QED
    BY <2>1, <2>3 DEF TablesInv
<1>9. QED
  BY <1>1, <1>2, <1>3, <1>4, <1>5, <1>6, <1>7, <1>8 DEF ReplNext

LEMMA TablesInitially == ReplInit => TablesInv
<1> SUFFICES ASSUME ReplInit PROVE TablesInv
  OBVIOUS
<1>1. committed \in Contents /\ current = committed /\ known_tables \in discover_tables(committed)
  BY DEF ReplInit, Init, S!Init
<1>2. QED
  BY <1>1, Discovered DEF TablesInv, Known

(* ASK knows every table, through rollbacks and restarts, if a text        *)
(* creates no table but the one its third word names                       *)
(* (main.py:91-93, main.py:190-195).                                       *)
THEOREM TablesFound == NamesTell => (ReplSpec => []TablesKnown)
<1> SUFFICES ASSUME NamesTell PROVE ReplSpec => []TablesKnown
  OBVIOUS
<1>1. TablesInv => TablesKnown
  BY DEF TablesInv, TablesKnown
<1>2. HistoryInv /\ [ReplNext]_replVars => HistoryInv'
  BY TurnOrNone
<1>3. HistoryInv /\ TablesInv /\ [ReplNext]_replVars => TablesInv'
  BY TurnTables
<1>4. QED
  BY <1>1, <1>2, <1>3, HistoryInitially, TablesInitially, PTL DEF ReplSpec
=============================================================================
