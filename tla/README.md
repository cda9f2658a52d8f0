# A TLA+ model of SnailDB

SnailDB is a small SQL database: a Rust engine over the key-value store redb
(`snail_core`), Python layers above it (`snail_ai`: a semantic cache and
natural-language translators) and a REPL (`snail_cli`). This directory holds a
model of it in TLA+, the TLC configurations that check the model on small
instances, and proofs, checked by TLAPS, of theorems that hold for every
instance.

## Inventory

| Component | State | Operations | Used by |
|---|---|---|---|
| Storage, `storage/mod.rs` | the redb table; the write buffer of an open transaction (puts and tombstones) | begin, commit, rollback, snapshot, restore, get, put, delete, scan_prefix, scan_range, delete_prefix | catalog, executor |
| Catalog, `catalog/mod.rs` | `catalog:<t>` keys of Storage | create_table, save_schema, get_schema, list_tables (drop_table has no caller) | executor |
| Executor, `executor/mod.rs`: writes | `row:`, `meta:`, `idx:` keys of Storage; the snapshot of the running statement | BEGIN, COMMIT, ROLLBACK, CREATE TABLE, CREATE INDEX, INSERT, UPDATE, DELETE | bridge |
| Executor: WHERE and planner | none | eval_expr, compare, coerce_value, conjuncts, choose_index, index_candidate_keys, scan_rows | reads and writes |
| Executor: reads | none | SELECT (joins, WHERE, ORDER BY, LIMIT, GROUP BY, HAVING, aggregates), EXPLAIN, SHOW TABLES, DESCRIBE | bridge |
| Lexer, parser, `sql/` | position in the text | tokenize, parse | bridge |
| Bridge, `lib.rs` | none | SnailDB.execute: a text gives a result or an exception | cache, REPL |
| Semantic cache, `semantic_cache.py` | list of cached answers; flag in_transaction | execute | REPL |
| ASK and LLM translators, `ask.py`, `llm_ask.py` | past questions and their SQL | translate: rules, then a local model, then the history; clean_sql | REPL |
| REPL, `main.py` | list of known tables | one line at a time: SQL, `\tables`, ASK with an EXPLAIN gate | the user |

Calls go strictly downwards; nothing calls back. The bridge holds Python's
interpreter lock for a whole statement, so statements never interleave. What is
hard in this system is not concurrency but *failure and history*:

- every redb access may fail, in the middle of a statement or of a commit, and
  the process may stop at any point; statements and transactions must be whole;
- indexes are redundant copies of column values that every write must keep up;
- UPDATE, DELETE and CREATE INDEX work from rows read before they write;
- an index must never change what a WHERE selects;
- the cache keeps its own idea of the transaction and decides from the text
  alone which two queries are the same;
- a text is read three times by three programs: the parser, the cache and the
  REPL, which looks for table names in it;
- SQL may come from a model that can say anything, and is kept and run again.

What makes each component correct:

- *Storage*: it is indistinguishable from one dictionary with transactions.
- *Executor*: statements are atomic whatever fails; row ids are not reused;
  indexes hold exactly the entries of the rows; using one is invisible.
- *Lexer and parser*: a statement says what its text says, with the usual
  precedence; what follows it changes nothing.
- *EXPLAIN*: a plan names the steps that executing the statement takes.
- *Semantic cache*: a session with it cannot be told from one without it.
- *REPL*: ASK knows the tables there are, the prompt knows whether a transaction
  is open, and what a model says never writes.

The full list of hazards, each with its line and the properties that cover it,
is `hazards` in PROJECT.json.

## Modules

```
KVStore   <=  Storage          Storage implements KVStore     (StorageProofs)
Where  <-  Statements  <-  Engine  =>  SQLDatabase            Engine implements SQLDatabase
             (EngineProofs: invariants of Engine, and the implementation)
Where  <-  Query               SELECT, and its EXPLAIN, after parsing (QueryProofs)
Where  <-  WhereProofs         what the planner may leave out
IndexKeys                      the bytes of index keys, against the order Where assumes
                               (IndexKeysProofs)
Ranks                          recursion on a rank, for WhereProofs, QueryProofs,
                               IndexKeysProofs and BridgeProofs
Lexer  <-  Parser  <-  Bridge  from a text to a statement; the cache's key of the text
                               (BridgeProofs)
Bridge  <-  Meaning            what statements, conditions and their printing in plans mean
Session  <=  SemanticCache     the cached session is a session
             SemanticCache  <=  Repl    every turn of the REPL is a step of it
             (ReplProofs: theorems of both)
```

(`<-` is EXTENDS, `<=` and `=>` point from the implementation to what it implements.)

**KVStore** is what the storage layer promises: `durable` and `working`
contents, at most one transaction, a snapshot that undoes one statement.

**Storage** is `storage/mod.rs`, one action per method. `db` is the redb table,
`txn` the `Mutex<Option<TxnBuffer>>` (`NoTxn` is Rust's `None`, an entry `Absent`
a tombstone, `Untouched` a key the buffer does not have). A redb write
transaction is atomic; any redb access may fail (`..._fails`), with the buffer
left as the code leaves it at that line: a failing `commit` has lost the buffer, a
failing `delete` in a transaction has already hidden its key. A redb commit
that reports an error is taken to have changed nothing. `snap` is the
snapshot held by `execute_atomically`, whose use of the interface bounds the
order of calls: writes of a statement come only in a transaction, BEGIN, COMMIT
and ROLLBACK between statements.

**Where** is the WHERE clause: values, `coerce_value`, `compare`, `eval_expr`, and
the planner: `conjuncts`, `choose_index`, `index_candidate_keys`, `scan_rows`. Strings
are their places in byte order, which is all that comparisons use; printing and
parsing integers are the functions `TextOf` and `IntOf`. An expression is a finite tree: `WhereAssumption`
says so with `Depth`, which grows from a part to the whole, and that there is one NULL literal. A scan gives row ids, or places in a list of
rows, as a set; `InOrder` and `Picked` put them in ascending order, which is the order of the keys in the store.
The encoded index keys are represented by the order they stand for, which **IndexKeys** justifies:
there a key is a sequence of bytes, an integer is written in two's complement
with its sign bit turned over, a string byte by byte, and the searches are scans of a
range or prefix of keys; their results are compared with the values themselves. `Weight[k]` is
what a digit with k digits after it counts; `KeysAssumption` says that the strings are sequences of bytes and that
row ids fit into their digits.

**Statements** is what one statement says about one row.

**Engine** is the write path of the executor over the contents KVStore shows:
`view` is what a read sees, `disk` what a restart finds. `Start` is the head of
`execute_atomically`; `Plan` is a handler's validation and the collection of its
rows (`Reported` answers SHOW TABLES, DESCRIBE and the EXPLAIN of a write from `view`); `InsertRow`, `UpdateRow`, `DeleteRow`, `SkipRow`, `BackfillRow` process one row
with its index entries; `Finish`, `FinishFails` and `Abort` are its three ends. A failure or a
crash may come between any two of them. A row and its index entries are one step:
a failure between them is undone by the same restore as one before them, and
`view` is not visible outside the statement until it ends. A storage error while a schema is read is
worded by the code as a missing table; here every answer caused by the storage
is `StorageError`.

**SQLDatabase** is the promise to the user: tables as lists of rows in insertion
order, atomic statements, transactions; no row ids, entries, plans or
intermediate states. A column an INSERT left out is missing from the row, which
differs from NULL: only a column named in an INSERT with NULL holds one.

**Query** is `exec_select` and `exec_grouped`, one stage an action: `Scan`, `Join` (once
per JOIN), `Filter`, then `Order` and `Project`, or `Group` and `Compute`; `NoSuchTable`,
`AggregateUngrouped`, `Invalid` and `NotComputable` are the refusals. Combined rows keep
`table.column` keys as pairs; a bare name is the first key in byte order that ends
in it (`FirstKey`), for output columns that of the first row (`OutKey`). Integers
are compared as floats where the code does (`as_f64`: ties to even above `Exact`) and
sums stop at `MaxInt`. Where a comparator is not a total order, which happens with NULLs,
`sort_by` may return any permutation or panic (`SortPanics`). `Explain` is `exec_explain`:
the same statement described instead of run. Headers and printing are left out.
`QueryAssumption` says of constants what the code's types say: a statement has its clauses, with lists as sequences,
a stored row has columns of its table with values of their types, and no table is named by the empty string. Only
COUNT takes a `*` (the parser refuses others); a HAVING condition is a finite tree (`HavingAssumption`).

**Lexer**, **Parser** and **Bridge** are `sql/` and `SnailDB.execute`. A text is a
sequence of characters, except that a run of letters written together is one symbol (a
word); keywords and aggregate names are words in any case. Each `parse_`
operator is the method of that name; where the code inlines a loop or a clause in
`parse_select` or `parse_insert` it is an operator of its own. The literal of a LIMIT becomes an unsigned
number of 64 bits (`as_usize`), so that LIMIT -1 is 2^64 - 1: it limits nothing, in Query as in the code. An error is kept as
"eof" when the tokens ended too early and "syntax" otherwise. In Bridge a text grows and is read
again at each step (`Character`, `Phrase`, `Trailing`), so that what was read before and after can
be compared. Bridge also has the regular expression with which the cache reads the same
text (`TokenEnd`, `normalize_sql`). Lists, expressions, joins and runs of statements are read by
recursive functions of the place where they begin. `BridgeAssumption` says what texts are made of.

**Meaning** has the printing of conditions in plans (`fmt_expr`, `wrap`), and gives a text and a syntax tree their
meaning independently of the parser: which comparisons make a condition true by the standard
precedence, and how a statement would be written, with its lists and their brackets (those of conditions are the precedence's). It is recursive over trees, so its properties are only checked.

**Session** is the engine as the Python side sees it, with what a query answers
left as a parameter. **SemanticCache** is `semantic_cache.py` in front of it, one
action per way through `execute`. A text is its sequence of tokens, each with its
class, spelling, lower-case spelling and whether white space separates it from
the one before. The similarity of two embeddings is any value: `semantic_hit`
may answer from any entry with the right signature, or not happen. `restart` is the next
process, with an empty cache, on what was committed.

**Repl** is `main.py` with `ask.py` and `llm_ask.py` around SemanticCache: `line` is a line of SQL,
`tables` the `\tables` command, `ask_rules`, `ask_model`, `ask_rejected` and `ask_history`
the ways through an ASK, `again` the end of the loop and the next start. Whatever SQL comes out
goes through `Run`: first the table list (`Tracked`), then the cache. A question is a value with the names it
mentions; which SQL the rules make of it is the parameter `RuleSQL`, what the model says is any of
`ModelAnswers`, and which past question is the most similar is open.

`MC*` modules and `.cfg` files instantiate these for TLC. Operators named
`<definition>_<what is wrong>` and commented *Mutant* are broken variants of the
definition after them; with one put in place of that definition the property
listed with it in PROJECT.json fails.

## Runs

| Run | Instance | What it shows |
|---|---|---|
| `storage` | 2 keys, 2 values, all scans | Storage implements KVStore; the table moves only at commit; a snapshot stays good while a statement runs |
| `engine_rows` | 1 table, columns INTEGER and TEXT, 1 index, 2 ids, 11 statements | statements are atomic, indexes in step, ids fresh, planning invisible for 42 WHERE expressions, collected rows current, every statement ends |
| `engine_catalog` | 2 tables, 2 index names on 2 columns, 1 id, 15 statements | the same for the catalog: names unique across tables, one index per column, backfill, rollback of DDL; SHOW TABLES, DESCRIBE and EXPLAIN report what the session sees |
| `query` | 2 tables of at most 3 rows with NULLs and absent columns, 22 statements | joins, ORDER BY, grouping and HAVING lose, invent and misplace no row; totals and 64-bit overflow; comparisons by float; EXPLAIN names the steps taken |
| `query_names` | up to 2 rows of 1 table, `SELECT a` | the bare output column; see Findings |
| `index_keys` | 3-bit integers, strings of up to 2 bytes, 2 rows | scans of encoded keys find exactly the rows that compare; keys tell rows |
| `bridge` | texts of 4 characters; statements of every kind phrase by phrase, 20 phrases to continue a SELECT, WHEREs of 4 comparisons and 2 brackets | trees say what the text says, AND before OR, printed conditions mean the same, an ended statement is not changed by what follows, cache keys keep the tokens |
| `repl` | 11 texts, 3 questions, 4 answers of a model, cache of 2 entries, history of 1 | the session cannot notice the cache; coherence, eviction, prompt; ASK knows every table; model SQL only reads |
| `cache_case`, `cache_operators`, `cache_invalid` | 4 or 5 texts each | the ways in which texts are not told apart; see Findings |
| `repl_tables` | the texts of `repl`, CREATE TABLE without a space | the table ASK does not know; see Findings |

*Why the bounds are enough.* Storage treats keys independently except for
scans, commits and snapshots, which two keys exercise (one touched, one not); a
buffered value must differ from the table's, hence two values. An engine
statement treats rows one by one: two rows give a first that succeeds and a
second that fails, an index with equal and with different values, an UPDATE
that moves a row past another. `MaxId` also bounds how many rows are ever
inserted; a statement that would exceed it is not started. The statements
are chosen so that each conversion, each rejection and each index decision
happens: literals that convert, do not convert or are NULL, columns left out or
named twice, unknown columns, wrong row lengths, conditions under AND and OR.
Two entries in the cache make the third miss evict. In `query` integers are
exact as floats up to 4 and 64 bits end at 5, so that two of the stored values
already overflow and 5 is rounded; three rows are enough for a comparator to be
intransitive and for two rows of one group around one of another. In `index_keys`
the digits are bits; strings hold the lowest and the highest byte and begin one
another; what a row's key says depends on no other row. In `bridge`,
`MaxCharacters` = 4 is enough for every token of two characters with a neighbour on both sides and for
a quoted quote; integers end at `MaxInt` = 9 so that a number can be out of range. Phrases and not characters
make the longer texts: the lexer keeps no state between tokens. Of trailing
tokens one is kept after which one more phrase is tried. `MaxHistory` = 1 in `repl`: the choice among past
questions is open anyway, so that one entry is any entry.

*Fairness.* `engine_rows` checks `StatementsEnd` under `FairSpec`, which adds WF_vars(Work): a statement that has
begun is carried on. The code justifies it: a handler is a synchronous call on the caller's thread that waits
for no lock, message or answer, so it runs until it returns, unless an error or a crash, which remain possible at
each step, ends it. Nothing is assumed about the user, commits or failures. All other properties are safety
properties and checked without fairness.

*Deadlock* is checked in every run but `bridge`, where a text that has reached its bound may simply end.

## Findings

Each is a run in which TLC finds the property violated.

- `cache_case`: names are case sensitive in the engine but not in the cache's
  key. `SELECT * FROM T` after `SELECT * FROM t` is served the rows of `t`.
- `cache_operators`: the signature forgets the order of operators and columns:
  `a < 2 AND b > 1` and `a > 2 AND b < 1` may share an answer.
- `cache_invalid`: a COMMIT the engine rejects before running it leaves the
  transaction open; the cache believes it ended and caches what is read in it.

- `query_names`: the column behind a bare output name is searched in the first row
  shown. If the INSERT of that row left the column out, the column is empty in
  all rows: after `INSERT INTO t1 (b) VALUES ('y')` and `INSERT INTO t1 (a, b) VALUES (1, 'x')`,
  `SELECT a FROM t1` shows no 1.
- `repl_tables`: the REPL takes the third word of `CREATE TABLE t(a INTEGER)` for the
  name and strips parentheses at its ends only: it registers `t(a`, and ASK does not know `t` until
  the next start.

Met while modelling, and not runs of their own:

- `BEGIN;x` begins a transaction in the engine, which ignores what follows a statement, but not in
  the cache, which splits at white space. `WordsTell` excludes such texts.
- The cache's expression for string literals ends at the first quote: the key of `'it''s'` has two
  literals and differs from the engine's reading. `KeysKeepTokens` is stated for texts without a doubled quote.
- SQL that EXPLAIN refused stays in the history, and `ask_history` runs it without asking EXPLAIN again.
  `ModelOnlyReads` bounds what it can do.
- `CREATE  TABLE` with two spaces is not tracked by the REPL; texts of the model have no runs of spaces.

## Theorems

**StorageProofs** proves, for every set of keys and values, what the run
`storage` checks on four contents: `TypeCorrect`, `DurableOnlyByCommit`,
`SnapshotKept`, and `Refinement` (Storage implements KVStore, with `working`
mapped to the overlay of the buffer on the table). The type invariant is
inductive. The heart of the refinement is `ScanAgreesWithGet`: merging buffer and table
in a scan gives what reading every key through the overlay gives; then each
action maps to the KVStore action of the same name, a `get_fails` or `write_fails`
to its failing alternative.

**ReplProofs** proves of the cache when the cache is safe: assume `TextsTell`, that is,
two texts with one key, or with one signature, ask for the same, and the
first word identifies every write and transaction statement. Then the cached session
is a session (`Transparent`), the cache is always true (`Coherent`) and empty
inside transactions (`EmptyInTransaction`). The inductive invariant `CacheInv` says that an open
transaction is known to the cache, that the cache is empty while it believes
in one, and that every entry is a query with its present answer: coherence alone is not inductive, because nothing in it
says that a cached text is not a write. `PromptTrue` (the flag is the engine's open transaction) is the part of it that the prompt
rests on. `TextsTell` is a hypothesis because it is a fact about the texts of a session, and the findings
about the cache are texts that break it. `MCRepl` evaluates it on the texts of the run `repl`.

Of the REPL it proves that Repl implements SemanticCache (`ReplCached`): each turn, whichever way its SQL was found,
is a step of the cached session or leaves it alone. Everything proved of the cache therefore holds of the REPL:
`ReplTransparent` and `ReplPromptTrue`, under `TextsTell`. `ModelReads` proves `ModelOnlyReads` for whatever the model
answers, from `SelectsRead` (a text that starts with SELECT is a query or invalid). Its invariant says
that every entry of the history that came from the model starts with SELECT, because an answer may be
run long after it was accepted. `TablesFound` proves `TablesKnown` from `NamesTell` (a text creates no table but
the one its third word names), which is what `repl_tables` breaks; its invariant speaks of the committed tables too,
since a rollback brings them back.

**EngineProofs** proves, for every set of tables, columns and statements, what the
engine keeps true through failures and crashes: `TypeCorrect`, `IndexesInSync`
(indexes hold the entries of the rows and no others), `IdsFresh` (no row id is
handed out again) and `CollectedCurrent` (rows collected before a statement writes are still as
they were when their turn comes). The inductive invariant `EngineInv` has three
parts. `Sound(disk)` says of what a restart finds that it is well typed, that ids are fresh and that
indexes cover their rows; it is needed because a crash makes it the view. `Resting` says the view is sound whenever
no handler runs. `Working` says that while one runs the
snapshot is sound, since `Abort` returns to it, and how far the view is: during a backfill
the new index has the entries of the rows already visited, and the rows in
`todo` are the ones due (`DueNow`). Each action is a lemma, most of them
from facts about one row and its entries.

**WhereProofs** and `IndexesTransparent` (in EngineProofs) prove that an index never changes what a WHERE
selects, for every expression of any depth. `eval_expr` and `conjuncts` are recursive functions; that they
satisfy their equations is `Recursion` of **Ranks**, and what holds of all expressions is shown with a least
counterexample by depth (`LeastRank`). `ConjunctsHold`: what `conjuncts` takes from an
expression holds wherever the expression does. `ScanFindsAll`: so if the entries file every row under each
indexed column, the scan reads every row the WHERE selects. That the entries do so in every state of the engine comes
from `EngineInv`: an index is in the schema only once its backfill is through, and each row moves with its entries.

It also proves `Implements`: Engine implements SQLDatabase. Rows with ids, entries and plans map
to lists of rows in order of their ids (`InOrder`), and every step inside a statement to a stutter, so the last step has to
be the whole statement. The invariant `Progress` is what makes it so: of the view it says how it differs from
the snapshot. After k rows an INSERT has added rows with the k ids from the table's counter on,
an UPDATE or DELETE has changed, of the rows it is through with, exactly those the WHERE selected before it started, and
everything else is as it was. `Progress` also says that outside a transaction the view is what is on disk, which is why a
crash of the engine is a crash of the abstract database, and that a table that does not exist has no rows. What is proved of
scans is needed here again (`ViewScanComplete`): the abstract statement knows no indexes. `EngineAssumption`
says of constants what the code's types say (`NoSchema` is not a schema: an `Option`).

**IndexKeysProofs** proves what Where and Engine assume of keys, for integers of any width and strings of any
length in any base. Numbers with the same count of digits compare as their digits do
(`DigitsOrder`: at the first digit that differs, from quotients by `Weight`); the sign bit
turned over makes this the order of signed integers; strings compare byte by byte (`TextOrder`). Byte order is
total (`BelowTotal`), so the encoding keeps and reflects the order of values (`EncodeOrder`). SEP is below and
AFTER_SEP just above it, TAG_END above every digit, so each pair of bounds takes in exactly the keys of the values that
compare (`ReadsWhatCompares`); SEP is below every digit, so the last part of a key is the row id and reading it back gives the
row (`KeyNamesRow`). With the invariant `KeysInv` (the keys are those of the rows) this gives `SearchesExact` and `RowsTold`.

`KeysOnce` and `ReplKeysOnce` (ReplProofs) prove that no two entries of the cache have one
key. They need nothing of `TextsTell`: an answer is remembered only after its key was looked up and not found.

**QueryProofs** proves what SELECT makes of the stored rows, for every set of tables, any number of rows and any statement.
- `TypeCorrect`: a combined row has only columns of the statement's tables, with values of their types.
- `RowsAreComplete`: with at most one JOIN, the rows are the pairs of stored rows that satisfy ON and WHERE, each
  once, and in a LEFT JOIN each base row without a partner beside NULLs, whether or not an index narrowed the scan. The argument is `Spread`: there is
  a one-to-one map from the places of the rows to the pairs asked for. Every stage transforms it: a scan picks
  places (`ScanSpreads`, which rests on `ScanFindsAll`), a JOIN puts the lists made of each row behind one another (`JoinSpreads`, from
  `FlattenOver`), the filter keeps some places (`FilterSpreads`), sorting permutes them (`SpreadSorted`).
  Since a one-to-one map keeps the size of finite sets (`SpreadCounts`), every row then occurs as often as pairs
  give it. `CompleteInv` says for each stage which pairs the rows spread over: before the filter an index may
  already have left out rows, but none that the WHERE selects.
- `GroupsCorrect`: groups partition the rows by their keys, in first-seen order. The
  invariant is that `groups` is what `Group` computed (`GroupsInv`).
- `RowsInOrder`: if no NULL is sorted and numbers are exact as floats, the comparator is a total order and the
  rows are sorted by the clauses in turn. Each clause is a number that stands for the value, turned round by DESC (`Turned`); the
  comparator is then the lexicographic order of these numbers (`CompareRowsIs`), which is transitive (`LexTransitive`) and
  asymmetric (`LexOneWay`), so that a stable sort is bound to it.
- `PlanIsExecuted` (of `PlanAsExecuted`): EXPLAIN and SELECT do not drift apart. `ScanAsPlanned`: the rows a scan reads are
  those the plan's first line names, also by an index; and a stage whose line is missing from the plan
  leaves the rows alone: `FilterPlanned` and `OrderPlanned` (with no clause the comparator is 0, and a stable sort
  is the identity), `ComputePlanned`, `ProjectPlanned`.
- `TotalsAddUp` (of `TotalsAgree`): the COUNTs and SUMs of the groups shown add up to those of all rows. The sum of
  a list is a recursive function (`SumTo`), and does not depend on the order (`SumRenamed`) or on how the
  list is divided (`SumParts`). A fold over a list is its sum (`TotalIs`), and so is the checked one unless it
  failed (`CheckedIs`). Each row then has a weight for a cell (`Weight`): 1 for a COUNT, the number for a SUM, 0 for a NULL.
  A cell is the weight of its group (`CellWeighs`), each row weighs in one group (`GroupsWeigh`), and sorting renames
  the groups (`ComputeTotals`). The invariant adds to `GroupsInv` that grouped statements are answered by `Compute` alone.
- `HavingKeeps` (of `HavingNumeric`): HAVING on a COUNT or SUM keeps exactly the groups that satisfy it as numbers.
  `eval_having` is recursive over conditions (`HavingCompares`); as floats the numbers keep their order (`NumbersCompare`).

**BridgeProofs** proves two facts about every text over `Symbols`, of any length; the run `bridge` checks them on
phrases and short texts. The inductive invariant (`InvInvariant`) is that `tokens` and `reading` are what the lexer
and the parser make of the text; what is to be shown is then about these functions.
- `KeysKept` (of `KeysKeepTokens`): the key of a text without quotes in its literals has the tokens of the text. Each
  recursive function of the lexer satisfies its equation at each place (`Climb` of **Ranks**: the rank is what is
  left of the text). A token depends only on the symbols up to where it ends, and on the one
  after them, so it is the same wherever the symbols stand; the key puts a space there. The proof goes
  from the end of the text to its beginning: what the lexer reads in the rest of the key is what it reads in the rest of the
  text, the spelling of names aside, where the cache's expression and the lexer end a token at one place.
- `StatementsEndThere` (of `PrefixDecides`): nothing after the end of a statement changes it. For each
  `parse_` operator: a result that ends before the last token is the same when more tokens follow, and so is an error that
  is not the end of the tokens (`XFits` of an operator X). It holds of the operators one token at a time
  and is kept by their composition (`Then`); of lists, expressions, joins and runs of statements it is
  shown from the end of the tokens to the beginning. `TokenizeAppend` says that the phrase after a space adds its tokens or an error and
  leaves the others as they were.

The proofs assume only the ASSUMEs on constants, which TLC evaluates in the runs.
Only model-checked are the properties of **Meaning** (`StandardPrecedence`, `PlanConditionsFaithful`, `SaysWhatWasRead`):
what is printed is recursive over syntax trees and is counted in brackets, which needs induction over data. Out
of the prover's reach is liveness (`StatementsEnd`), which is ENABLED and fairness.

## Not modelled, and the plan

*EngineStorage*: Engine over Storage's operations, one redb call a step, so that
the key-value view of Engine is itself shown and not assumed.

Left out for good: the rounding of AVG, which is exact here; which of its errors a refused statement
reports (one refusal stands for all, beside the errors of the storage); the wording of plans, reports and messages, JSON and Python
conversions, the embedding model, the regular expressions that take conditions, orders and aggregates
out of English, the HTTP call to the local model. `drop_table` and `table_exists` of the catalog have no caller.
The documentation names a reinforcement-learning optimizer
(docs/ARCHITECTURE.md); the sources contain none.
