------------------------------- MODULE Engine ------------------------------
(***************************************************************************)
(* The write path of src/snail_core/src/executor/mod.rs: how a statement   *)
(* runs as a series of writes to the key-value store of module KVStore.    *)
(* The store's four kinds of keys are the fields of Contents:              *)
(*   catalog:<t>         schema[t]: the indexes of a table that exists     *)
(*   row:<t>:<id>        row[t][id]                                        *)
(*   meta:<t>:next_id    next_id[t], 1 when the key is absent              *)
(*   idx:<t>:<c>:<v>!<id> idx[t]: entries [column, value, id]              *)
(*                                                                         *)
(* A statement is begun, planned (validated and its rows collected), then  *)
(* applied one row at a time; each row is one step with its index entries, *)
(* since a failure inside it is undone like one before it.  Any step may   *)
(* meet a storage error, and the process may stop at any time.             *)
(***************************************************************************)
EXTENDS Statements

CONSTANTS MaxId,     \* bound: rows ever inserted into a table
          IndexNames,
          NoSchema, NoRow, NoSnapshot

VARIABLES disk,    \* contents on disk
          view,    \* contents the engine sees: disk under the write buffer
          open,    \* is there a write buffer?
          before,  \* execute_atomically's snapshot: [open, view]
          stmt,    \* the write statement being executed
          planned, \* has it been validated and have its rows been collected?
          todo,    \* its rows not yet processed
          applied, \* rows processed, the number the message reports
          reply    \* answer to the last statement

vars == <<disk, view, open, before, stmt, planned, todo, applied, reply>>

RowIds   == 1 .. MaxId
IndexDef == [name : IndexNames, column : Columns]
Entry    == [column : Columns, value : Value, id : RowIds]
Contents == [schema  : [Tables -> {NoSchema} \cup SUBSET IndexDef],
             row     : [Tables -> [RowIds -> Row \cup {NoRow}]],
             next_id : [Tables -> Nat],
             idx     : [Tables -> SUBSET Entry]]
Item     == [id : Nat, row : Row \cup {NoRow}]
Snapshot == [open : BOOLEAN, view : Contents]

ASSUME EngineAssumption == /\ MaxId \in Nat
                           /\ NoRow \notin Row
                           /\ \A D \in SUBSET IndexDef : D # NoSchema
                           /\ NoSchema \notin [rows : Seq(Row), indexes : SUBSET IndexDef]
                           /\ NoSnapshot \notin Snapshot
                           /\ \A s \in Statements :
                                  s.kind = "create_index" => s.name \in IndexNames

Ok(answer)   == <<"ok", answer>>
Rows(list)   == <<"rows", list>>
Listed(s, what) == <<s.kind, what>>
Rejected     == <<"rejected">>
StorageError == <<"storage error">>

Empty == [schema  |-> [t \in Tables |-> NoSchema],
          row     |-> [t \in Tables |-> [i \in RowIds |-> NoRow]],
          next_id |-> [t \in Tables |-> 1],
          idx     |-> [t \in Tables |-> {}]]

(* The ids of a table's rows; the indexed columns of a schema.             *)
Ids(kv, t)     == {i \in RowIds : kv.row[t][i] # NoRow}
Indexed(kv, t) == IF kv.schema[t] = NoSchema THEN {}
                  ELSE {d.column : d \in kv.schema[t]}
(* Mutant: index names are unique per table only.                          *)
NamesInUse_ofTable(kv) == IF kv.schema[stmt.table] = NoSchema THEN {}
                          ELSE {d.name : d \in kv.schema[stmt.table]}

NamesInUse(kv) == UNION {{d.name : d \in kv.schema[t]} :
                            t \in {u \in Tables : kv.schema[u] # NoSchema}}

(* Mutant: a missing column is filed as it is.                             *)
index_entries_asStored(columns, id, row) ==
    {[column |-> c, value |-> row[c], id |-> id] : c \in columns}

(* The entries of a row in indexes on the given columns.                   *)
index_entries(columns, id, row) ==
    {[column |-> c, value |-> Filed(row[c]), id |-> id] : c \in columns}

(* Mutant: the old entry stays.                                            *)
reindex_row_addOnly(entries, columns, id, old, new) ==
    entries \cup index_entries(columns, id, new)

(* An UPDATE moves the entries of the columns whose filed value changed.   *)
reindex_row(entries, columns, id, old, new) ==
    LET moved == {c \in columns : Filed(old[c]) # Filed(new[c])}
    IN  (entries \ index_entries(moved, id, old)) \cup index_entries(moved, id, new)

Init == /\ disk = Empty
        /\ view = Empty
        /\ open = FALSE
        /\ before = NoSnapshot
        /\ stmt = NoStatement
        /\ planned = FALSE
        /\ todo = {}
        /\ applied = 0
        /\ reply = Ok(0)

Idle == stmt = NoStatement

----------------------------------------------------------------------------
(* BEGIN, COMMIT, ROLLBACK and the reads, between statements.              *)

Begin == /\ Idle
         /\ open' = TRUE
         /\ reply' = IF open THEN Rejected ELSE Ok(0)
         /\ UNCHANGED <<disk, view, before, stmt, planned, todo, applied>>

Commit == /\ Idle
          /\ disk' = view
          /\ open' = FALSE
          /\ reply' = IF open THEN Ok(0) ELSE Rejected
          /\ UNCHANGED <<view, before, stmt, planned, todo, applied>>

(* The buffer is gone, whatever the disk answers.                          *)
CommitFails == /\ Idle /\ open
               /\ view' = disk
               /\ open' = FALSE
               /\ reply' = StorageError
               /\ UNCHANGED <<disk, before, stmt, planned, todo, applied>>

Rollback == /\ Idle
            /\ view' = disk
            /\ open' = FALSE
            /\ reply' = IF open THEN Ok(0) ELSE Rejected
            /\ UNCHANGED <<disk, before, stmt, planned, todo, applied>>

(* The rows shown for SELECT *: those the plan names, filtered by the      *)
(* whole WHERE, by row id.                                                 *)
Selected(s) ==
    LET rows == view.row[s.table]
        named == scan_rows(Ids(view, s.table), view.idx[s.table],
                           Indexed(view, s.table), s.where)
    IN  Picked(rows, {i \in named : Matches(s.where, rows[i])})

Select(s) == /\ Idle
             /\ reply' = IF view.schema[s.table] = NoSchema
                         THEN Rejected ELSE Rows(Selected(s))
             /\ UNCHANGED <<disk, view, open, before, stmt, planned, todo, applied>>

(* SHOW TABLES, DESCRIBE, and EXPLAIN of a write, which is not run.        *)
Reported(s) ==
    IF s.kind = "show_tables" THEN Listed(s, {t \in Tables : view.schema[t] # NoSchema})
    ELSE LET defs == view.schema[s.table]
         IN  IF defs = NoSchema THEN Rejected
             ELSE Listed(s, IF s.kind = "describe" THEN exec_describe(defs)
                         ELSE exec_explain(s.of, defs))

Report(s) == /\ Idle
             /\ reply' = Reported(s)
             /\ UNCHANGED <<disk, view, open, before, stmt, planned, todo, applied>>

ReadFails == /\ Idle
             /\ reply' = StorageError
             /\ UNCHANGED <<disk, view, open, before, stmt, planned, todo, applied>>

----------------------------------------------------------------------------
(* execute_atomically.                                                     *)

(* Bound: an INSERT starts only if its rows' ids are within MaxId.         *)
FitsIds(s) == s.kind = "insert" => view.next_id[s.table] + Len(s.rows) - 1 <= MaxId

Start(s) == /\ Idle
            /\ FitsIds(s)
            /\ before' = [open |-> open, view |-> view]
            /\ open' = TRUE
            /\ stmt' = s
            /\ UNCHANGED <<disk, view, planned, todo, applied, reply>>

Leave == /\ stmt' = NoStatement
         /\ before' = NoSnapshot
         /\ planned' = FALSE
         /\ todo' = {}
         /\ applied' = 0

(* Mutant: what the statement wrote before it failed stays.                *)
Abort_unrestored(answer) == /\ open' = before.open
                            /\ reply' = answer
                            /\ Leave
                            /\ UNCHANGED <<disk, view>>

(* The snapshot is restored: the statement leaves no trace.                *)
Abort(answer) == /\ view' = before.view
                 /\ open' = before.open
                 /\ reply' = answer
                 /\ Leave
                 /\ UNCHANGED disk

(* Any access to redb may fail.                                            *)
Fail == ~Idle /\ Abort(StorageError)

(* What the handlers check before they touch a row.                        *)
Accepted ==
    LET t == stmt.table IN
    IF stmt.kind = "create_table" THEN view.schema[t] = NoSchema
    ELSE /\ view.schema[t] # NoSchema
         /\ WellFormed(stmt)
         /\ stmt.kind = "create_index" => /\ stmt.name \notin NamesInUse(view)
                                          /\ stmt.column \notin Indexed(view, t)

Reject == ~Idle /\ ~planned /\ ~Accepted /\ Abort(Rejected)

(* The rows a statement goes through, collected before any is changed.     *)
Items ==
    LET t == stmt.table
        ItemsFor(ids) == {[id |-> i, row |-> view.row[t][i]] : i \in ids}
    IN  CASE stmt.kind = "insert" ->
                {[id |-> i, row |-> NoRow] : i \in DOMAIN stmt.rows}
          [] stmt.kind \in {"update", "delete"} ->
                ItemsFor(scan_rows(Ids(view, t), view.idx[t], Indexed(view, t),
                                   stmt.where))
          [] stmt.kind = "create_index" -> ItemsFor(Ids(view, t))

Plan == /\ ~Idle /\ ~planned
        /\ stmt.kind # "create_table" /\ Accepted
        /\ planned' = TRUE
        /\ todo' = Items
        /\ UNCHANGED <<disk, view, open, before, stmt, applied, reply>>

CreateTable == /\ ~Idle /\ ~planned
               /\ stmt.kind = "create_table" /\ Accepted
               /\ view' = [view EXCEPT !.schema[stmt.table] = {}]
               /\ planned' = TRUE
               /\ UNCHANGED <<disk, open, before, stmt, todo, applied, reply>>

(* Rows are taken in the order of their ids.                               *)
NextItem(kind) == IF stmt.kind # kind THEN {}
                  ELSE {i \in todo : \A j \in todo : i.id <= j.id}

(* Mutant: only INSERT takes a processed row off its list.                 *)
Processed_again(item, n) ==
    /\ todo' = IF stmt.kind = "insert" THEN todo \ {item} ELSE todo
    /\ applied' = applied + n
    /\ UNCHANGED <<disk, open, before, stmt, planned, reply>>

Processed(item, n) == /\ todo' = todo \ {item}
                      /\ applied' = applied + n
                      /\ UNCHANGED <<disk, open, before, stmt, planned, reply>>

(* Mutant: the counter is left at the id it gave out.                      *)
InsertRow_counterBehind(item) ==
    LET t == stmt.table
        id == view.next_id[t]
        row == InsertedRow(stmt.columns, stmt.rows[item.id])
    IN  /\ Coercible(stmt.columns, stmt.rows[item.id])
        /\ view' = [view EXCEPT
                       !.next_id[t] = id,
                       !.row[t][id] = row,
                       !.idx[t] = @ \cup index_entries(Indexed(view, t), id, row)]
        /\ Processed(item, 1)

InsertRow(item) ==
    LET t == stmt.table
        id == view.next_id[t]
        row == InsertedRow(stmt.columns, stmt.rows[item.id])
    IN  /\ Coercible(stmt.columns, stmt.rows[item.id])
        /\ id \in RowIds
        /\ view' = [view EXCEPT
                       !.next_id[t] = id + 1,
                       !.row[t][id] = row,
                       !.idx[t] = @ \cup index_entries(Indexed(view, t), id, row)]
        /\ Processed(item, 1)

(* A literal does not convert: rows inserted before it are undone.         *)
InsertMismatch(item) == /\ ~Coercible(stmt.columns, stmt.rows[item.id])
                        /\ Abort(Rejected)

UpdateRow(item) ==
    LET t == stmt.table
        row == UpdatedRow(stmt.assignments, item.row)
    IN  /\ Matches(stmt.where, item.row)
        /\ AssignableAll(stmt.assignments)
        /\ view' = [view EXCEPT
                       !.row[t][item.id] = row,
                       !.idx[t] = reindex_row(@, Indexed(view, t), item.id,
                                              item.row, row)]
        /\ Processed(item, 1)

UpdateMismatch(item) == /\ Matches(stmt.where, item.row)
                        /\ ~AssignableAll(stmt.assignments)
                        /\ Abort(Rejected)

DeleteRow(item) ==
    LET t == stmt.table
    IN  /\ Matches(stmt.where, item.row)
        /\ view' = [view EXCEPT
                       !.row[t][item.id] = NoRow,
                       !.idx[t] = @ \ index_entries(Indexed(view, t), item.id, item.row)]
        /\ Processed(item, 1)

(* Mutant: the loop does not move on.                                      *)
SkipRow_stay(item) == ~Matches(stmt.where, item.row) /\ UNCHANGED vars

(* A candidate the plan named but the whole WHERE does not select.         *)
SkipRow(item) == ~Matches(stmt.where, item.row) /\ UNCHANGED view /\ Processed(item, 0)

(* CREATE INDEX files the rows that already exist, then saves the schema.  *)
BackfillRow(item) ==
    LET t == stmt.table
    IN  /\ view' = [view EXCEPT
                       !.idx[t] = @ \cup index_entries({stmt.column}, item.id, item.row)]
        /\ Processed(item, 1)

SaveSchema ==
    LET def == [name |-> stmt.name, column |-> stmt.column]
    IN  /\ planned /\ stmt.kind = "create_index" /\ todo = {}
        /\ stmt.column \notin Indexed(view, stmt.table)
        /\ view' = [view EXCEPT !.schema[stmt.table] = @ \cup {def}]
        /\ UNCHANGED <<disk, open, before, stmt, planned, todo, applied, reply>>

(* The handler is done: an implicit transaction commits.                   *)
HandlerDone == /\ planned /\ todo = {}
               /\ stmt.kind = "create_index" =>
                      stmt.column \in Indexed(view, stmt.table)

Finish == /\ HandlerDone
          /\ disk' = IF before.open THEN disk ELSE view
          /\ open' = before.open
          /\ reply' = Ok(applied)
          /\ Leave
          /\ UNCHANGED view

(* The implicit commit fails: its buffer is gone, nothing is restored.     *)
FinishFails == /\ HandlerDone /\ ~before.open
               /\ view' = disk
               /\ open' = FALSE
               /\ reply' = StorageError
               /\ Leave
               /\ UNCHANGED disk

Crash == /\ view' = disk
         /\ open' = FALSE
         /\ Leave
         /\ UNCHANGED <<disk, reply>>

(* What the running statement does next, as long as nothing fails.         *)
Work == \/ Reject \/ Plan \/ CreateTable
        \/ \E item \in NextItem("insert") : InsertRow(item) \/ InsertMismatch(item)
        \/ \E item \in NextItem("update") :
               UpdateRow(item) \/ UpdateMismatch(item) \/ SkipRow(item)
        \/ \E item \in NextItem("delete") : DeleteRow(item) \/ SkipRow(item)
        \/ \E item \in NextItem("create_index") : BackfillRow(item)
        \/ SaveSchema \/ Finish

Next == \/ Begin \/ Commit \/ CommitFails \/ Rollback
        \/ \E s \in Selects : Select(s)
        \/ \E s \in Reports : Report(s)
        \/ ReadFails
        \/ \E s \in Writes : Start(s)
        \/ Work \/ FinishFails \/ Fail \/ Crash

Spec == Init /\ [][Next]_vars

(* A handler runs on the caller's thread and waits for nothing.            *)
FairSpec == Spec /\ WF_vars(Work)

----------------------------------------------------------------------------
(* Properties.                                                             *)

TypeOK == /\ disk \in Contents
          /\ view \in Contents
          /\ open \in BOOLEAN
          /\ before \in Snapshot \cup {NoSnapshot}
          /\ stmt \in Writes \cup {NoStatement}
          /\ planned \in BOOLEAN
          /\ todo \in SUBSET Item
          /\ applied \in Nat

EntriesOf(kv, t, c) == {e \in kv.idx[t] : e.column = c}

Filing(kv, t, c) == UNION {index_entries({c}, i, kv.row[t][i]) : i \in Ids(kv, t)}

Synced(kv, t, c) ==
    EntriesOf(kv, t, c) = IF c \in Indexed(kv, t) THEN Filing(kv, t, c) ELSE {}

(* The column a running CREATE INDEX has filed some of the rows of.        *)
Backfilling(t, c) == /\ stmt.kind = "create_index" /\ planned
                     /\ t = stmt.table /\ c = stmt.column

(* An index holds one entry for every row of its table, filed under the    *)
(* row's current value, and nothing else; a column without an index has no *)
(* entries.  It holds after every row of every statement, on disk, and in  *)
(* the snapshot a failure goes back to (put_index_entries,                 *)
(* delete_index_entries, reindex_row, executor/mod.rs:687-735).            *)
IndexInSync ==
    \A t \in Tables, c \in Columns :
        /\ Synced(disk, t, c)
        /\ Backfilling(t, c) \/ Synced(view, t, c)
        /\ before # NoSnapshot => Synced(before.view, t, c)

(* Row ids are never handed out twice, across rollbacks, undone statements *)
(* and restarts: the counter a next INSERT reads is above every row        *)
(* (next_row_id, executor/mod.rs:798).                                     *)
FreshIds ==
    \A t \in Tables, kv \in {disk, view} :
        \A i \in Ids(kv, t) : i < kv.next_id[t]

(* A WHERE selects the same rows with the indexes as without: the index    *)
(* only narrows the candidates (scan_rows, executor/mod.rs:739).           *)
IndexTransparent ==
    \A t \in Tables, e \in Exprs :
        LET ids == Ids(view, t)
            Chosen(S) == {i \in S : Matches(e, view.row[t][i])}
        IN  Chosen(ids) = Chosen(scan_rows(ids, view.idx[t], Indexed(view, t), e))

(* UPDATE, DELETE and CREATE INDEX work from rows they read before they    *)
(* changed anything: what they hold of a row is still what is stored when  *)
(* its turn comes (raw_rows, executor/mod.rs:436 and 476).                 *)
ItemsCurrent ==
    stmt.kind \in {"update", "delete", "create_index"} =>
        \A item \in todo : view.row[stmt.table][item.id] = item.row

(* Every statement ends: the loops of the handlers go over rows collected  *)
(* before, so what they write never gives them more to do                  *)
(* (executor/mod.rs:436 and 476).                                          *)
StatementsEnd == ~Idle ~> Idle

(* The engine implements SQLDatabase: statements are atomic whichever      *)
(* write or commit fails, indexes and row ids never show, a restart finds  *)
(* the last committed tables (executor/mod.rs:98-102).  Until a statement  *)
(* ends the tables are those of its snapshot.                              *)
TablesOf(kv) ==
    [t \in Tables |->
        IF kv.schema[t] = NoSchema THEN NoSchema
        ELSE [rows |-> Picked(kv.row[t], Ids(kv, t)), indexes |-> kv.schema[t]]]

DB == INSTANCE SQLDatabase WITH
        committed <- TablesOf(disk),
        current   <- TablesOf(IF Idle THEN view ELSE before.view),
        inTxn     <- IF Idle THEN open ELSE before.open,
        NoTable   <- NoSchema

RefinesSQLDatabase == DB!Spec
=============================================================================
