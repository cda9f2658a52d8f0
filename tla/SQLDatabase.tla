---------------------------- MODULE SQLDatabase ----------------------------
(***************************************************************************)
(* What a user of the engine is promised: tables that are lists of rows in *)
(* insertion order, statements that happen whole or not at all, and        *)
(* transactions.  There are no row ids, no index entries, no plan and no   *)
(* partly executed statement here; an index is only a name in the catalog. *)
(* A column an INSERT left out stays missing, which a reader can tell from *)
(* NULL (None and 'NULL' in a result).                                     *)
(***************************************************************************)
EXTENDS Statements

CONSTANTS NoTable

VARIABLES committed, \* the tables a restart finds
          current,   \* the tables a statement sees
          inTxn,     \* did the session say BEGIN?
          reply      \* answer to the last statement

vars == <<committed, current, inTxn, reply>>

Ok(answer)   == <<"ok", answer>>
Rows(list)   == <<"rows", list>>
Listed(s, what) == <<s.kind, what>>
Rejected     == <<"rejected">>
StorageError == <<"storage error">>

Init == /\ committed = [t \in Tables |-> NoTable]
        /\ current = committed
        /\ inTxn = FALSE
        /\ reply = Ok(0)

Fits(where, rows) == Picked(rows, {i \in DOMAIN rows : Matches(where, rows[i])})

NamesInUse == UNION {{d.name : d \in current[t].indexes} :
                        t \in {u \in Tables : current[u] # NoTable}}

(* The statements that are not refused.                                    *)
Accepts(s) ==
    LET T == current[s.table] IN
    IF s.kind = "show_tables" THEN TRUE
    ELSE IF s.kind = "create_table" THEN T = NoTable
    ELSE /\ T # NoTable
         /\ WellFormed(s)
         /\ CASE s.kind = "create_index" -> /\ s.name \notin NamesInUse
                                            /\ \A d \in T.indexes : d.column # s.column
              [] s.kind = "insert" -> \A i \in DOMAIN s.rows :
                                          Coercible(s.columns, s.rows[i])
              [] s.kind = "update" -> Fits(s.where, T.rows) # <<>>
                                          => AssignableAll(s.assignments)
              [] OTHER -> TRUE

(* s.table becomes T: durable at once outside a transaction.               *)
Apply(s, T, answer) ==
    /\ Accepts(s)
    /\ current' = [current EXCEPT ![s.table] = T]
    /\ committed' = IF inTxn THEN committed ELSE current'
    /\ reply' = Ok(answer)
    /\ UNCHANGED inTxn

CreateTable(s) == /\ s.kind = "create_table"
                  /\ Apply(s, [rows |-> <<>>, indexes |-> {}], 0)

CreateIndex(s) ==
    LET T == current[s.table]
        def == [name |-> s.name, column |-> s.column]
    IN  /\ s.kind = "create_index"
        /\ Apply(s, [T EXCEPT !.indexes = @ \cup {def}], Len(T.rows))

Insert(s) ==
    LET T == current[s.table]
        added == [i \in DOMAIN s.rows |-> InsertedRow(s.columns, s.rows[i])]
    IN  /\ s.kind = "insert"
        /\ Apply(s, [T EXCEPT !.rows = @ \o added], Len(added))

Update(s) ==
    LET T == current[s.table]
        Changed(row) == IF Matches(s.where, row)
                        THEN UpdatedRow(s.assignments, row) ELSE row
    IN  /\ s.kind = "update"
        /\ Apply(s, [T EXCEPT !.rows = [i \in DOMAIN @ |-> Changed(@[i])]],
                 Len(Fits(s.where, T.rows)))

Delete(s) ==
    LET T == current[s.table]
        stay == {i \in DOMAIN T.rows : ~Matches(s.where, T.rows[i])}
    IN  /\ s.kind = "delete"
        /\ Apply(s, [T EXCEPT !.rows = Picked(@, stay)],
                 Len(Fits(s.where, T.rows)))

Select(s) == /\ s.kind = "select" /\ Accepts(s)
             /\ reply' = Rows(Fits(s.where, current[s.table].rows))
             /\ UNCHANGED <<committed, current, inTxn>>

Report(s) ==
    /\ s \in Reports /\ Accepts(s)
    /\ reply' = Listed(s,
           CASE s.kind = "show_tables" -> {t \in Tables : current[t] # NoTable}
             [] s.kind = "describe" -> exec_describe(current[s.table].indexes)
             [] s.kind = "explain" -> exec_explain(s.of, current[s.table].indexes))
    /\ UNCHANGED <<committed, current, inTxn>>

(* A refused statement, and one the storage failed, changed nothing.       *)
Refuse(s) == /\ ~Accepts(s)
             /\ reply' = Rejected
             /\ UNCHANGED <<committed, current, inTxn>>

Fail == reply' = StorageError /\ UNCHANGED <<committed, current, inTxn>>

(* BEGIN only outside a transaction, COMMIT and ROLLBACK only inside one.  *)
Begin == /\ inTxn' = TRUE
         /\ reply' = IF inTxn THEN Rejected ELSE Ok(0)
         /\ UNCHANGED <<committed, current>>

Commit == /\ committed' = current
          /\ inTxn' = FALSE
          /\ reply' = IF inTxn THEN Ok(0) ELSE Rejected
          /\ UNCHANGED current

(* ROLLBACK, or a COMMIT the disk refused: the transaction is lost whole.  *)
Lose(answer) == /\ inTxn
                /\ current' = committed
                /\ inTxn' = FALSE
                /\ reply' = answer
                /\ UNCHANGED committed

Restart == /\ current' = committed
           /\ inTxn' = FALSE
           /\ UNCHANGED <<committed, reply>>

Next == \/ \E s \in Statements : \/ CreateTable(s) \/ CreateIndex(s) \/ Insert(s)
                                 \/ Update(s) \/ Delete(s) \/ Select(s)
                                 \/ Report(s) \/ Refuse(s)
        \/ Fail \/ Begin \/ Commit \/ Restart
        \/ Lose(Ok(0)) \/ Lose(StorageError)

Spec == Init /\ [][Next]_vars
=============================================================================
