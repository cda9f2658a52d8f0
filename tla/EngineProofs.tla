---------------------------- MODULE EngineProofs ----------------------------
(***************************************************************************)
(* What holds of Engine for every set of tables, columns and statements:   *)
(* its state is well typed, row ids are fresh, indexes hold exactly the    *)
(* entries of the rows and never change what a WHERE selects, the rows a   *)
(* statement collected are still current when their turn comes, and Engine *)
(* implements SQLDatabase.                                                 *)
(***************************************************************************)
EXTENDS Engine, WhereProofs, TLAPS

----------------------------------------------------------------------------
(* Values and rows.                                                        *)

LEMMA MaxOfPlaces ==
  ASSUME NEW n \in Nat, NEW S \in SUBSET (1 .. n), S # {}
  PROVE  Max(S) \in S
<1> DEFINE T == {n - i : i \in S}
<1>1. \A i \in S : i \in 1 .. n /\ n - i \in Nat
  OBVIOUS
<1>2. T \in SUBSET Nat /\ T # {}
  BY <1>1
<1> HIDE DEF T
<1>3. PICK x \in T : \A y \in T : x <= y
  BY <1>2, LeastNat
<1>4. PICK m \in S : x = n - m
  BY DEF T
<1>5. ASSUME NEW i \in S PROVE m >= i
  <2>1. n - m <= n - i
    BY <1>3, <1>4 DEF T
  <2>2. QED
    BY <1>1, <2>1
<1>6. QED
  BY <1>5 DEF Max

LEMMA ElementType ==
  ASSUME NEW S, NEW s \in Seq(S), NEW i \in DOMAIN s
  PROVE  s[i] \in S
  OBVIOUS

LEMMA CoercedType ==
  ASSUME NEW v \in Value, NEW type \in {"INTEGER", "TEXT"}
  PROVE  coerce_value(v, type) \in Value \cup {TypeMismatch}
  BY WhereAssumption DEF coerce_value, Value, Null, TypeMismatch

LEMMA FiledType ==
  ASSUME NEW row \in Row, NEW c \in Columns
  PROVE  Filed(row[c]) \in Value
  BY DEF Filed, Row, Value, Null

LEMMA InsertedRowType ==
  ASSUME NEW columns \in Seq(STRING), NEW literals \in Seq(Value),
         Len(literals) = Len(columns), Coercible(columns, literals),
         \A i \in DOMAIN columns : columns[i] \in Columns
  PROVE  InsertedRow(columns, literals) \in Row
<1> SUFFICES ASSUME NEW c \in Columns
             PROVE  Given(columns, literals, c) \in Value \cup {Missing}
  BY DEF InsertedRow, Row
<1> DEFINE at == {i \in DOMAIN columns : columns[i] = c}
<1>1. CASE at = {}
  BY <1>1 DEF Given
<1>2. CASE at # {}
  <2>1. Max(at) \in at
    <3>1. Len(columns) \in Nat /\ at \in SUBSET (1 .. Len(columns))
      OBVIOUS
    <3> HIDE DEF at
    <3>2. QED BY <1>2, <3>1, MaxOfPlaces
  <2>2. literals[Max(at)] \in Value /\ ColType[c] \in {"INTEGER", "TEXT"}
    BY <2>1, WhereAssumption
  <2>3. coerce_value(literals[Max(at)], ColType[c]) # TypeMismatch
    BY <2>1 DEF Coercible
  <2>4. QED
    BY <1>2, <2>2, <2>3, CoercedType DEF Given
<1>3. QED
  BY <1>1, <1>2

LEMMA UpdatedRowType ==
  ASSUME NEW assignments \in Seq([column : STRING, value : Value]), NEW row \in Row,
         AssignableAll(assignments)
  PROVE  UpdatedRow(assignments, row) \in Row
<1> SUFFICES ASSUME NEW c \in Columns
             PROVE  UpdatedRow(assignments, row)[c] \in Value \cup {Missing}
  BY DEF UpdatedRow, Row
<1> DEFINE at == {i \in DOMAIN assignments : assignments[i].column = c}
<1>1. CASE at = {}
  BY <1>1 DEF UpdatedRow, Row
<1>2. CASE at # {}
  <2>1. Max(at) \in at
    <3>1. Len(assignments) \in Nat /\ at \in SUBSET (1 .. Len(assignments))
      OBVIOUS
    <3> HIDE DEF at
    <3>2. QED BY <1>2, <3>1, MaxOfPlaces
  <2>2. assignments[Max(at)].value \in Value /\ ColType[c] \in {"INTEGER", "TEXT"}
    <3>1. assignments[Max(at)] \in [column : STRING, value : Value]
      BY <2>1, ElementType
    <3>2. QED BY <3>1, WhereAssumption
  <2>3. coerce_value(assignments[Max(at)].value, ColType[c]) # TypeMismatch
    BY <2>1 DEF AssignableAll
  <2>4. QED
    BY <1>2, <2>2, <2>3, CoercedType DEF UpdatedRow
<1>3. QED
  BY <1>1, <1>2

----------------------------------------------------------------------------
(* The inductive invariant.                                                *)

Entered(kv, t, c, i, v) == [column |-> c, value |-> v, id |-> i] \in kv.idx[t]

(* Of column c the index entries of table t are those of the rows in S.    *)
Covers(kv, t, c, S) ==
    \A i \in RowIds, v \in Value :
        Entered(kv, t, c, i, v) <=> i \in S /\ v = Filed(kv.row[t][i][c])

(* The rows an index on c must cover: all, if there is one.                *)
Due(kv, t, c) == IF c \in Indexed(kv, t) THEN Ids(kv, t) ELSE {}

Fresh(kv) == \A t \in Tables : \A i \in Ids(kv, t) : i < kv.next_id[t]

Sound(kv) == /\ kv \in Contents
             /\ Fresh(kv)
             /\ \A t \in Tables, c \in Columns : Covers(kv, t, c, Due(kv, t, c))

Waiting == {item.id : item \in todo}

(* While CREATE INDEX backfills a column, the rows it is through with.     *)
DueNow(t, c) == IF Backfilling(t, c) /\ c \notin Indexed(view, t)
                THEN Ids(view, t) \ Waiting
                ELSE Due(view, t, c)

Current(item) ==
    /\ item \in Item
    /\ IF stmt.kind = "insert" THEN item.id \in DOMAIN stmt.rows /\ item.row = NoRow
       ELSE /\ item.id \in Ids(view, stmt.table)
            /\ item.row = view.row[stmt.table][item.id]

(* Between statements.                                                     *)
Resting == Idle => /\ Sound(view)
                   /\ before = NoSnapshot /\ ~planned /\ todo = {}

(* Within one: the snapshot is sound, and so is the view but for the       *)
(* column being backfilled.                                                *)
Working ==
    ~Idle => /\ stmt \in Writes
             /\ before \in Snapshot /\ Sound(before.view)
             /\ view \in Contents /\ Fresh(view)
             /\ \A t \in Tables, c \in Columns : Covers(view, t, c, DueNow(t, c))
             /\ ~planned => todo = {}
             /\ planned => view.schema[stmt.table] # NoSchema /\ WellFormed(stmt)
             /\ \A item \in todo : Current(item)

EngineInv == /\ open \in BOOLEAN /\ planned \in BOOLEAN /\ applied \in Nat
             /\ Sound(disk)
             /\ Resting
             /\ Working

----------------------------------------------------------------------------
(* Contents and one change to them.                                        *)

LEMMA ContentsType ==
  ASSUME NEW kv \in Contents, NEW t \in Tables
  PROVE  /\ kv.schema \in [Tables -> {NoSchema} \cup SUBSET IndexDef]
         /\ kv.row \in [Tables -> [RowIds -> Row \cup {NoRow}]]
         /\ kv.row[t] \in [RowIds -> Row \cup {NoRow}]
         /\ kv.next_id \in [Tables -> Nat]
         /\ kv.idx \in [Tables -> SUBSET Entry]
         /\ kv.idx[t] \in SUBSET Entry
         /\ Indexed(kv, t) \subseteq Columns
         /\ Ids(kv, t) \subseteq RowIds
         /\ \A i \in Ids(kv, t) : kv.row[t][i] \in Row
<1>1. /\ kv.schema \in [Tables -> {NoSchema} \cup SUBSET IndexDef]
      /\ kv.row \in [Tables -> [RowIds -> Row \cup {NoRow}]]
      /\ kv.next_id \in [Tables -> Nat]
      /\ kv.idx \in [Tables -> SUBSET Entry]
  BY DEF Contents
<1>2. Indexed(kv, t) \subseteq Columns
  BY <1>1 DEF Indexed, IndexDef
<1>3. Ids(kv, t) \subseteq RowIds /\ \A i \in Ids(kv, t) : kv.row[t][i] \in Row
  BY <1>1 DEF Ids
<1>4. QED
  BY <1>1, <1>2, <1>3

(* For well-typed contents, covering is what IndexInSync says.             *)
LEMMA CoversSynced ==
  ASSUME NEW kv \in Contents, NEW t \in Tables, NEW c \in Columns,
         Covers(kv, t, c, Due(kv, t, c))
  PROVE  Synced(kv, t, c)
<1> DEFINE filed == IF c \in Indexed(kv, t) THEN Filing(kv, t, c) ELSE {}
<1>1. \A e \in Entry : e.column = c =>
         (e \in filed <=> e.id \in Due(kv, t, c) /\ e.value = Filed(kv.row[t][e.id][c]))
  BY DEF Due, Filing, index_entries, Entry
<1>2. filed \subseteq Entry /\ \A e \in filed : e.column = c
  <2>1. ASSUME NEW i \in Ids(kv, t)
        PROVE  /\ index_entries({c}, i, kv.row[t][i]) \subseteq Entry
               /\ \A e \in index_entries({c}, i, kv.row[t][i]) : e.column = c
    BY ContentsType, FiledType DEF index_entries, Entry
  <2>2. QED
    BY <2>1 DEF Filing
<1>3. \A e \in Entry : e.column = c =>
         (e \in kv.idx[t] <=> e.id \in Due(kv, t, c) /\ e.value = Filed(kv.row[t][e.id][c]))
  <2> SUFFICES ASSUME NEW e \in Entry, e.column = c
               PROVE  e \in kv.idx[t] <=> /\ e.id \in Due(kv, t, c)
                                          /\ e.value = Filed(kv.row[t][e.id][c])
    OBVIOUS
  <2>1. e = [column |-> c, value |-> e.value, id |-> e.id]
        /\ e.value \in Value /\ e.id \in RowIds
    BY DEF Entry
  <2>2. QED
    BY <2>1 DEF Covers, Entered
<1> HIDE DEF filed
<1>4. EntriesOf(kv, t, c) = filed
  BY <1>1, <1>2, <1>3, ContentsType DEF EntriesOf
<1>5. QED
  BY <1>4 DEF Synced, filed

----------------------------------------------------------------------------
(* What the invariant says of the properties.                              *)

LEMMA NotIdle == \A s \in Writes : s # NoStatement
<1>1. NoStatement.kind = "none"
  BY DEF NoStatement
<1>2. \A s \in Writes : s.kind # "none"
  BY DEF Writes, OfKind
<1>3. QED
  BY <1>1, <1>2

LEMMA InvImpliesTypeOK == EngineInv => TypeOK
<1> SUFFICES ASSUME EngineInv PROVE TypeOK
  OBVIOUS
<1>1. CASE Idle
  BY <1>1 DEF EngineInv, Resting, Sound, Idle, TypeOK
<1>2. CASE ~Idle
  <2>1. todo \in SUBSET Item
    BY <1>2 DEF EngineInv, Working, Current
  <2>2. QED
    BY <1>2, <2>1 DEF EngineInv, Working, Sound, TypeOK
<1>3. QED
  BY <1>1, <1>2

LEMMA SoundSynced ==
  ASSUME NEW kv, Sound(kv), NEW t \in Tables, NEW c \in Columns
  PROVE  Synced(kv, t, c)
  BY CoversSynced DEF Sound

LEMMA InvImpliesIndexInSync == EngineInv => IndexInSync
<1> SUFFICES ASSUME EngineInv, NEW t \in Tables, NEW c \in Columns
             PROVE  /\ Synced(disk, t, c)
                    /\ Backfilling(t, c) \/ Synced(view, t, c)
                    /\ before # NoSnapshot => Synced(before.view, t, c)
  BY DEF IndexInSync
<1>1. Synced(disk, t, c)
  BY SoundSynced DEF EngineInv
<1>2. CASE Idle
  BY <1>1, <1>2, SoundSynced DEF EngineInv, Resting
<1>3. CASE ~Idle
  <2>1. Synced(before.view, t, c)
    BY <1>3, SoundSynced DEF EngineInv, Working
  <2>2. ASSUME ~Backfilling(t, c) PROVE Synced(view, t, c)
    <3>1. view \in Contents /\ Covers(view, t, c, DueNow(t, c))
      BY <1>3 DEF EngineInv, Working
    <3>2. DueNow(t, c) = Due(view, t, c)
      BY <2>2 DEF DueNow
    <3>3. QED
      BY <3>1, <3>2, CoversSynced
  <2>3. QED
    BY <1>1, <2>1, <2>2
<1>4. QED
  BY <1>2, <1>3

LEMMA InvImpliesFreshIds == EngineInv => FreshIds
  BY DEF EngineInv, Resting, Working, Sound, Fresh, FreshIds

LEMMA InvImpliesItemsCurrent == EngineInv => ItemsCurrent
  BY NotIdle DEF EngineInv, Resting, Working, Current, ItemsCurrent, Idle, NoStatement

(* Contents whose indexes cover their rows answer a WHERE in full.         *)
LEMMA ScanComplete ==
  ASSUME NEW kv \in Contents, NEW t \in Tables, NEW where \in Exprs \cup {NoWhere},
         \A c \in Indexed(kv, t) : Covers(kv, t, c, Ids(kv, t))
  PROVE  LET scan == scan_rows(Ids(kv, t), kv.idx[t], Indexed(kv, t), where)
         IN  /\ scan \subseteq Ids(kv, t)
             /\ \A i \in Ids(kv, t) : Matches(where, kv.row[t][i]) => i \in scan
<1>1. Indexed(kv, t) \in SUBSET Columns
  BY ContentsType
<1>2. \A c \in Indexed(kv, t), i \in Ids(kv, t) :
          [column |-> c, value |-> Filed(kv.row[t][i][c]), id |-> i] \in kv.idx[t]
  <2> SUFFICES ASSUME NEW c \in Indexed(kv, t), NEW i \in Ids(kv, t)
               PROVE  Entered(kv, t, c, i, Filed(kv.row[t][i][c]))
    BY DEF Entered
  <2>1. i \in RowIds /\ kv.row[t][i] \in Row /\ c \in Columns
    BY <1>1, ContentsType
  <2>2. Filed(kv.row[t][i][c]) \in Value
    BY <2>1, FiledType
  <2>3. QED
    BY <2>1, <2>2 DEF Covers
<1>3. QED
  BY <1>1, <1>2, ScanFindsAll, ZenonT(40)

(* So does the view, also in the middle of a statement.                    *)
LEMMA ViewScanComplete ==
  ASSUME EngineInv, NEW t \in Tables, NEW where \in Exprs \cup {NoWhere}
  PROVE  LET scan == scan_rows(Ids(view, t), view.idx[t], Indexed(view, t), where)
         IN  /\ view \in Contents
             /\ scan \subseteq Ids(view, t)
             /\ \A i \in Ids(view, t) : Matches(where, view.row[t][i]) => i \in scan
<1>1. view \in Contents
  BY DEF EngineInv, Resting, Working, Sound
<1>2. \A c \in Indexed(view, t) : c \in Columns
  BY <1>1, ContentsType
<1>3. \A c \in Indexed(view, t) : Covers(view, t, c, Ids(view, t))
  <2>1. CASE Idle
    BY <1>2, <2>1 DEF EngineInv, Resting, Sound, Due
  <2>2. CASE ~Idle
    BY <1>2, <2>2 DEF EngineInv, Working, DueNow, Due
  <2>3. QED
    BY <2>1, <2>2
<1>4. QED
  BY <1>1, <1>3, ScanComplete

LEMMA InvImpliesIndexTransparent == EngineInv => IndexTransparent
<1> SUFFICES ASSUME EngineInv, NEW t \in Tables, NEW e \in Exprs
             PROVE  LET ids == Ids(view, t)
                        Chosen(S) == {i \in S : Matches(e, view.row[t][i])}
                    IN  Chosen(ids) = Chosen(scan_rows(ids, view.idx[t],
                                                       Indexed(view, t), e))
  BY DEF IndexTransparent
<1>1. QED
  BY ViewScanComplete

----------------------------------------------------------------------------
(* The invariant holds at first and between statements.                    *)

LEMMA EmptySound == Sound(Empty)
<1>1. Empty \in Contents
  BY EngineAssumption DEF Empty, Contents
<1>2. \A t \in Tables : Ids(Empty, t) = {} /\ Indexed(Empty, t) = {} /\ Empty.idx[t] = {}
  BY DEF Empty, Ids, Indexed
<1>3. QED
  BY <1>1, <1>2 DEF Sound, Fresh, Covers, Due, Entered

LEMMA Initially == Init => EngineInv
<1> SUFFICES ASSUME Init PROVE EngineInv
  OBVIOUS
<1>1. Sound(disk) /\ Sound(view)
  BY EmptySound DEF Init
<1>2. Idle /\ Resting
  BY <1>1 DEF Init, Resting, Idle
<1>3. open \in BOOLEAN /\ planned \in BOOLEAN /\ applied \in Nat
  BY DEF Init
<1>4. QED
  BY <1>1, <1>2, <1>3 DEF EngineInv, Working

LEMMA Between ==
  ASSUME EngineInv,
         Begin \/ Commit \/ CommitFails \/ Rollback \/ ReadFails \/ (\E s \in Selects : Select(s))
           \/ \E s \in Reports : Report(s)
  PROVE  EngineInv'
<1>1. /\ Idle /\ UNCHANGED <<before, stmt, planned, todo, applied>>
      /\ open' \in BOOLEAN
      /\ disk' \in {disk, view} /\ view' \in {disk, view}
  BY DEF EngineInv, Begin, Commit, CommitFails, Rollback, ReadFails, Select, Report
<1>2. Sound(disk') /\ Sound(view')
  BY <1>1 DEF EngineInv, Resting
<1>3. QED
  BY <1>1, <1>2 DEF EngineInv, Resting, Working, Idle

(* However a statement ends, what is left is sound.                        *)
LEMMA Left ==
  ASSUME EngineInv, Leave, Sound(disk'), Sound(view'), open' \in BOOLEAN
  PROVE  EngineInv'
  BY DEF EngineInv, Resting, Working, Idle, Leave

LEMMA Ending ==
  ASSUME EngineInv, NEW answer,
         (Abort(answer) /\ ~Idle) \/ Finish \/ FinishFails \/ Crash
  PROVE  EngineInv'
<1>1. Sound(disk)
  BY DEF EngineInv
<1>2. CASE Abort(answer) /\ ~Idle
  BY <1>1, <1>2, Left DEF Abort, EngineInv, Working, Snapshot
<1>3. CASE Finish
  <2>1. ~Idle
    BY <1>3 DEF Finish, HandlerDone, EngineInv, Resting
  <2>2. stmt.table \in Tables
    BY <2>1, StatementsAssumption DEF EngineInv, Working, Writes, OfKind
  <2>3. \A t \in Tables, c \in Columns : DueNow(t, c) = Due(view, t, c)
    BY <1>3 DEF Finish, HandlerDone, DueNow, Backfilling
  <2>4. Sound(view)
    BY <2>1, <2>3 DEF EngineInv, Working, Sound
  <2>5. before.open \in BOOLEAN
    BY <2>1 DEF EngineInv, Working, Snapshot
  <2>6. Leave /\ open' = before.open /\ view' = view /\ disk' \in {disk, view}
    BY <1>3 DEF Finish
  <2>7. QED
    BY <1>1, <2>4, <2>5, <2>6, Left
<1>4. CASE FinishFails
  BY <1>1, <1>4, Left DEF FinishFails
<1>5. CASE Crash
  BY <1>1, <1>5, Left DEF Crash
<1>6. QED
  BY <1>2, <1>3, <1>4, <1>5

----------------------------------------------------------------------------
(* A statement starts, and passes from one part of its work to the next.   *)

LEMMA Starting ==
  ASSUME EngineInv, NEW s \in Writes, Start(s)
  PROVE  EngineInv'
<1>1. /\ stmt' = s /\ s # NoStatement /\ open' = TRUE
      /\ before' = [open |-> open, view |-> view]
      /\ UNCHANGED <<disk, view, planned, todo, applied>>
  BY NotIdle DEF Start
<1>2. Sound(view) /\ ~planned /\ todo = {}
  BY DEF Start, EngineInv, Resting
<1>3. before' \in Snapshot /\ before'.view = view
  BY <1>1, <1>2 DEF Snapshot, Sound, EngineInv
<1>4. \A t \in Tables, c \in Columns : DueNow(t, c)' = Due(view, t, c)
  BY <1>1, <1>2 DEF DueNow, Backfilling
<1>5. Working'
  BY <1>1, <1>2, <1>3, <1>4 DEF Working, Sound
<1>6. QED
  BY <1>1, <1>5 DEF EngineInv, Resting, Idle

(* What is left to show of a step inside a statement.                      *)
LEMMA Onward ==
  ASSUME EngineInv, ~Idle, UNCHANGED <<disk, open, before, stmt>>,
         planned' = TRUE, applied' \in Nat,
         view' \in Contents, Fresh(view'),
         \A t \in Tables, c \in Columns : Covers(view', t, c, DueNow(t, c)'),
         view'.schema[stmt.table] # NoSchema, WellFormed(stmt),
         \A item \in todo' : Current(item)'
  PROVE  EngineInv'
<1>1. Working'
  BY DEF EngineInv, Working, Idle
<1>2. QED
  BY <1>1 DEF EngineInv, Resting, Idle

LEMMA WriteInTables ==
  ASSUME EngineInv, ~Idle
  PROVE  /\ stmt.table \in Tables
         /\ stmt.kind \in {"create_table", "create_index", "insert", "update", "delete"}
  BY StatementsAssumption DEF EngineInv, Working, Writes, OfKind

(* What a statement carries.                                               *)
LEMMA InsertTyped ==
  ASSUME EngineInv, ~Idle, stmt.kind = "insert"
  PROVE  /\ stmt.columns \in Seq(STRING) /\ stmt.rows \in Seq(Seq(Value))
         /\ DOMAIN stmt.rows \subseteq Nat
<1>1. stmt \in Statements
  BY DEF EngineInv, Working, Writes, OfKind
<1>2. stmt.columns \in Seq(STRING) /\ stmt.rows \in Seq(Seq(Value))
  BY <1>1, StatementsAssumption
<1> DEFINE rows == stmt.rows
<1>3. rows \in Seq(Seq(Value))
  BY <1>2
<1> HIDE DEF rows
<1>4. DOMAIN rows \subseteq Nat
  BY <1>3
<1>5. QED
  BY <1>2, <1>4 DEF rows

LEMMA Collecting == ASSUME EngineInv, Plan PROVE EngineInv'
<1> DEFINE t == stmt.table
<1>1. /\ ~Idle /\ ~planned /\ todo = {} /\ todo' = Items /\ planned' = TRUE
      /\ UNCHANGED <<disk, view, open, before, stmt, applied>>
      /\ stmt.kind # "create_table" /\ Accepted
  BY DEF Plan, EngineInv, Working
<1>2. view \in Contents /\ Fresh(view) /\ t \in Tables
      /\ view.schema[t] # NoSchema /\ WellFormed(stmt) /\ applied \in Nat
      /\ stmt.kind \in {"create_index", "insert", "update", "delete"}
  BY <1>1, WriteInTables DEF EngineInv, Working, Accepted
<1>3. CASE stmt.kind = "insert"
  <2>1. Items = {[id |-> i, row |-> NoRow] : i \in DOMAIN stmt.rows}
    BY <1>3 DEF Items
  <2>2. DOMAIN stmt.rows \subseteq Nat
    BY <1>1, <1>3, InsertTyped
  <2>3. \A item \in todo' : Current(item)'
    BY <1>1, <1>3, <2>1, <2>2 DEF Current, Item
  <2>4. \A u \in Tables, c \in Columns : DueNow(u, c)' = Due(view, u, c)
                                         /\ DueNow(u, c) = Due(view, u, c)
    BY <1>1, <1>3 DEF DueNow, Backfilling
  <2>5. \A u \in Tables, c \in Columns : Covers(view, u, c, DueNow(u, c))
    BY <1>1 DEF EngineInv, Working
  <2>6. QED
    BY <1>1, <1>2, <2>3, <2>4, <2>5, Onward
<1>4. CASE stmt.kind \in {"create_index", "update", "delete"}
  <2>1. PICK ids \in SUBSET Ids(view, t) :
           /\ Items = {[id |-> i, row |-> view.row[t][i]] : i \in ids}
           /\ stmt.kind = "create_index" => ids = Ids(view, t)
    <3>1. CASE stmt.kind = "create_index"
      BY <3>1 DEF Items
    <3>2. CASE stmt.kind \in {"update", "delete"}
      <4> DEFINE ids == scan_rows(Ids(view, t), view.idx[t], Indexed(view, t), stmt.where)
      <4>1. ids \in SUBSET Ids(view, t)
        BY DEF scan_rows
      <4>2. QED
        BY <3>2, <4>1 DEF Items
    <3>3. QED
      BY <1>4, <3>1, <3>2
  <2>2. \A item \in todo' : Current(item)'
    <3> SUFFICES ASSUME NEW i \in ids
                 PROVE  Current([id |-> i, row |-> view.row[t][i]])'
      BY <1>1, <2>1
    <3>1. i \in RowIds /\ view.row[t][i] \in Row
      BY <1>2, ContentsType
    <3>2. [id |-> i, row |-> view.row[t][i]] \in Item
      BY <3>1, EngineAssumption DEF Item, RowIds
    <3>3. QED
      BY <1>1, <1>4, <3>2, Zenon DEF Current
  <2>3. \A u \in Tables, c \in Columns : DueNow(u, c)' = DueNow(u, c)
    <3> SUFFICES ASSUME NEW u \in Tables, NEW c \in Columns
                 PROVE  DueNow(u, c)' = DueNow(u, c)
      OBVIOUS
    <3>1. DueNow(u, c) = Due(view, u, c)
      BY <1>1 DEF DueNow, Backfilling
    <3>2. CASE stmt.kind = "create_index" /\ u = t /\ c = stmt.column
      <4>1. c \notin Indexed(view, u)
        BY <1>1, <3>2 DEF Accepted
      <4>2. Waiting' = Ids(view, t)
        <5> DEFINE Made(i) == [id |-> i, row |-> view.row[t][i]]
        <5>1. todo' = {Made(i) : i \in Ids(view, t)}
          BY <1>1, <2>1, <3>2
        <5>2. \A i \in Ids(view, t) : Made(i).id = i
          OBVIOUS
        <5> HIDE DEF Made
        <5>3. {item.id : item \in todo'} = Ids(view, t)
          BY <5>1, <5>2
        <5>4. QED
          BY <5>3 DEF Waiting
      <4>3. DueNow(u, c)' = {} /\ Due(view, u, c) = {}
        BY <1>1, <3>2, <4>1, <4>2 DEF DueNow, Due
      <4>4. QED
        BY <3>1, <4>3
    <3>3. CASE ~(stmt.kind = "create_index" /\ u = t /\ c = stmt.column)
      <4>1. ~Backfilling(u, c)'
        BY <1>1, <3>3 DEF Backfilling
      <4>2. QED
        BY <1>1, <3>1, <4>1 DEF DueNow
    <3>4. QED
      BY <3>2, <3>3
  <2>4. \A u \in Tables, c \in Columns : Covers(view, u, c, DueNow(u, c))
    BY <1>1 DEF EngineInv, Working
  <2>5. QED
    BY <1>1, <1>2, <2>2, <2>3, <2>4, Onward
<1>5. QED
  BY <1>2, <1>3, <1>4

LEMMA NewTable == ASSUME EngineInv, CreateTable PROVE EngineInv'
<1> DEFINE t == stmt.table
<1>1. /\ ~Idle /\ ~planned /\ todo = {} /\ planned' = TRUE
      /\ UNCHANGED <<disk, open, before, stmt, todo, applied>>
      /\ stmt.kind = "create_table" /\ view.schema[t] = NoSchema
      /\ view' = [view EXCEPT !.schema[t] = {}]
  BY DEF CreateTable, EngineInv, Working, Accepted
<1>2. view \in Contents /\ Fresh(view) /\ t \in Tables /\ applied \in Nat
  BY <1>1, WriteInTables DEF EngineInv, Working
<1>3. /\ view' \in Contents
      /\ view'.row = view.row /\ view'.idx = view.idx /\ view'.next_id = view.next_id
      /\ view'.schema = [view.schema EXCEPT ![t] = {}]
  BY <1>1, <1>2 DEF Contents
<1>4. \A u \in Tables : Ids(view', u) = Ids(view, u) /\ Indexed(view', u) = Indexed(view, u)
  <2>1. view.schema \in [Tables -> {NoSchema} \cup SUBSET IndexDef] /\ {} # NoSchema
    BY <1>2, EngineAssumption DEF Contents
  <2>2. Indexed(view, t) = {} /\ Indexed(view', t) = {}
    BY <1>1, <1>2, <1>3, <2>1 DEF Indexed
  <2>3. QED
    BY <1>2, <1>3, <2>1, <2>2 DEF Ids, Indexed
<1>5. \A u \in Tables, c \in Columns : /\ Covers(view, u, c, Due(view, u, c))
                                       /\ DueNow(u, c)' = Due(view', u, c)
  BY <1>1 DEF EngineInv, Working, DueNow, Backfilling
<1>6. ASSUME NEW u \in Tables, NEW c \in Columns
      PROVE  Covers(view', u, c, DueNow(u, c)')
  <2>1. Due(view', u, c) = Due(view, u, c)
    BY <1>4 DEF Due
  <2>2. Covers(view', u, c, Due(view, u, c))
    BY <1>3, <1>5 DEF Covers, Entered
  <2>3. QED
    BY <1>5, <2>1, <2>2
<1>7. Fresh(view')
  BY <1>2, <1>3, <1>4 DEF Fresh
<1>8. view'.schema[t] # NoSchema /\ WellFormed(stmt)
  BY <1>1, <1>2, <1>3, EngineAssumption DEF WellFormed, Contents
<1>9. QED
  BY <1>1, <1>2, <1>3, <1>6, <1>7, <1>8, Onward

----------------------------------------------------------------------------
(* The steps that process a row.                                           *)

(* INSERT, UPDATE and DELETE give one row a new value, its index entries   *)
(* follow, and no item still waiting speaks of that row.                   *)
LEMMA OneRow ==
  ASSUME EngineInv, ~Idle, planned, UNCHANGED <<disk, open, before, stmt, planned>>,
         applied' \in Nat, todo' \subseteq todo,
         stmt.kind \in {"insert", "update", "delete"},
         NEW id \in RowIds, NEW r \in Row \cup {NoRow},
         view' \in Contents,
         view'.schema = view.schema,
         view'.row = [view.row EXCEPT ![stmt.table][id] = r],
         \A u \in Tables : view'.next_id[u] >= view.next_id[u],
         r # NoRow => id < view'.next_id[stmt.table],
         \A u \in Tables \ {stmt.table} : view'.idx[u] = view.idx[u],
         \A c \in Columns, i \in RowIds \ {id}, v \in Value :
             Entered(view', stmt.table, c, i, v) <=> Entered(view, stmt.table, c, i, v),
         \A c \in Columns, v \in Value :
             Entered(view', stmt.table, c, id, v) <=>
                 c \in Indexed(view, stmt.table) /\ r # NoRow /\ v = Filed(r[c]),
         \A item \in todo' : stmt.kind # "insert" => item.id # id
  PROVE  EngineInv'
<1> DEFINE t == stmt.table
<1>1. /\ view \in Contents /\ Fresh(view) /\ t \in Tables
      /\ view.schema[t] # NoSchema /\ WellFormed(stmt)
      /\ \A item \in todo : Current(item)
  BY WriteInTables DEF EngineInv, Working
<1>2. /\ view.row \in [Tables -> [RowIds -> Row \cup {NoRow}]]
      /\ \A u \in Tables : view.next_id[u] \in Nat /\ view'.next_id[u] \in Nat
  BY <1>1, ContentsType
<1>3. \A u \in Tables, i \in RowIds :
         view'.row[u][i] = IF u = t /\ i = id THEN r ELSE view.row[u][i]
  BY <1>1, <1>2
<1>4. /\ \A u \in Tables : Indexed(view', u) = Indexed(view, u)
      /\ \A u \in Tables \ {t} : Ids(view', u) = Ids(view, u)
      /\ Ids(view', t) = IF r # NoRow THEN Ids(view, t) \cup {id} ELSE Ids(view, t) \ {id}
  BY <1>1, <1>3 DEF Indexed, Ids
<1>5. Fresh(view')
  <2> SUFFICES ASSUME NEW u \in Tables, NEW i \in Ids(view', u)
               PROVE  i < view'.next_id[u]
    BY DEF Fresh
  <2>1. CASE u = t /\ i = id
    <3>1. r # NoRow
      BY <1>1, <2>1, <1>4
    <3>2. QED BY <2>1, <3>1
  <2>2. CASE ~(u = t /\ i = id)
    <3>1. i \in Ids(view, u) /\ i \in RowIds
      BY <1>1, <1>4, <2>2 DEF Ids
    <3>2. i < view.next_id[u] /\ view'.next_id[u] >= view.next_id[u] /\ i \in Nat
      BY <1>1, <3>1 DEF Fresh, RowIds
    <3>3. QED BY <1>2, <3>2
  <2>3. QED BY <2>1, <2>2
<1>6. \A u \in Tables, c \in Columns : DueNow(u, c) = Due(view, u, c)
                                       /\ DueNow(u, c)' = Due(view', u, c)
  BY DEF DueNow, Backfilling
<1>7. ASSUME NEW u \in Tables, NEW c \in Columns
      PROVE  Covers(view', u, c, DueNow(u, c)')
  <2>1. Covers(view, u, c, Due(view, u, c))
    BY <1>6 DEF EngineInv, Working
  <2>2. CASE u # t
    <3>1. Due(view', u, c) = Due(view, u, c)
      BY <1>4, <2>2 DEF Due
    <3>2. Covers(view', u, c, Due(view, u, c))
      BY <1>3, <2>1, <2>2 DEF Covers, Entered
    <3>3. QED
      BY <1>6, <3>1, <3>2
  <2>3. CASE u = t
    <3> DEFINE on == c \in Indexed(view, t) /\ r # NoRow
    <3>1. Covers(view', t, c, IF on THEN Due(view, t, c) \cup {id} ELSE Due(view, t, c) \ {id})
      <4>1. \A i \in RowIds : view'.row[t][i] = IF i = id THEN r ELSE view.row[t][i]
        BY <1>1, <1>3
      <4>2. \A v \in Value : Entered(view', t, c, id, v) <=> on /\ v = Filed(r[c])
        OBVIOUS
      <4>3. \A i \in RowIds \ {id}, v \in Value :
               Entered(view', t, c, i, v) <=> Entered(view, t, c, i, v)
        OBVIOUS
      <4>4. Covers(view, t, c, Due(view, t, c)) /\ on \in BOOLEAN
        BY <2>1, <2>3
      <4> HIDE DEF on, t
      <4>5. QED
        BY <4>1, <4>2, <4>3, <4>4 DEF Covers
    <3>2. Due(view', t, c) = IF on THEN Due(view, t, c) \cup {id} ELSE Due(view, t, c) \ {id}
      BY <1>1, <1>4 DEF Due
    <3>3. QED
      BY <1>6, <2>3, <3>1, <3>2
  <2>4. QED BY <2>2, <2>3
<1>8. ASSUME NEW item \in todo' PROVE Current(item)'
  <2>1. Current(item)
    BY <1>1
  <2>2. CASE stmt.kind = "insert"
    BY <2>1, <2>2 DEF Current
  <2>3. CASE stmt.kind # "insert"
    <3>1. item \in Item /\ item.id \in Ids(view, t) /\ item.id # id
          /\ item.row = view.row[t][item.id]
      BY <2>1, <2>3 DEF Current
    <3>2. item.id \in Ids(view', t) /\ view'.row[t][item.id] = view.row[t][item.id]
      BY <1>1, <1>3, <1>4, <3>1 DEF Ids
    <3>3. QED
      BY <2>3, <3>1, <3>2 DEF Current
  <2>4. QED BY <2>2, <2>3
<1>9. QED
  BY <1>1, <1>5, <1>7, <1>8, Onward

(* The item a step takes, and those it leaves.                             *)
LEMMA Taken ==
  ASSUME EngineInv, NEW kind \in {"insert", "update", "delete", "create_index"},
         NEW item \in NextItem(kind)
  PROVE  /\ ~Idle /\ planned /\ stmt.kind = kind /\ item \in todo
         /\ Current(item)
         /\ kind # "insert" => \A j \in todo \ {item} : j.id # item.id
<1>1. stmt.kind = kind /\ item \in todo
  BY DEF NextItem
<1>2. ~Idle
  BY <1>1 DEF EngineInv, Resting
<1>3. planned /\ \A j \in todo : Current(j)
  BY <1>1, <1>2 DEF EngineInv, Working
<1>4. ASSUME kind # "insert", NEW j \in todo, j.id = item.id
      PROVE  j = item
  <2>1. j \in Item /\ item \in Item /\ j.row = item.row
    BY <1>1, <1>3, <1>4 DEF Current
  <2>2. QED
    BY <1>4, <2>1 DEF Item
<1>5. QED
  BY <1>1, <1>2, <1>3, <1>4

LEMMA Inserting ==
  ASSUME EngineInv, NEW item \in NextItem("insert"), InsertRow(item)
  PROVE  EngineInv'
<1> DEFINE t == stmt.table
           id == view.next_id[t]
           row == InsertedRow(stmt.columns, stmt.rows[item.id])
           new == index_entries(Indexed(view, t), id, row)
<1>1. /\ ~Idle /\ planned /\ stmt.kind = "insert" /\ item.id \in DOMAIN stmt.rows
  BY Taken DEF Current
<1>2. /\ view \in Contents /\ t \in Tables /\ applied \in Nat
      /\ view.schema[t] # NoSchema /\ WellFormed(stmt) /\ Fresh(view)
  BY <1>1, WriteInTables DEF EngineInv, Working
<1>3. row \in Row
  <2> DEFINE rows == stmt.rows
  <2>1. stmt.columns \in Seq(STRING) /\ rows \in Seq(Seq(Value))
    BY <1>1, InsertTyped
  <2>2. /\ \A i \in DOMAIN rows : Len(rows[i]) = Len(stmt.columns)
        /\ \A i \in DOMAIN stmt.columns : stmt.columns[i] \in Columns
    BY <1>1, <1>2 DEF WellFormed
  <2>3. Coercible(stmt.columns, rows[item.id])
    BY DEF InsertRow
  <2>4. rows[item.id] \in Seq(Value)
    <3>1. item.id \in DOMAIN rows
      BY <1>1
    <3> HIDE DEF rows
    <3>2. QED BY <2>1, <3>1, ElementType
  <2>5. QED
    BY <1>1, <2>1, <2>2, <2>3, <2>4, InsertedRowType
<1> HIDE DEF row
<1>4. /\ id \in RowIds
      /\ view' = [view EXCEPT !.next_id[t] = id + 1, !.row[t][id] = row,
                              !.idx[t] = @ \cup new]
      /\ Processed(item, 1)
  BY DEF InsertRow, row
<1>5. new \subseteq Entry
      /\ \A c \in Columns, i \in RowIds, v \in Value :
            [column |-> c, value |-> v, id |-> i] \in new
               <=> c \in Indexed(view, t) /\ i = id /\ v = Filed(row[c])
  <2>1. \A c \in Indexed(view, t) : c \in Columns /\ Filed(row[c]) \in Value
    BY <1>2, <1>3, ContentsType, FiledType
  <2>2. new \subseteq Entry
    BY <1>4, <2>1 DEF index_entries, Entry
  <2>3. \A c \in Columns, i \in RowIds, v \in Value :
            [column |-> c, value |-> v, id |-> i] \in new
               <=> c \in Indexed(view, t) /\ i = id /\ v = Filed(row[c])
    BY DEF index_entries
  <2>4. QED
    BY <2>2, <2>3
<1> HIDE DEF new
<1>6. /\ view'.schema = view.schema
      /\ view'.row = [view.row EXCEPT ![t][id] = row]
      /\ view'.next_id = [view.next_id EXCEPT ![t] = id + 1]
      /\ view'.idx = [view.idx EXCEPT ![t] = @ \cup new]
      /\ view' \in Contents
  <2>1. /\ view'.schema = view.schema
        /\ view'.row = [view.row EXCEPT ![t][id] = row]
        /\ view'.next_id = [view.next_id EXCEPT ![t] = id + 1]
        /\ view'.idx = [view.idx EXCEPT ![t] = @ \cup new]
        /\ DOMAIN view' = {"schema", "row", "next_id", "idx"}
        /\ view' = [view EXCEPT !.schema = view'.schema, !.row = view'.row,
                                !.next_id = view'.next_id, !.idx = view'.idx]
    BY <1>2, <1>4 DEF Contents
  <2>2. view'.row \in [Tables -> [RowIds -> Row \cup {NoRow}]]
    BY <1>2, <1>3, <1>4, <2>1, ContentsType
  <2>3. view'.next_id \in [Tables -> Nat]
    BY <1>2, <1>4, <2>1, ContentsType DEF RowIds
  <2>4. view'.idx \in [Tables -> SUBSET Entry]
    BY <1>2, <1>5, <2>1, ContentsType
  <2>5. QED
    BY <1>2, <2>1, <2>2, <2>3, <2>4 DEF Contents
<1>7. /\ \A u \in Tables : view.next_id[u] \in Nat
      /\ \A u \in Tables : view'.next_id[u] >= view.next_id[u]
      /\ id < view'.next_id[t]
  BY <1>2, <1>6, ContentsType
<1>8. \A c \in Columns, v \in Value : ~Entered(view, t, c, id, v)
  <2> SUFFICES ASSUME NEW c \in Columns, NEW v \in Value, Entered(view, t, c, id, v)
               PROVE  FALSE
    OBVIOUS
  <2>1. Covers(view, t, c, Due(view, t, c))
    BY <1>1, <1>2 DEF EngineInv, Working, DueNow, Backfilling
  <2>2. id \in Ids(view, t)
    BY <1>4, <2>1 DEF Covers, Due
  <2>3. id < id /\ id \in Nat
    BY <1>2, <2>2, ContentsType DEF Fresh
  <2>4. QED
    BY <2>3
<1>9. \A c \in Columns, i \in RowIds, v \in Value :
          Entered(view', t, c, i, v) <=>
             Entered(view, t, c, i, v) \/ (c \in Indexed(view, t) /\ i = id /\ v = Filed(row[c]))
  <2>1. view'.idx[t] = view.idx[t] \cup new
    BY <1>2, <1>6, ContentsType
  <2>2. QED
    BY <1>5, <2>1 DEF Entered
<1>10. row # NoRow
  BY <1>3, EngineAssumption
<1>11. \A u \in Tables \ {t} : view'.idx[u] = view.idx[u]
  BY <1>2, <1>6, ContentsType
<1>12. /\ UNCHANGED <<disk, open, before, stmt, planned>>
       /\ applied' \in Nat /\ todo' \subseteq todo
  BY <1>2, <1>4 DEF Processed
<1>13. QED
  BY <1>1, <1>3, <1>4, <1>6, <1>7, <1>8, <1>9, <1>10, <1>11, <1>12, OneRow, SMTT(30)

(* What an UPDATE or DELETE knows of the row it takes.                     *)
LEMMA TakenRow ==
  ASSUME EngineInv, NEW kind \in {"update", "delete"}, NEW item \in NextItem(kind)
  PROVE  /\ ~Idle /\ planned /\ stmt.kind = kind
         /\ view \in Contents /\ Fresh(view) /\ stmt.table \in Tables /\ applied \in Nat
         /\ view.schema[stmt.table] # NoSchema /\ WellFormed(stmt)
         /\ item.id \in RowIds /\ item.id \in Ids(view, stmt.table)
         /\ item.row \in Row /\ item.row = view.row[stmt.table][item.id]
         /\ \A j \in todo \ {item} : j.id # item.id
         /\ \A c \in Columns, v \in Value :
               Entered(view, stmt.table, c, item.id, v) <=>
                  c \in Indexed(view, stmt.table) /\ v = Filed(item.row[c])
<1>1. /\ ~Idle /\ planned /\ stmt.kind = kind /\ Current(item)
      /\ \A j \in todo \ {item} : j.id # item.id
  BY Taken
<1>2. /\ view \in Contents /\ Fresh(view) /\ stmt.table \in Tables /\ applied \in Nat
      /\ view.schema[stmt.table] # NoSchema /\ WellFormed(stmt)
  BY <1>1, WriteInTables DEF EngineInv, Working
<1>3. /\ item.id \in Ids(view, stmt.table) /\ item.id \in RowIds
      /\ item.row = view.row[stmt.table][item.id] /\ item.row \in Row
  BY <1>1, <1>2, ContentsType DEF Current
<1>4. ASSUME NEW c \in Columns, NEW v \in Value
      PROVE  Entered(view, stmt.table, c, item.id, v) <=>
                c \in Indexed(view, stmt.table) /\ v = Filed(item.row[c])
  <2>1. Covers(view, stmt.table, c, Due(view, stmt.table, c))
    BY <1>1, <1>2 DEF EngineInv, Working, DueNow, Backfilling
  <2>2. QED
    BY <1>3, <2>1 DEF Covers, Due
<1>5. QED
  BY <1>1, <1>2, <1>3, <1>4

LEMMA Deleting ==
  ASSUME EngineInv, NEW item \in NextItem("delete"), DeleteRow(item)
  PROVE  EngineInv'
<1> DEFINE t == stmt.table
           old == index_entries(Indexed(view, t), item.id, item.row)
<1>1. /\ ~Idle /\ planned /\ stmt.kind = "delete"
      /\ view \in Contents /\ t \in Tables /\ applied \in Nat
      /\ item.id \in RowIds /\ item.row \in Row
      /\ \A j \in todo \ {item} : j.id # item.id
      /\ \A c \in Columns, v \in Value :
            Entered(view, t, c, item.id, v) <=>
               c \in Indexed(view, t) /\ v = Filed(item.row[c])
  BY TakenRow
<1>2. /\ view' = [view EXCEPT !.row[t][item.id] = NoRow, !.idx[t] = @ \ old]
      /\ Processed(item, 1)
  BY DEF DeleteRow
<1>3. \A c \in Columns, i \in RowIds, v \in Value :
         [column |-> c, value |-> v, id |-> i] \in old
            <=> c \in Indexed(view, t) /\ i = item.id /\ v = Filed(item.row[c])
  BY DEF index_entries
<1> HIDE DEF old
<1>4. /\ view'.schema = view.schema
      /\ view'.row = [view.row EXCEPT ![t][item.id] = NoRow]
      /\ view'.next_id = view.next_id
      /\ view'.idx = [view.idx EXCEPT ![t] = @ \ old]
      /\ view' \in Contents
  BY <1>1, <1>2 DEF Contents
<1>5. \A u \in Tables : view'.next_id[u] >= view.next_id[u]
  BY <1>1, <1>4, ContentsType
<1>6. \A c \in Columns, i \in RowIds, v \in Value :
         Entered(view', t, c, i, v) <=>
            /\ Entered(view, t, c, i, v)
            /\ ~(c \in Indexed(view, t) /\ i = item.id /\ v = Filed(item.row[c]))
  <2>1. view'.idx[t] = view.idx[t] \ old
    BY <1>1, <1>4, ContentsType
  <2>2. QED
    BY <1>3, <2>1 DEF Entered
<1>7. \A u \in Tables \ {t} : view'.idx[u] = view.idx[u]
  BY <1>1, <1>4, ContentsType
<1>8. /\ UNCHANGED <<disk, open, before, stmt, planned>>
      /\ applied' \in Nat /\ todo' \subseteq todo
      /\ \A j \in todo' : j.id # item.id
  BY <1>1, <1>2 DEF Processed
<1>9. QED
  BY <1>1, <1>4, <1>5, <1>6, <1>7, <1>8, OneRow

LEMMA Updating ==
  ASSUME EngineInv, NEW item \in NextItem("update"), UpdateRow(item)
  PROVE  EngineInv'
<1> DEFINE t == stmt.table
           row == UpdatedRow(stmt.assignments, item.row)
           entries == reindex_row(view.idx[t], Indexed(view, t), item.id, item.row, row)
<1>1. /\ ~Idle /\ planned /\ stmt.kind = "update"
      /\ view \in Contents /\ t \in Tables /\ applied \in Nat /\ Fresh(view)
      /\ item.id \in RowIds /\ item.id \in Ids(view, t) /\ item.row \in Row
      /\ \A j \in todo \ {item} : j.id # item.id
      /\ \A c \in Columns, v \in Value :
            Entered(view, t, c, item.id, v) <=>
               c \in Indexed(view, t) /\ v = Filed(item.row[c])
  BY TakenRow
<1>2. row \in Row
  <2>1. stmt.assignments \in Seq([column : STRING, value : Value])
    BY <1>1, StatementsAssumption DEF EngineInv, Working, Writes, OfKind
  <2>2. QED
    BY <1>1, <2>1, UpdatedRowType DEF UpdateRow
<1>3. /\ view' = [view EXCEPT !.row[t][item.id] = row, !.idx[t] = entries]
      /\ Processed(item, 1)
  BY DEF UpdateRow
<1> HIDE DEF row
<1>4. Indexed(view, t) \subseteq Columns /\ view.idx[t] \subseteq Entry
  BY <1>1, ContentsType
<1>5. entries \subseteq Entry
  BY <1>1, <1>2, <1>4, FiledType DEF reindex_row, index_entries, Entry
<1>6. \A c \in Columns, i \in RowIds \ {item.id}, v \in Value :
         [column |-> c, value |-> v, id |-> i] \in entries
            <=> [column |-> c, value |-> v, id |-> i] \in view.idx[t]
  BY DEF reindex_row, index_entries
<1>7. \A c \in Columns, v \in Value :
         [column |-> c, value |-> v, id |-> item.id] \in entries
            <=> c \in Indexed(view, t) /\ v = Filed(row[c])
  <2> SUFFICES ASSUME NEW c \in Columns, NEW v \in Value
               PROVE  [column |-> c, value |-> v, id |-> item.id] \in entries
                         <=> c \in Indexed(view, t) /\ v = Filed(row[c])
    OBVIOUS
  <2> DEFINE e == [column |-> c, value |-> v, id |-> item.id]
             moved == {d \in Indexed(view, t) : Filed(item.row[d]) # Filed(row[d])}
  <2>1. e \in view.idx[t] <=> c \in Indexed(view, t) /\ v = Filed(item.row[c])
    BY <1>1 DEF Entered
  <2>2. e \in index_entries(moved, item.id, item.row) <=> c \in moved /\ v = Filed(item.row[c])
    BY DEF index_entries
  <2>3. e \in index_entries(moved, item.id, row) <=> c \in moved /\ v = Filed(row[c])
    BY DEF index_entries
  <2>4. entries = (view.idx[t] \ index_entries(moved, item.id, item.row))
                     \cup index_entries(moved, item.id, row)
    BY DEF reindex_row
  <2>5. c \in moved <=> c \in Indexed(view, t) /\ Filed(item.row[c]) # Filed(row[c])
    OBVIOUS
  <2> HIDE DEF e, moved, entries
  <2>6. e \in entries <=> c \in Indexed(view, t) /\ v = Filed(row[c])
    BY <2>1, <2>2, <2>3, <2>4, <2>5
  <2>7. QED
    BY <2>6 DEF e
<1> HIDE DEF entries
<1>8. /\ view'.schema = view.schema
      /\ view'.row = [view.row EXCEPT ![t][item.id] = row]
      /\ view'.next_id = view.next_id
      /\ view'.idx = [view.idx EXCEPT ![t] = entries]
      /\ view' \in Contents
  BY <1>1, <1>2, <1>3, <1>5 DEF Contents
<1>9. /\ \A u \in Tables : view'.next_id[u] >= view.next_id[u]
      /\ item.id < view'.next_id[t] /\ row # NoRow
  BY <1>1, <1>2, <1>8, ContentsType, EngineAssumption DEF Fresh
<1>10. view'.idx[t] = entries /\ \A u \in Tables \ {t} : view'.idx[u] = view.idx[u]
  BY <1>1, <1>8, ContentsType
<1>11. /\ \A c \in Columns, i \in RowIds \ {item.id}, v \in Value :
             Entered(view', t, c, i, v) <=> Entered(view, t, c, i, v)
       /\ \A c \in Columns, v \in Value :
             Entered(view', t, c, item.id, v) <=>
                c \in Indexed(view, t) /\ row # NoRow /\ v = Filed(row[c])
  BY <1>6, <1>7, <1>9, <1>10 DEF Entered
<1>12. /\ UNCHANGED <<disk, open, before, stmt, planned>>
       /\ applied' \in Nat /\ todo' \subseteq todo
       /\ \A j \in todo' : j.id # item.id
  BY <1>1, <1>3 DEF Processed
<1>13. QED
  BY <1>1, <1>2, <1>8, <1>9, <1>10, <1>11, <1>12, OneRow

LEMMA Skipping ==
  ASSUME EngineInv, NEW kind \in {"update", "delete"}, NEW item \in NextItem(kind),
         SkipRow(item)
  PROVE  EngineInv'
<1>1. /\ ~Idle /\ planned /\ stmt.kind = kind
      /\ view \in Contents /\ Fresh(view) /\ applied \in Nat
      /\ view.schema[stmt.table] # NoSchema /\ WellFormed(stmt)
  BY TakenRow
<1>2. /\ UNCHANGED <<view, disk, open, before, stmt, planned>>
      /\ applied' = applied + 0 /\ todo' \subseteq todo
  BY DEF SkipRow, Processed
<1>3. \A t \in Tables, c \in Columns : DueNow(t, c)' = DueNow(t, c)
  BY <1>1, <1>2 DEF DueNow, Backfilling
<1>4. /\ \A t \in Tables, c \in Columns : Covers(view, t, c, DueNow(t, c))
      /\ \A j \in todo' : Current(j)'
  BY <1>1, <1>2 DEF EngineInv, Working, Current
<1>5. QED
  BY <1>1, <1>2, <1>3, <1>4, Onward

LEMMA CreatedIndex ==
  ASSUME EngineInv, ~Idle, planned, stmt.kind = "create_index"
  PROVE  /\ stmt.table \in Tables /\ stmt.column \in Columns /\ stmt.name \in IndexNames
         /\ view \in Contents /\ Fresh(view) /\ applied \in Nat
         /\ view.schema[stmt.table] # NoSchema /\ WellFormed(stmt)
<1>1. /\ stmt.table \in Tables /\ view \in Contents /\ Fresh(view) /\ applied \in Nat
      /\ view.schema[stmt.table] # NoSchema /\ WellFormed(stmt)
  BY WriteInTables DEF EngineInv, Working
<1>2. stmt.column \in Columns
  BY <1>1 DEF WellFormed
<1>3. stmt.name \in IndexNames
  BY EngineAssumption DEF EngineInv, Working, Writes, OfKind
<1>4. QED
  BY <1>1, <1>2, <1>3

LEMMA Filling ==
  ASSUME EngineInv, NEW item \in NextItem("create_index"), BackfillRow(item)
  PROVE  EngineInv'
<1> DEFINE t == stmt.table
           col == stmt.column
           new == index_entries({col}, item.id, item.row)
<1>1. /\ ~Idle /\ planned /\ stmt.kind = "create_index" /\ item \in todo /\ Current(item)
      /\ \A j \in todo \ {item} : j.id # item.id
  BY Taken
<1>2. /\ t \in Tables /\ col \in Columns
      /\ view \in Contents /\ Fresh(view) /\ applied \in Nat
      /\ view.schema[t] # NoSchema /\ WellFormed(stmt)
  BY <1>1, CreatedIndex
<1>3. /\ item.id \in Ids(view, t) /\ item.id \in RowIds
      /\ item.row = view.row[t][item.id] /\ item.row \in Row
  BY <1>1, <1>2, ContentsType DEF Current
<1>4. /\ view' = [view EXCEPT !.idx[t] = @ \cup new]
      /\ UNCHANGED <<disk, open, before, stmt, planned>>
      /\ applied' = applied + 1 /\ todo' = todo \ {item}
  BY DEF BackfillRow, Processed
<1>5. new \subseteq Entry
  BY <1>2, <1>3, FiledType DEF index_entries, Entry
<1>6. \A c \in Columns, i \in RowIds, v \in Value :
         [column |-> c, value |-> v, id |-> i] \in new
            <=> c = col /\ i = item.id /\ v = Filed(item.row[c])
  BY DEF index_entries
<1> HIDE DEF new
<1>7. /\ view'.schema = view.schema /\ view'.row = view.row
      /\ view'.next_id = view.next_id
      /\ view'.idx = [view.idx EXCEPT ![t] = @ \cup new]
      /\ view' \in Contents
  BY <1>2, <1>4, <1>5 DEF Contents
<1>8. \A u \in Tables : Ids(view', u) = Ids(view, u) /\ Indexed(view', u) = Indexed(view, u)
  BY <1>7 DEF Ids, Indexed
<1>9. Fresh(view')
  BY <1>2, <1>7, <1>8 DEF Fresh
<1>10. \A u \in Tables, c \in Columns, i \in RowIds, v \in Value :
          Entered(view', u, c, i, v) <=>
             \/ Entered(view, u, c, i, v)
             \/ u = t /\ c = col /\ i = item.id /\ v = Filed(item.row[c])
  <2>1. view'.idx[t] = view.idx[t] \cup new
        /\ \A u \in Tables \ {t} : view'.idx[u] = view.idx[u]
    BY <1>2, <1>7, ContentsType
  <2>2. \A c \in Columns, i \in RowIds, v \in Value :
           Entered(view', t, c, i, v) <=>
              \/ Entered(view, t, c, i, v)
              \/ c = col /\ i = item.id /\ v = Filed(item.row[c])
    BY <1>6, <2>1 DEF Entered
  <2>3. \A u \in Tables \ {t}, c \in Columns, i \in RowIds, v \in Value :
           Entered(view', u, c, i, v) <=> Entered(view, u, c, i, v)
    BY <2>1 DEF Entered
  <2>4. QED
    BY <1>2, <2>2, <2>3
<1>11. Waiting' = Waiting \ {item.id}
  BY <1>1, <1>4 DEF Waiting
<1>12. ASSUME NEW u \in Tables, NEW c \in Columns
       PROVE  Covers(view', u, c, DueNow(u, c)')
  <2>1. Covers(view, u, c, DueNow(u, c))
    BY <1>1 DEF EngineInv, Working
  <2>2. CASE u = t /\ c = col
    <3>1. DueNow(u, c)' = DueNow(u, c) \cup {item.id}
      <4>1. Backfilling(u, c) /\ Backfilling(u, c)'
        BY <1>1, <1>4, <2>2 DEF Backfilling
      <4>2. QED
        BY <1>3, <1>8, <1>11, <2>2, <4>1 DEF DueNow, Due
    <3>2. Covers(view', u, c, DueNow(u, c) \cup {item.id})
      BY <1>3, <1>7, <1>10, <2>1, <2>2 DEF Covers
    <3>3. QED
      BY <3>1, <3>2
  <2>3. CASE ~(u = t /\ c = col)
    <3>1. DueNow(u, c)' = DueNow(u, c)
      BY <1>4, <1>8, <2>3 DEF DueNow, Due, Backfilling
    <3>2. Covers(view', u, c, DueNow(u, c))
      BY <1>7, <1>10, <2>1, <2>3 DEF Covers
    <3>3. QED
      BY <3>1, <3>2
  <2>4. QED
    BY <2>2, <2>3
<1>13. \A j \in todo' : Current(j)'
  <2>1. \A j \in todo : Current(j)
    BY <1>1 DEF EngineInv, Working
  <2>2. QED
    BY <1>2, <1>4, <1>7, <1>8, <2>1 DEF Current
<1>14. applied' \in Nat /\ planned' = TRUE /\ view'.schema[t] # NoSchema
  BY <1>1, <1>2, <1>4, <1>7
<1>15. QED
  BY <1>1, <1>2, <1>4, <1>7, <1>9, <1>12, <1>13, <1>14, Onward

(* Once every row is filed, the index counts.                              *)
LEMMA Saving == ASSUME EngineInv, SaveSchema PROVE EngineInv'
<1> DEFINE t == stmt.table
           col == stmt.column
           def == [name |-> stmt.name, column |-> col]
<1>1. /\ planned /\ stmt.kind = "create_index" /\ todo = {} /\ col \notin Indexed(view, t)
      /\ view' = [view EXCEPT !.schema[t] = @ \cup {def}]
      /\ UNCHANGED <<disk, open, before, stmt, planned, todo, applied>>
  BY DEF SaveSchema
<1>2. ~Idle
  BY <1>1 DEF EngineInv, Resting
<1>3. /\ t \in Tables /\ col \in Columns /\ def \in IndexDef
      /\ view \in Contents /\ Fresh(view) /\ applied \in Nat
      /\ view.schema[t] # NoSchema /\ WellFormed(stmt)
  BY <1>1, <1>2, CreatedIndex DEF IndexDef
<1>4. def.column = col
  OBVIOUS
<1> HIDE DEF def
<1>5. view.schema \in [Tables -> {NoSchema} \cup SUBSET IndexDef]
      /\ view.schema[t] \in SUBSET IndexDef
  BY <1>3, ContentsType
<1>6. /\ view'.schema = [view.schema EXCEPT ![t] = @ \cup {def}]
      /\ view'.row = view.row /\ view'.next_id = view.next_id /\ view'.idx = view.idx
      /\ view' \in Contents
  BY <1>1, <1>3, <1>5 DEF Contents
<1>7. view'.schema[t] = view.schema[t] \cup {def} /\ view'.schema[t] # NoSchema
  BY <1>3, <1>5, <1>6, EngineAssumption
<1>8. /\ \A u \in Tables : Ids(view', u) = Ids(view, u)
      /\ \A u \in Tables \ {t} : Indexed(view', u) = Indexed(view, u)
      /\ Indexed(view', t) = Indexed(view, t) \cup {col}
  <2>1. \A u \in Tables \ {t} : view'.schema[u] = view.schema[u]
    BY <1>5, <1>6
  <2>2. Indexed(view', t) = Indexed(view, t) \cup {col}
    BY <1>3, <1>4, <1>7 DEF Indexed
  <2>3. QED
    BY <1>6, <2>1, <2>2 DEF Ids, Indexed
<1>9. ASSUME NEW u \in Tables, NEW c \in Columns
      PROVE  Covers(view', u, c, DueNow(u, c)')
  <2>1. Covers(view, u, c, DueNow(u, c))
    BY <1>2 DEF EngineInv, Working
  <2>2. DueNow(u, c)' = DueNow(u, c)
    <3>1. CASE u = t /\ c = col
      <4>1. Backfilling(u, c) /\ Waiting = {}
        BY <1>1, <3>1 DEF Backfilling, Waiting
      <4>2. DueNow(u, c) = Ids(view, t)
        BY <1>1, <3>1, <4>1 DEF DueNow
      <4>3. DueNow(u, c)' = Ids(view', t)
        BY <1>8, <3>1 DEF DueNow, Due
      <4>4. QED
        BY <1>3, <1>8, <4>2, <4>3
    <3>2. CASE ~(u = t /\ c = col)
      BY <1>1, <1>8, <3>2 DEF DueNow, Due, Backfilling
    <3>3. QED
      BY <3>1, <3>2
  <2>3. Covers(view', u, c, DueNow(u, c))
    BY <1>6, <2>1 DEF Covers, Entered
  <2>4. QED
    BY <2>2, <2>3
<1>10. Fresh(view')
  BY <1>3, <1>6, <1>8 DEF Fresh
<1>11. QED
  BY <1>1, <1>2, <1>3, <1>6, <1>7, <1>9, <1>10, Onward

----------------------------------------------------------------------------
(* The invariant is inductive.                                             *)

LEMMA Inductive == EngineInv /\ [Next]_vars => EngineInv'
<1> SUFFICES ASSUME EngineInv, [Next]_vars PROVE EngineInv'
  OBVIOUS
<1>1. CASE UNCHANGED vars
  BY <1>1 DEF vars, EngineInv, Resting, Working, Idle, Sound, Fresh, Covers, Entered, Due,
              DueNow, Backfilling, Waiting, Current, Ids, Indexed
<1>2. CASE Begin \/ Commit \/ CommitFails \/ Rollback \/ ReadFails
           \/ (\E s \in Selects : Select(s)) \/ \E s \in Reports : Report(s)
  BY <1>2, Between
<1>3. ASSUME NEW s \in Writes, Start(s) PROVE EngineInv'
  BY <1>3, Starting
<1>4. CASE Plan
  BY <1>4, Collecting
<1>5. CASE CreateTable
  BY <1>5, NewTable
<1>6. CASE SaveSchema
  BY <1>6, Saving
<1>7. ASSUME NEW item \in NextItem("insert"), InsertRow(item) \/ InsertMismatch(item)
      PROVE  EngineInv'
  <2>1. CASE InsertRow(item)
    BY <2>1, Inserting
  <2>2. CASE InsertMismatch(item)
    <3>1. ~Idle
      BY Taken
    <3>2. QED
      BY <2>2, <3>1, Ending DEF InsertMismatch
  <2>3. QED
    BY <1>7, <2>1, <2>2
<1>8. ASSUME NEW item \in NextItem("update"),
             UpdateRow(item) \/ UpdateMismatch(item) \/ SkipRow(item)
      PROVE  EngineInv'
  <2>1. CASE UpdateRow(item)
    BY <2>1, Updating
  <2>2. CASE UpdateMismatch(item)
    <3>1. ~Idle
      BY Taken
    <3>2. QED
      BY <2>2, <3>1, Ending DEF UpdateMismatch
  <2>3. CASE SkipRow(item)
    BY <2>3, Skipping
  <2>4. QED
    BY <1>8, <2>1, <2>2, <2>3
<1>9. ASSUME NEW item \in NextItem("delete"), DeleteRow(item) \/ SkipRow(item)
      PROVE  EngineInv'
  <2>1. CASE DeleteRow(item)
    BY <2>1, Deleting
  <2>2. CASE SkipRow(item)
    BY <2>2, Skipping
  <2>3. QED
    BY <1>9, <2>1, <2>2
<1>10. ASSUME NEW item \in NextItem("create_index"), BackfillRow(item) PROVE EngineInv'
  BY <1>10, Filling
<1>11. CASE Reject \/ Fail \/ Finish \/ FinishFails \/ Crash
  BY <1>11, Ending DEF Reject, Fail
<1>12. CASE Work
  BY <1>4, <1>5, <1>6, <1>7, <1>8, <1>9, <1>10, <1>11, <1>12 DEF Work
<1>13. QED
  BY <1>1, <1>2, <1>3, <1>11, <1>12 DEF Next

LEMMA Invariant == Spec => []EngineInv
  BY Initially, Inductive, PTL DEF Spec

(* The engine's state is well typed in every state it reaches.             *)
THEOREM TypeCorrect == Spec => []TypeOK
  BY Invariant, InvImpliesTypeOK, PTL

(* Whatever statements run, fail or are cut short, an index holds one      *)
(* entry per row of its table, under the row's current value, on disk, in  *)
(* the engine's view and in the snapshot a failure restores.               *)
THEOREM IndexesInSync == Spec => []IndexInSync
  BY Invariant, InvImpliesIndexInSync, PTL

(* No id below the counter is ever free for a next INSERT to take again.   *)
THEOREM IdsFresh == Spec => []FreshIds
  BY Invariant, InvImpliesFreshIds, PTL

(* Rows collected before a statement changes anything are still what is    *)
(* stored when their turn comes.                                           *)
THEOREM CollectedCurrent == Spec => []ItemsCurrent
  BY Invariant, InvImpliesItemsCurrent, PTL

(* Whatever indexes exist and however they came about, also while one is   *)
(* being built, a WHERE selects with them the rows it selects without.     *)
THEOREM IndexesTransparent == Spec => []IndexTransparent
  BY Invariant, InvImpliesIndexTransparent, PTL

----------------------------------------------------------------------------
(* Engine implements SQLDatabase.  Progress says how far the running       *)
(* statement has come from the snapshot it started on: that is what makes  *)
(* its last step the whole statement of the abstract database.             *)

Table     == stmt.table
Found     == Ids(before.view, Table)
OldRow(i) == before.view.row[Table][i]
FirstId   == before.view.next_id[Table]

(* Of the rows a statement found, those it is through with, and those of   *)
(* them that its WHERE selects.                                            *)
Through == Found \ Waiting
Changed == {i \in Through : Matches(stmt.where, OldRow(i))}

Inserted ==
    /\ applied <= Len(stmt.rows)
    /\ view.next_id[Table] = FirstId + applied
    /\ applied # 0 => FirstId \in RowIds /\ FirstId + applied - 1 \in RowIds
    /\ todo = {[id |-> n, row |-> NoRow] : n \in (applied + 1) .. Len(stmt.rows)}
    /\ \A n \in 1 .. applied : Coercible(stmt.columns, stmt.rows[n])
    /\ \A i \in RowIds :
           view.row[Table][i] = IF i \in FirstId .. (FirstId + applied - 1)
                                THEN InsertedRow(stmt.columns, stmt.rows[i - FirstId + 1])
                                ELSE OldRow(i)

Updated ==
    /\ applied = Cardinality(Changed)
    /\ Changed # {} => AssignableAll(stmt.assignments)
    /\ \A i \in RowIds :
           view.row[Table][i] = IF i \in Changed
                                THEN UpdatedRow(stmt.assignments, OldRow(i))
                                ELSE OldRow(i)

Deleted ==
    /\ applied = Cardinality(Changed)
    /\ \A i \in RowIds : view.row[Table][i] = IF i \in Changed THEN NoRow ELSE OldRow(i)

(* The schema is saved last.                                               *)
Indexing ==
    /\ applied = Cardinality(Through)
    /\ before.view.schema[Table] # NoSchema
    /\ view.row[Table] = before.view.row[Table]
    /\ stmt.name \notin NamesInUse(before.view)
    /\ stmt.column \notin Indexed(before.view, Table)
    /\ \/ view.schema[Table] = before.view.schema[Table]
       \/ /\ todo = {}
          /\ view.schema[Table] = before.view.schema[Table]
                                     \cup {[name |-> stmt.name, column |-> stmt.column]}

Created == /\ before.view.schema[Table] = NoSchema
           /\ view.schema[Table] = {}
           /\ view.row[Table] = before.view.row[Table]
           /\ todo = {} /\ applied = 0

(* A statement leaves other tables alone, and its own table's schema too   *)
(* unless that is what it is for.                                          *)
Elsewhere ==
    /\ \A t \in Tables \ {Table} : /\ view.schema[t] = before.view.schema[t]
                                   /\ view.row[t] = before.view.row[t]
    /\ stmt.kind \notin {"create_table", "create_index"} =>
           view.schema[Table] = before.view.schema[Table]

Progressing ==
    IF planned
    THEN /\ Elsewhere
         /\ stmt.kind = "insert"       => Inserted
         /\ stmt.kind = "update"       => Updated
         /\ stmt.kind = "delete"       => Deleted
         /\ stmt.kind = "create_index" => Indexing
         /\ stmt.kind = "create_table" => Created
    ELSE view = before.view /\ applied = 0

(* The contents and the transaction a statement starts from.               *)
Seen  == IF Idle THEN view ELSE before.view
InTxn == IF Idle THEN open ELSE before.open

(* Only a table that exists has rows.                                      *)
Rooted(kv) == \A t \in Tables : kv.schema[t] = NoSchema => Ids(kv, t) = {}

(* Outside a transaction the engine sees what is on disk.                  *)
Progress == /\ Rooted(disk) /\ Rooted(Seen)
            /\ ~InTxn => Seen = disk
            /\ IF Idle THEN applied = 0 ELSE Progressing

----------------------------------------------------------------------------
(* Progress holds between statements, and when one starts or ends.         *)

LEMMA ProgressAtFirst == Init => Progress
<1> SUFFICES ASSUME Init PROVE Progress
  OBVIOUS
<1>1. Idle /\ disk = Empty /\ view = Empty /\ applied = 0
  BY DEF Init, Idle
<1>2. Rooted(Empty)
  BY DEF Rooted, Ids, Empty
<1>3. QED
  BY <1>1, <1>2 DEF Progress, Seen

LEMMA ProgressBetween ==
  ASSUME EngineInv, Progress,
         Begin \/ Commit \/ CommitFails \/ Rollback \/ ReadFails \/ (\E s \in Selects : Select(s))
           \/ \E s \in Reports : Report(s)
  PROVE  Progress'
<1>1. /\ Idle /\ UNCHANGED <<stmt, applied>>
      /\ (open' = TRUE \/ view' = disk' \/ UNCHANGED <<open, view, disk>>)
      /\ disk' \in {disk, view} /\ view' \in {disk, view}
  BY DEF Begin, Commit, CommitFails, Rollback, ReadFails, Select, Report
<1>2. Rooted(disk') /\ Rooted(view') /\ applied = 0 /\ (~open => view = disk)
  BY <1>1 DEF Progress, Seen, InTxn
<1>3. QED
  BY <1>1, <1>2 DEF Progress, Seen, InTxn, Idle

LEMMA ProgressStarting ==
  ASSUME EngineInv, Progress, NEW s \in Writes, Start(s)
  PROVE  Progress'
<1>1. /\ stmt' = s /\ s # NoStatement /\ before' = [open |-> open, view |-> view]
      /\ UNCHANGED <<disk, view, planned, applied>> /\ Idle
  BY NotIdle DEF Start
<1>2. /\ ~planned /\ applied = 0 /\ (~open => view = disk)
      /\ Rooted(disk) /\ Rooted(view)
  BY <1>1 DEF EngineInv, Resting, Progress, Seen, InTxn
<1>3. before'.open = open /\ before'.view = view
  BY <1>1
<1>4. QED
  BY <1>1, <1>2, <1>3 DEF Progress, Progressing, Seen, InTxn, Idle

(* What a statement has written so far is in tables that exist.            *)
LEMMA ViewRooted == ASSUME EngineInv, Progress, ~Idle PROVE Rooted(view)
<1>1. Rooted(before.view)
  BY DEF Progress, Seen
<1>2. CASE ~planned
  BY <1>1, <1>2 DEF Progress, Progressing
<1>3. CASE planned
  <2>1. Elsewhere /\ view.schema[Table] # NoSchema
    BY <1>3 DEF Progress, Progressing, EngineInv, Working, Table
  <2>2. QED
    BY <1>1, <2>1 DEF Elsewhere, Rooted, Ids
<1>4. QED
  BY <1>2, <1>3

LEMMA ProgressEnding ==
  ASSUME EngineInv, Progress, NEW answer,
         (Abort(answer) /\ ~Idle) \/ Finish \/ FinishFails \/ Crash
  PROVE  Progress'
<1>1. /\ Leave /\ (open' = FALSE => view' = disk')
      /\ Rooted(disk') /\ Rooted(view')
  <2>1. CASE Finish
    <3>1. ~Idle
      BY <2>1 DEF Finish, HandlerDone, EngineInv, Resting
    <3>2. Rooted(disk) /\ Rooted(view)
      BY <3>1, ViewRooted DEF Progress
    <3>3. QED
      BY <2>1, <3>1, <3>2 DEF Finish
  <2>2. CASE (Abort(answer) /\ ~Idle) \/ FinishFails \/ Crash
    BY <2>2 DEF Abort, FinishFails, Crash, Progress, Seen, InTxn
  <2>3. QED
    BY <2>1, <2>2
<1>2. open' \in BOOLEAN
  <2>1. EngineInv'
    BY Ending
  <2>2. QED
    BY <2>1 DEF EngineInv
<1>3. QED
  BY <1>1, <1>2 DEF Leave, Progress, Seen, InTxn, Idle

----------------------------------------------------------------------------
(* It holds when the statement is planned.                                 *)

(* What a step inside a statement leaves alone.                            *)
LEMMA Kept ==
  ASSUME ~Idle, UNCHANGED <<disk, before, stmt>>, Progress
  PROVE  /\ Table' = Table /\ Found' = Found /\ FirstId' = FirstId
         /\ \A i : OldRow(i)' = OldRow(i)
         /\ Through' = Found \ Waiting'
         /\ Changed' = {i \in Through' : Matches(stmt.where, OldRow(i))}
         /\ Progressing' /\ planned' => Progress'
  BY DEF Table, Found, FirstId, OldRow, Through, Changed, Progress, Seen, InTxn, Idle

LEMMA ProgressPlan == ASSUME EngineInv, Progress, Plan PROVE Progress'
<1>1. /\ ~Idle /\ ~planned /\ todo' = Items /\ planned' = TRUE
      /\ UNCHANGED <<disk, view, open, before, stmt, applied>>
      /\ stmt.kind # "create_table" /\ Accepted
  BY DEF Plan
<1>2. view = before.view /\ applied = 0
  BY <1>1 DEF Progress, Progressing
<1>3. Table \in Tables /\ view \in Contents /\ FirstId \in Nat
  BY <1>1, <1>2, WriteInTables, ContentsType DEF EngineInv, Working, Table, FirstId
<1>4. Elsewhere'
  BY <1>1, <1>2 DEF Elsewhere, Table
<1>5. ASSUME stmt.kind = "insert" PROVE Inserted'
  <2>1. todo' = {[id |-> n, row |-> NoRow] : n \in DOMAIN stmt.rows}
    BY <1>1, <1>5 DEF Items
  <2>2. DOMAIN stmt.rows = 1 .. Len(stmt.rows) /\ Len(stmt.rows) \in Nat
    BY <1>1, <1>5, InsertTyped
  <2>3. todo' = {[id |-> n, row |-> NoRow] : n \in (0 + 1) .. Len(stmt.rows)}
    BY <2>1, <2>2
  <2>4. FirstId .. (FirstId + 0 - 1) = {}
    BY <1>3
  <2>5. QED
    BY <1>1, <1>2, <1>3, <2>2, <2>3, <2>4 DEF Inserted, FirstId, OldRow, Table
<1>6. ASSUME stmt.kind \in {"update", "delete", "create_index"},
             NEW ids, ids \subseteq Found, Items = {[id |-> i, row |-> view.row[Table][i]] : i \in ids}
      PROVE  Waiting' = ids
  <2> DEFINE Made(i) == [id |-> i, row |-> view.row[Table][i]]
  <2>1. todo' = {Made(i) : i \in ids}
    BY <1>1, <1>6
  <2>2. \A i \in ids : Made(i).id = i
    OBVIOUS
  <2> HIDE DEF Made
  <2>3. {item.id : item \in todo'} = ids
    BY <2>1, <2>2
  <2>4. QED
    BY <2>3 DEF Waiting
<1>7. ASSUME stmt.kind \in {"update", "delete"} PROVE Changed' = {}
  <2> DEFINE ids == scan_rows(Ids(view, Table), view.idx[Table], Indexed(view, Table), stmt.where)
  <2>1. stmt.where \in Exprs \cup {NoWhere}
    BY <1>1, <1>7, StatementsAssumption DEF EngineInv, Working, Writes, OfKind
  <2>2. /\ ids \subseteq Ids(view, Table)
        /\ \A i \in Ids(view, Table) : Matches(stmt.where, view.row[Table][i]) => i \in ids
    BY <1>3, <2>1, ViewScanComplete
  <2>3. Items = {[id |-> i, row |-> view.row[Table][i]] : i \in ids}
    BY <1>7 DEF Items, Table
  <2> HIDE DEF ids
  <2>4. Waiting' = ids
    BY <1>2, <1>6, <1>7, <2>2, <2>3 DEF Found
  <2>5. Changed' = {i \in Found \ ids : Matches(stmt.where, OldRow(i))}
    BY <1>1, <2>4, Kept
  <2>6. QED
    BY <1>2, <2>2, <2>5 DEF Found, OldRow
<1>8. Cardinality({}) = 0
  BY FS_EmptySet
<1>9. ASSUME stmt.kind = "update" PROVE Updated'
  BY <1>1, <1>2, <1>7, <1>8, <1>9 DEF Updated, OldRow, Table
<1>10. ASSUME stmt.kind = "delete" PROVE Deleted'
  BY <1>1, <1>2, <1>7, <1>8, <1>10 DEF Deleted, OldRow, Table
<1>11. ASSUME stmt.kind = "create_index" PROVE Indexing'
  <2>1. Items = {[id |-> i, row |-> view.row[Table][i]] : i \in Found}
    BY <1>2, <1>11 DEF Items, Table, Found
  <2>2. Waiting' = Found
    BY <1>6, <1>11, <2>1
  <2>3. Through' = {}
    BY <1>1, <2>2, Kept
  <2>4. /\ stmt.name \notin NamesInUse(view) /\ stmt.column \notin Indexed(view, Table)
        /\ view.schema[Table] # NoSchema
    BY <1>1, <1>11 DEF Accepted, Table
  <2>5. QED
    BY <1>1, <1>2, <1>8, <2>3, <2>4 DEF Indexing, Table
<1>12. QED
  BY <1>1, <1>4, <1>5, <1>9, <1>10, <1>11, Kept DEF Progressing

LEMMA ProgressCreateTable == ASSUME EngineInv, Progress, CreateTable PROVE Progress'
<1>1. /\ ~Idle /\ ~planned /\ todo = {} /\ planned' = TRUE
      /\ UNCHANGED <<disk, open, before, stmt, todo, applied>>
      /\ stmt.kind = "create_table" /\ view.schema[Table] = NoSchema
      /\ view' = [view EXCEPT !.schema[Table] = {}]
  BY DEF CreateTable, EngineInv, Working, Accepted, Table
<1>2. view = before.view /\ applied = 0
  BY <1>1 DEF Progress, Progressing
<1>3. view \in Contents /\ Table \in Tables
  BY <1>1, WriteInTables DEF EngineInv, Working, Table
<1>4. view'.row = view.row /\ view'.schema = [view.schema EXCEPT ![Table] = {}]
  BY <1>1, <1>3 DEF Contents
<1>5. view'.schema[Table] = {} /\ \A t \in Tables \ {Table} : view'.schema[t] = view.schema[t]
  BY <1>3, <1>4, ContentsType
<1>6. Elsewhere' /\ Created'
  BY <1>1, <1>2, <1>3, <1>4, <1>5 DEF Elsewhere, Created, Table
<1>7. QED
  BY <1>1, <1>6, Kept DEF Progressing

----------------------------------------------------------------------------
(* It holds after each row.                                                *)

LEMMA FoundTyped ==
  ASSUME EngineInv, ~Idle
  PROVE  /\ Table \in Tables /\ before.view \in Contents
         /\ Found \in SUBSET (1 .. MaxId) /\ MaxId \in Nat
         /\ \A i \in Found : OldRow(i) \in Row
         /\ FirstId \in Nat /\ \A i \in Found : i < FirstId
         /\ \A S \in SUBSET Found : IsFiniteSet(S) /\ Cardinality(S) \in Nat
<1>1. Table \in Tables /\ before.view \in Contents /\ Fresh(before.view)
  BY WriteInTables DEF EngineInv, Working, Sound, Table
<1>2. Found \in SUBSET (1 .. MaxId) /\ MaxId \in Nat
  BY <1>1, EngineAssumption, ContentsType DEF Found, RowIds
<1>3. \A S \in SUBSET Found : IsFiniteSet(S) /\ Cardinality(S) \in Nat
  <2> SUFFICES ASSUME NEW S \in SUBSET Found
               PROVE  IsFiniteSet(S) /\ Cardinality(S) \in Nat
    OBVIOUS
  <2>1. S \in SUBSET (1 .. MaxId)
    BY <1>2
  <2>2. QED
    BY <1>2, <2>1, PlacesFinite
<1>4. QED
  BY <1>1, <1>2, <1>3, ContentsType DEF Found, OldRow, FirstId, Fresh

(* A row of an UPDATE, DELETE or CREATE INDEX is taken as the snapshot     *)
(* has it, and taken once.                                                 *)
LEMMA TakenOnce ==
  ASSUME EngineInv, Progress, NEW kind \in {"update", "delete", "create_index"},
         NEW item \in NextItem(kind), NEW n, Processed(item, n)
  PROVE  /\ ~Idle /\ planned /\ planned' /\ stmt.kind = kind /\ Elsewhere
         /\ UNCHANGED <<disk, before, stmt>> /\ applied' = applied + n
         /\ item.id \in RowIds /\ item.id \in Found /\ item.id \notin Through
         /\ item.row = OldRow(item.id)
         /\ Through' = Through \cup {item.id}
         /\ Changed' = IF Matches(stmt.where, item.row) THEN Changed \cup {item.id}
                                                        ELSE Changed
<1>1. /\ ~Idle /\ planned /\ stmt.kind = kind /\ item \in todo /\ Current(item)
      /\ \A j \in todo \ {item} : j.id # item.id
  BY Taken
<1>2. /\ UNCHANGED <<disk, before, stmt, planned>>
      /\ applied' = applied + n /\ todo' = todo \ {item}
  BY DEF Processed
<1>3. Waiting' = Waiting \ {item.id} /\ item.id \in Waiting
  BY <1>1, <1>2 DEF Waiting
<1>4. /\ item.id \in Ids(view, Table) /\ item.row = view.row[Table][item.id]
      /\ item.id \in RowIds /\ view.row[Table][item.id] # NoRow
  BY <1>1 DEF Current, Table, Ids
<1>5. item.id \notin Through /\ item.id \notin Changed
  BY <1>3 DEF Through, Changed
<1>6. view.row[Table][item.id] = OldRow(item.id)
  BY <1>1, <1>4, <1>5 DEF Progress, Progressing, Updated, Deleted, Indexing, OldRow
<1>7. item.id \in Found
  BY <1>4, <1>6 DEF Found, Ids, OldRow
<1>8. Through' = Through \cup {item.id}
  BY <1>1, <1>2, <1>3, <1>7, Kept DEF Through
<1>9. Changed' = IF Matches(stmt.where, item.row) THEN Changed \cup {item.id} ELSE Changed
  <2>1. Changed' = {i \in Through' : Matches(stmt.where, OldRow(i))}
    BY <1>1, <1>2, Kept
  <2>2. QED
    BY <1>4, <1>6, <1>8, <2>1 DEF Changed
<1>10. Elsewhere
  BY <1>1 DEF Progress, Progressing
<1>11. QED
  BY <1>1, <1>2, <1>4, <1>5, <1>6, <1>7, <1>8, <1>9, <1>10

(* One more row counts for one.                                            *)
LEMMA CountedOnce ==
  ASSUME EngineInv, ~Idle, NEW S \in SUBSET Through, NEW i \in Found, i \notin S
  PROVE  Cardinality(S \cup {i}) = Cardinality(S) + 1
<1>1. IsFiniteSet(S)
  BY FoundTyped DEF Through
<1>2. QED
  BY <1>1, FS_AddElement

LEMMA ProgressUpdate ==
  ASSUME EngineInv, Progress, NEW item \in NextItem("update"), UpdateRow(item)
  PROVE  Progress'
<1> DEFINE row == UpdatedRow(stmt.assignments, item.row)
           entries == reindex_row(view.idx[Table], Indexed(view, Table), item.id,
                                  item.row, row)
<1>1. /\ Matches(stmt.where, item.row) /\ AssignableAll(stmt.assignments)
      /\ view' = [view EXCEPT !.row[Table][item.id] = row, !.idx[Table] = entries]
      /\ Processed(item, 1)
  BY DEF UpdateRow, Table
<1>2. /\ ~Idle /\ planned /\ planned' /\ stmt.kind = "update" /\ Elsewhere
      /\ UNCHANGED <<disk, before, stmt>> /\ applied' = applied + 1
      /\ item.id \in RowIds /\ item.id \in Found /\ item.id \notin Through
      /\ item.row = OldRow(item.id)
      /\ Changed' = Changed \cup {item.id}
  BY <1>1, TakenOnce
<1>3. Table \in Tables /\ view \in Contents
  BY <1>2, WriteInTables DEF EngineInv, Working, Table
<1> HIDE DEF row, entries
<1>4. /\ view'.schema = view.schema
      /\ view'.row = [view.row EXCEPT ![Table][item.id] = row]
  BY <1>1, <1>3 DEF Contents
<1>5. /\ \A t \in Tables \ {Table} : view'.row[t] = view.row[t]
      /\ \A i \in RowIds : view'.row[Table][i] = IF i = item.id THEN row
                                                               ELSE view.row[Table][i]
  BY <1>2, <1>3, <1>4, ContentsType
<1>6. Elsewhere'
  BY <1>2, <1>4, <1>5 DEF Elsewhere, Table
<1>7. Updated
  BY <1>2 DEF Progress, Progressing
<1>8. applied' = Cardinality(Changed')
  <2>1. Changed \in SUBSET Through
    BY DEF Changed
  <2>2. QED
    BY <1>2, <1>7, <2>1, CountedOnce DEF Updated
<1>9. \A i \in RowIds : view'.row[Table][i] = IF i \in Changed'
                                              THEN UpdatedRow(stmt.assignments, OldRow(i))
                                              ELSE OldRow(i)
  BY <1>2, <1>5, <1>7 DEF Updated, row
<1>10. Updated'
  BY <1>1, <1>2, <1>8, <1>9, Kept DEF Updated
<1>11. QED
  BY <1>2, <1>6, <1>10, Kept DEF Progressing

LEMMA ProgressDelete ==
  ASSUME EngineInv, Progress, NEW item \in NextItem("delete"), DeleteRow(item)
  PROVE  Progress'
<1> DEFINE old == index_entries(Indexed(view, Table), item.id, item.row)
<1>1. /\ Matches(stmt.where, item.row)
      /\ view' = [view EXCEPT !.row[Table][item.id] = NoRow, !.idx[Table] = @ \ old]
      /\ Processed(item, 1)
  BY DEF DeleteRow, Table
<1>2. /\ ~Idle /\ planned /\ planned' /\ stmt.kind = "delete" /\ Elsewhere
      /\ UNCHANGED <<disk, before, stmt>> /\ applied' = applied + 1
      /\ item.id \in RowIds /\ item.id \in Found /\ item.id \notin Through
      /\ item.row = OldRow(item.id)
      /\ Changed' = Changed \cup {item.id}
  BY <1>1, TakenOnce
<1>3. Table \in Tables /\ view \in Contents
  BY <1>2, WriteInTables DEF EngineInv, Working, Table
<1> HIDE DEF old
<1>4. /\ view'.schema = view.schema
      /\ view'.row = [view.row EXCEPT ![Table][item.id] = NoRow]
  BY <1>1, <1>3 DEF Contents
<1>5. /\ \A t \in Tables \ {Table} : view'.row[t] = view.row[t]
      /\ \A i \in RowIds : view'.row[Table][i] = IF i = item.id THEN NoRow
                                                               ELSE view.row[Table][i]
  BY <1>2, <1>3, <1>4, ContentsType
<1>6. Elsewhere'
  BY <1>2, <1>4, <1>5 DEF Elsewhere, Table
<1>7. Deleted
  BY <1>2 DEF Progress, Progressing
<1>8. applied' = Cardinality(Changed')
  <2>1. Changed \in SUBSET Through
    BY DEF Changed
  <2>2. QED
    BY <1>2, <1>7, <2>1, CountedOnce DEF Deleted
<1>9. \A i \in RowIds : view'.row[Table][i] = IF i \in Changed' THEN NoRow ELSE OldRow(i)
  BY <1>2, <1>5, <1>7 DEF Deleted
<1>10. Deleted'
  BY <1>1, <1>2, <1>8, <1>9, Kept DEF Deleted
<1>11. QED
  BY <1>2, <1>6, <1>10, Kept DEF Progressing

LEMMA ProgressSkip ==
  ASSUME EngineInv, Progress, NEW kind \in {"update", "delete"},
         NEW item \in NextItem(kind), SkipRow(item)
  PROVE  Progress'
<1>1. ~Matches(stmt.where, item.row) /\ UNCHANGED view /\ Processed(item, 0)
  BY DEF SkipRow
<1>2. /\ ~Idle /\ planned /\ planned' /\ stmt.kind = kind /\ Elsewhere
      /\ UNCHANGED <<disk, before, stmt>> /\ applied' = applied + 0
      /\ Changed' = Changed
  BY <1>1, TakenOnce
<1>3. applied' = applied
  BY <1>2 DEF EngineInv
<1>4. Elsewhere'
  BY <1>1, <1>2 DEF Elsewhere, Table
<1>5. ASSUME stmt.kind = "update" PROVE Updated'
  BY <1>1, <1>2, <1>3, <1>5, Kept DEF Updated, Progress, Progressing
<1>6. ASSUME stmt.kind = "delete" PROVE Deleted'
  BY <1>1, <1>2, <1>3, <1>6, Kept DEF Deleted, Progress, Progressing
<1>7. QED
  BY <1>2, <1>4, <1>5, <1>6, Kept DEF Progressing

LEMMA ProgressBackfill ==
  ASSUME EngineInv, Progress, NEW item \in NextItem("create_index"), BackfillRow(item)
  PROVE  Progress'
<1> DEFINE new == index_entries({stmt.column}, item.id, item.row)
<1>1. view' = [view EXCEPT !.idx[Table] = @ \cup new] /\ Processed(item, 1)
  BY DEF BackfillRow, Table
<1>2. /\ ~Idle /\ planned /\ planned' /\ stmt.kind = "create_index" /\ Elsewhere
      /\ UNCHANGED <<disk, before, stmt>> /\ applied' = applied + 1
      /\ item.id \in Found /\ item.id \notin Through
      /\ Through' = Through \cup {item.id}
  BY <1>1, TakenOnce
<1>3. Table \in Tables /\ view \in Contents
  BY <1>2, WriteInTables DEF EngineInv, Working, Table
<1> HIDE DEF new
<1>4. view'.schema = view.schema /\ view'.row = view.row
  BY <1>1, <1>3 DEF Contents
<1>5. Elsewhere'
  BY <1>2, <1>4 DEF Elsewhere, Table
<1>6. Indexing
  BY <1>2 DEF Progress, Progressing
<1>7. applied' = Cardinality(Through')
  BY <1>2, <1>6, CountedOnce DEF Indexing
<1>8. todo # {}
  BY DEF NextItem
<1>9. Indexing'
  BY <1>2, <1>4, <1>6, <1>7, <1>8, Kept DEF Indexing
<1>10. QED
  BY <1>2, <1>5, <1>9, Kept DEF Progressing

(* The rows of an INSERT are taken in order.                               *)
LEMMA TakenNext ==
  ASSUME EngineInv, Progress, NEW item \in NextItem("insert"), Processed(item, 1)
  PROVE  /\ ~Idle /\ planned /\ planned' /\ stmt.kind = "insert" /\ Elsewhere /\ Inserted
         /\ UNCHANGED <<disk, before, stmt>> /\ applied' = applied + 1
         /\ applied \in Nat /\ Len(stmt.rows) \in Nat
         /\ item.id = applied + 1 /\ applied < Len(stmt.rows)
         /\ todo' = {[id |-> n, row |-> NoRow] : n \in (applied + 2) .. Len(stmt.rows)}
<1>1. /\ ~Idle /\ planned /\ stmt.kind = "insert" /\ item \in todo
  BY Taken
<1>2. \A j \in todo : item.id <= j.id
  BY DEF NextItem
<1>3. /\ UNCHANGED <<disk, before, stmt, planned>>
      /\ applied' = applied + 1 /\ todo' = todo \ {item}
  BY DEF Processed
<1>4. Elsewhere /\ Inserted
  BY <1>1 DEF Progress, Progressing
<1>5. applied \in Nat /\ Len(stmt.rows) \in Nat
  BY <1>1, InsertTyped DEF EngineInv
<1> DEFINE Made(n) == [id |-> n, row |-> NoRow]
<1>6. todo = {Made(n) : n \in (applied + 1) .. Len(stmt.rows)}
  BY <1>4 DEF Inserted
<1>7. \A n : Made(n).id = n
  OBVIOUS
<1> HIDE DEF Made
<1>8. PICK n \in (applied + 1) .. Len(stmt.rows) : item = Made(n)
  BY <1>1, <1>6
<1>9. Made(applied + 1) \in todo
  BY <1>5, <1>6, <1>8
<1>10. n <= applied + 1
  BY <1>2, <1>7, <1>8, <1>9
<1>11. n = applied + 1
  BY <1>5, <1>8, <1>10
<1>12. todo' = {Made(k) : k \in (applied + 2) .. Len(stmt.rows)}
  <2>1. \A k : Made(k) = item => k = n
    BY <1>7, <1>8
  <2>2. \A k : k \in (applied + 2) .. Len(stmt.rows)
                  <=> k \in (applied + 1) .. Len(stmt.rows) /\ k # n
    BY <1>5, <1>11
  <2>3. QED
    BY <1>3, <1>6, <1>8, <2>1, <2>2
<1>13. QED
  BY <1>1, <1>3, <1>4, <1>5, <1>7, <1>8, <1>11, <1>12 DEF Made

LEMMA ProgressInsert ==
  ASSUME EngineInv, Progress, NEW item \in NextItem("insert"), InsertRow(item)
  PROVE  Progress'
<1> DEFINE id == view.next_id[Table]
           row == InsertedRow(stmt.columns, stmt.rows[item.id])
           new == index_entries(Indexed(view, Table), id, row)
<1>1. /\ Coercible(stmt.columns, stmt.rows[item.id]) /\ id \in RowIds
      /\ view' = [view EXCEPT !.next_id[Table] = id + 1, !.row[Table][id] = row,
                              !.idx[Table] = @ \cup new]
      /\ Processed(item, 1)
  BY DEF InsertRow, Table
<1>2. /\ ~Idle /\ planned /\ planned' /\ stmt.kind = "insert" /\ Elsewhere /\ Inserted
      /\ UNCHANGED <<disk, before, stmt>> /\ applied' = applied + 1
      /\ applied \in Nat /\ Len(stmt.rows) \in Nat
      /\ item.id = applied + 1 /\ applied < Len(stmt.rows)
      /\ todo' = {[id |-> n, row |-> NoRow] : n \in (applied + 2) .. Len(stmt.rows)}
  BY <1>1, TakenNext
<1>3. Table \in Tables /\ view \in Contents /\ FirstId \in Nat
  BY <1>2, WriteInTables, FoundTyped DEF EngineInv, Working, Table
<1>4. id = FirstId + applied
  BY <1>2 DEF Inserted
<1>5. id \in Nat /\ MaxId \in Nat /\ id >= 1 /\ id <= MaxId
  BY <1>1, EngineAssumption DEF RowIds
<1> HIDE DEF row, new, id
<1>6. /\ view'.schema = view.schema
      /\ view'.row = [view.row EXCEPT ![Table][id] = row]
      /\ view'.next_id = [view.next_id EXCEPT ![Table] = id + 1]
  BY <1>1, <1>3 DEF Contents
<1>7. /\ \A t \in Tables \ {Table} : view'.row[t] = view.row[t]
      /\ \A i \in RowIds : view'.row[Table][i] = IF i = id THEN row ELSE view.row[Table][i]
      /\ view'.next_id[Table] = id + 1
  BY <1>1, <1>3, <1>6, ContentsType
<1>8. Elsewhere'
  BY <1>2, <1>6, <1>7 DEF Elsewhere, Table
<1>9. /\ applied' <= Len(stmt.rows)
      /\ view'.next_id[Table] = FirstId + applied'
      /\ FirstId \in RowIds /\ FirstId + applied' - 1 \in RowIds
      /\ applied' + 1 = applied + 2
  <2>1. FirstId \in RowIds
    BY <1>1, <1>2, <1>4, <1>3 DEF Inserted
  <2>2. QED
    BY <1>1, <1>2, <1>3, <1>4, <1>5, <1>7, <2>1
<1>10. \A n \in 1 .. applied' : Coercible(stmt.columns, stmt.rows[n])
  <2> SUFFICES ASSUME NEW n \in 1 .. applied'
               PROVE  Coercible(stmt.columns, stmt.rows[n])
    OBVIOUS
  <2>1. n \in 1 .. applied \/ n = item.id
    BY <1>2
  <2>2. QED
    BY <1>1, <1>2, <2>1 DEF Inserted
<1>11. ASSUME NEW i \in RowIds
       PROVE  view'.row[Table][i] =
                  IF i \in FirstId .. (FirstId + applied' - 1)
                  THEN InsertedRow(stmt.columns, stmt.rows[i - FirstId + 1])
                  ELSE OldRow(i)
  <2>1. i \in Nat
    BY DEF RowIds
  <2>2. CASE i = id
    <3>1. i - FirstId + 1 = item.id /\ i \in FirstId .. (FirstId + applied' - 1)
      BY <1>2, <1>3, <1>4, <1>5, <2>2
    <3>2. QED
      BY <1>7, <2>2, <3>1 DEF row
  <2>3. CASE i # id
    <3>1. i \in FirstId .. (FirstId + applied' - 1) <=> i \in FirstId .. (FirstId + applied - 1)
      BY <1>2, <1>3, <1>4, <2>1, <2>3
    <3>2. QED
      BY <1>2, <1>7, <2>3, <3>1 DEF Inserted
  <2>4. QED
    BY <2>2, <2>3
<1>12. Inserted'
  <2>1. Table' = Table /\ FirstId' = FirstId /\ \A i : OldRow(i)' = OldRow(i)
    BY <1>2, Kept
  <2>2. QED
    BY <1>2, <1>9, <1>10, <1>11, <2>1, Zenon DEF Inserted
<1>13. QED
  BY <1>2, <1>8, <1>12, Kept DEF Progressing

LEMMA ProgressSave == ASSUME EngineInv, Progress, SaveSchema PROVE Progress'
<1> DEFINE def == [name |-> stmt.name, column |-> stmt.column]
<1>1. /\ planned /\ stmt.kind = "create_index" /\ todo = {}
      /\ stmt.column \notin Indexed(view, Table)
      /\ view' = [view EXCEPT !.schema[Table] = @ \cup {def}]
      /\ UNCHANGED <<disk, before, stmt, planned, todo, applied>>
  BY DEF SaveSchema, Table
<1>2. ~Idle
  BY <1>1 DEF EngineInv, Resting
<1>3. Table \in Tables /\ view \in Contents /\ view.schema[Table] # NoSchema
  BY <1>1, <1>2, WriteInTables DEF EngineInv, Working, Table
<1>4. Elsewhere /\ Indexing
  BY <1>1, <1>2 DEF Progress, Progressing
<1>5. def.column = stmt.column
  OBVIOUS
<1> HIDE DEF def
<1>6. view'.row = view.row /\ view'.schema = [view.schema EXCEPT ![Table] = @ \cup {def}]
  BY <1>1, <1>3 DEF Contents
<1>7. /\ view'.schema[Table] = view.schema[Table] \cup {def}
      /\ \A t \in Tables \ {Table} : view'.schema[t] = view.schema[t]
  BY <1>3, <1>6, ContentsType
<1>8. view.schema[Table] = before.view.schema[Table]
  <2>1. ASSUME def \in view.schema[Table] PROVE FALSE
    BY <1>1, <1>3, <1>5, <2>1 DEF Indexed
  <2>2. QED
    BY <1>4, <2>1 DEF Indexing, def
<1>9. Elsewhere'
  BY <1>1, <1>4, <1>6, <1>7 DEF Elsewhere, Table
<1>10. Through' = Through
  BY <1>1, <1>2, Kept DEF Waiting, Through
<1>11. Indexing'
  BY <1>1, <1>4, <1>6, <1>7, <1>8, <1>10 DEF Indexing, Table, def
<1>12. QED
  BY <1>1, <1>2, <1>9, <1>11, Kept DEF Progressing

LEMMA ProgressInductive == EngineInv /\ Progress /\ [Next]_vars => Progress'
<1> SUFFICES ASSUME EngineInv, Progress, [Next]_vars PROVE Progress'
  OBVIOUS
<1>1. CASE UNCHANGED vars
  BY <1>1 DEF vars, Progress, Progressing, Elsewhere, Inserted, Updated, Deleted, Indexing,
              Created, Changed, Through, Found, OldRow, FirstId, Table, Waiting, Idle,
              Seen, InTxn, Rooted, Ids
<1>2. CASE Begin \/ Commit \/ CommitFails \/ Rollback \/ ReadFails
           \/ (\E s \in Selects : Select(s)) \/ \E s \in Reports : Report(s)
  BY <1>2, ProgressBetween
<1>3. ASSUME NEW s \in Writes, Start(s) PROVE Progress'
  BY <1>3, ProgressStarting
<1>4. CASE Plan \/ CreateTable \/ SaveSchema
  BY <1>4, ProgressPlan, ProgressCreateTable, ProgressSave
<1>5. ASSUME NEW item \in NextItem("insert"), InsertRow(item) \/ InsertMismatch(item)
      PROVE  Progress'
  <2>1. ~Idle
    BY Taken
  <2>2. QED
    BY <1>5, <2>1, ProgressInsert, ProgressEnding DEF InsertMismatch
<1>6. ASSUME NEW item \in NextItem("update"),
             UpdateRow(item) \/ UpdateMismatch(item) \/ SkipRow(item)
      PROVE  Progress'
  <2>1. ~Idle
    BY Taken
  <2>2. QED
    BY <1>6, <2>1, ProgressUpdate, ProgressSkip, ProgressEnding DEF UpdateMismatch
<1>7. ASSUME NEW item \in NextItem("delete"), DeleteRow(item) \/ SkipRow(item)
      PROVE  Progress'
  BY <1>7, ProgressDelete, ProgressSkip
<1>8. ASSUME NEW item \in NextItem("create_index"), BackfillRow(item) PROVE Progress'
  BY <1>8, ProgressBackfill
<1>9. CASE Reject \/ Fail \/ Finish \/ FinishFails \/ Crash
  BY <1>9, ProgressEnding DEF Reject, Fail
<1>10. CASE Work
  BY <1>4, <1>5, <1>6, <1>7, <1>8, <1>9, <1>10 DEF Work
<1>11. QED
  BY <1>1, <1>2, <1>3, <1>9, <1>10 DEF Next

LEMMA ProgressInvariant == Spec => [](EngineInv /\ Progress)
  BY Initially, Inductive, ProgressAtFirst, ProgressInductive, PTL DEF Spec

----------------------------------------------------------------------------
(* The abstract database says the same of a statement and a row: its       *)
(* operators are those of Statements and Where.                            *)

LEMMA SamePicked == \A rows, places : DB!Picked(rows, places) = Picked(rows, places)
  BY Zenon DEF DB!Picked, Picked, DB!InOrder, InOrder, DB!Cardinality, Cardinality

LEMMA SameMatches == \A where, row : DB!Matches(where, row) <=> Matches(where, row)
  BY Zenon DEF DB!Matches, Matches, DB!NoWhere, NoWhere, DB!eval_expr, eval_expr,
               DB!compare, compare, DB!Ordered, Ordered, DB!Lookup, Lookup,
               DB!Missing, Missing

LEMMA SameCoerced == \A v, type : DB!coerce_value(v, type) = coerce_value(v, type)
  BY Zenon DEF DB!coerce_value, coerce_value, DB!Null, Null, DB!TypeMismatch, TypeMismatch

LEMMA SameCoercible ==
  \A columns, literals : DB!Coercible(columns, literals) <=> Coercible(columns, literals)
  BY SameCoerced, Zenon DEF DB!Coercible, Coercible, DB!TypeMismatch, TypeMismatch

LEMMA SameInserted ==
  \A columns, literals : DB!InsertedRow(columns, literals) = InsertedRow(columns, literals)
  BY Zenon DEF DB!InsertedRow, InsertedRow, DB!Given, Given, DB!coerce_value, coerce_value,
               DB!Null, Null, DB!Missing, Missing, DB!TypeMismatch, TypeMismatch, DB!Max, Max

LEMMA SameAssignable ==
  \A assignments : DB!AssignableAll(assignments) <=> AssignableAll(assignments)
  BY SameCoerced, Zenon DEF DB!AssignableAll, AssignableAll, DB!TypeMismatch, TypeMismatch

LEMMA SameUpdated ==
  \A assignments, row : DB!UpdatedRow(assignments, row) = UpdatedRow(assignments, row)
  BY Zenon DEF DB!UpdatedRow, UpdatedRow, DB!coerce_value, coerce_value,
               DB!Null, Null, DB!TypeMismatch, TypeMismatch, DB!Max, Max

LEMMA SameWellFormed == \A s : DB!WellFormed(s) = WellFormed(s)
  BY Zenon DEF DB!WellFormed, WellFormed

LEMMA SameReports ==
  /\ DB!Reports = Reports
  /\ \A defs : DB!exec_describe(defs) = exec_describe(defs)
  /\ \A s, defs : DB!exec_explain(s, defs) = exec_explain(s, defs)
<1>1. DB!Reports = Reports
  BY Zenon DEF DB!Reports, Reports, DB!OfKind, OfKind
<1>2. \A defs : DB!exec_describe(defs) = exec_describe(defs)
  BY Zenon DEF DB!exec_describe, exec_describe
<1>3. \A t, indexed, where : DB!scan_line(t, indexed, where) = scan_line(t, indexed, where)
  <2>1. DB!conjuncts = conjuncts
    BY Zenon DEF DB!conjuncts, conjuncts
  <2>2. DB!NoIndex = NoIndex /\ DB!NoWhere = NoWhere /\ DB!Null = Null
    BY Zenon DEF DB!NoIndex, NoIndex, DB!NoWhere, NoWhere, DB!Null, Null
  <2>3. \A S : DB!Min(S) = Min(S)
    BY Zenon DEF DB!Min, Min
  <2>4. \A indexed, e : DB!choose_index(indexed, e) = choose_index(indexed, e)
    <3> SUFFICES ASSUME NEW indexed, NEW e
                 PROVE  DB!choose_index(indexed, e) = choose_index(indexed, e)
      OBVIOUS
    <3> DEFINE parts == conjuncts[e]
               usable == {i \in DOMAIN parts : /\ parts[i].op # "!="
                                               /\ parts[i].value # Null
                                               /\ parts[i].column \in indexed}
               equalities == {i \in usable : parts[i].op = "="}
               Answers(i) == [column |-> parts[i].column, op |-> parts[i].op,
                              value |-> parts[i].value]
    <3>1. DB!choose_index(indexed, e) =
              IF equalities # {} THEN Answers(DB!Min(equalities))
              ELSE IF usable # {} THEN Answers(DB!Min(usable)) ELSE NoIndex
      BY <2>1, <2>2 DEF DB!choose_index
    <3>2. choose_index(indexed, e) =
              IF equalities # {} THEN Answers(Min(equalities))
              ELSE IF usable # {} THEN Answers(Min(usable)) ELSE NoIndex
      BY DEF choose_index
    <3> HIDE DEF equalities, usable, Answers
    <3>3. DB!Min(equalities) = Min(equalities) /\ DB!Min(usable) = Min(usable)
      BY <2>3
    <3>4. QED
      BY <3>1, <3>2, <3>3
  <2>5. QED
    BY <2>2, <2>4, Zenon DEF DB!scan_line, scan_line
<1>4. \A s, defs : DB!exec_explain(s, defs) = exec_explain(s, defs)
  <2>1. DB!NoWhere = NoWhere
    BY Zenon DEF DB!NoWhere, NoWhere
  <2>2. QED
    BY <1>3, <2>1, Zenon DEF DB!exec_explain, exec_explain
<1>5. QED
  BY <1>1, <1>2, <1>4

----------------------------------------------------------------------------
(* The tables of some contents.                                            *)

RowsOf(kv, t) == Picked(kv.row[t], Ids(kv, t))

LEMMA TableOf ==
  ASSUME NEW kv \in Contents, NEW t \in Tables
  PROVE  /\ TablesOf(kv)[t] = NoSchema <=> kv.schema[t] = NoSchema
         /\ kv.schema[t] # NoSchema =>
                /\ TablesOf(kv)[t] = [rows |-> RowsOf(kv, t), indexes |-> kv.schema[t]]
                /\ TablesOf(kv)[t].rows = RowsOf(kv, t)
                /\ TablesOf(kv)[t].indexes = kv.schema[t]
         /\ RowsOf(kv, t) \in Seq(Row)
         /\ Len(RowsOf(kv, t)) = Cardinality(Ids(kv, t))
         /\ DOMAIN RowsOf(kv, t) = 1 .. Cardinality(Ids(kv, t))
<1>1. /\ Ids(kv, t) \in SUBSET (1 .. MaxId) /\ MaxId \in Nat
      /\ \A i \in Ids(kv, t) : kv.row[t][i] \in Row
      /\ kv.schema[t] = NoSchema \/ kv.schema[t] \in SUBSET IndexDef
  BY EngineAssumption, ContentsType DEF RowIds
<1> DEFINE rows == kv.row[t]
           S == Ids(kv, t)
<1>2. /\ S \in SUBSET (1 .. MaxId) /\ MaxId \in Nat /\ \A i \in S : rows[i] \in Row
      /\ RowsOf(kv, t) = Picked(rows, S)
  BY <1>1 DEF RowsOf
<1> HIDE DEF rows, S
<1>3. /\ RowsOf(kv, t) \in Seq(Row)
      /\ Len(RowsOf(kv, t)) = Cardinality(S)
      /\ DOMAIN RowsOf(kv, t) = 1 .. Cardinality(S)
  BY <1>2, PickedType
<1>4. TablesOf(kv)[t] = IF kv.schema[t] = NoSchema THEN NoSchema
                        ELSE [rows |-> RowsOf(kv, t), indexes |-> kv.schema[t]]
  BY DEF TablesOf, RowsOf
<1>5. kv.schema[t] # NoSchema =>
          [rows |-> RowsOf(kv, t), indexes |-> kv.schema[t]] # NoSchema
  BY <1>1, <1>3, EngineAssumption
<1>6. kv.schema[t] # NoSchema => /\ TablesOf(kv)[t].rows = RowsOf(kv, t)
                                 /\ TablesOf(kv)[t].indexes = kv.schema[t]
  BY <1>4
<1>7. QED
  BY <1>3, <1>4, <1>5, <1>6 DEF S

(* The rows a WHERE selects and those it does not, by their ids and, for   *)
(* the abstract database, by their places.                                 *)
Picks(kv, t, where) == {i \in Ids(kv, t) : Matches(where, kv.row[t][i])}
Spared(kv, t, where) == {i \in Ids(kv, t) : ~Matches(where, kv.row[t][i])}
Stay(where, rows) == {i \in DOMAIN rows : ~DB!Matches(where, rows[i])}

LEMMA FitsPicked ==
  ASSUME NEW kv \in Contents, NEW t \in Tables, NEW where
  PROVE  /\ DB!Fits(where, RowsOf(kv, t)) = Picked(kv.row[t], Picks(kv, t, where))
         /\ Len(DB!Fits(where, RowsOf(kv, t))) = Cardinality(Picks(kv, t, where))
         /\ DB!Fits(where, RowsOf(kv, t)) # <<>> <=> Picks(kv, t, where) # {}
         /\ DB!Picked(RowsOf(kv, t), Stay(where, RowsOf(kv, t)))
                = Picked(kv.row[t], Spared(kv, t, where))
<1> DEFINE ids == Ids(kv, t)
           old == kv.row[t]
           rows == RowsOf(kv, t)
           n == Cardinality(ids)
           f == InOrder(ids)
           S == {i \in ids : Matches(where, old[i])}
           R == {i \in ids : ~Matches(where, old[i])}
           P == {i \in 1 .. n : Matches(where, old[f[i]])}
           Q == {i \in 1 .. n : ~Matches(where, old[f[i]])}
<1>1. ids \in SUBSET (1 .. MaxId) /\ MaxId \in Nat /\ \A i \in ids : old[i] \in Row
  BY EngineAssumption, ContentsType DEF RowIds
<1>2. rows = Picked(old, ids) /\ DOMAIN rows = 1 .. n
  BY TableOf DEF RowsOf
<1>3. \A i \in 1 .. n : rows[i] = old[f[i]]
  BY <1>2 DEF Picked
<1>4. {i \in DOMAIN rows : Matches(where, rows[i])} = P
      /\ {i \in DOMAIN rows : ~Matches(where, rows[i])} = Q
  BY <1>2, <1>3
<1>5. /\ DB!Fits(where, rows) = Picked(rows, P)
      /\ DB!Picked(rows, Stay(where, rows)) = Picked(rows, Q)
  BY <1>4, SamePicked, SameMatches DEF DB!Fits, Stay
<1>6. Lists(f, n, ids)
  BY <1>1, InOrderLists
<1>7. /\ \A i \in 1 .. n : f[i] \in ids
      /\ \A x \in ids : \E i \in 1 .. n : f[i] = x
  BY <1>6 DEF Lists
<1> HIDE DEF f, n, ids, old, rows
<1>8. {f[i] : i \in P} = S /\ {f[i] : i \in Q} = R
  BY <1>7
<1>9. P \in SUBSET (1 .. n) /\ Q \in SUBSET (1 .. n) /\ S \in SUBSET (1 .. MaxId)
  BY <1>1
<1> HIDE DEF P, Q, S, R
<1>10. Picked(rows, P) = Picked(old, S) /\ Picked(rows, Q) = Picked(old, R)
  <2>1. MaxId \in Nat /\ ids \in SUBSET (1 .. MaxId)
    BY <1>1
  <2>2. /\ \A i \in P : InOrder(ids)[i] \in S
        /\ \A x \in S : \E i \in P : InOrder(ids)[i] = x
        /\ \A i \in Q : InOrder(ids)[i] \in R
        /\ \A x \in R : \E i \in Q : InOrder(ids)[i] = x
    BY <1>8 DEF f
  <2>3. P \in SUBSET (1 .. Cardinality(ids)) /\ Q \in SUBSET (1 .. Cardinality(ids))
    BY <1>9 DEF n
  <2>4. Picked(Picked(old, ids), P) = Picked(old, S)
    BY <2>1, <2>2, <2>3, PickedAtOnce
  <2>5. Picked(Picked(old, ids), Q) = Picked(old, R)
    BY <2>1, <2>2, <2>3, PickedAtOnce
  <2>6. QED
    BY <1>2, <2>4, <2>5, Zenon
<1>11. \A i \in S : old[i] \in Row
  BY <1>1 DEF S
<1>12. /\ Picked(old, S) \in Seq(Row) /\ Len(Picked(old, S)) = Cardinality(S)
       /\ Cardinality(S) \in Nat
  BY <1>1, <1>9, <1>11, PickedType
<1>13. IsFiniteSet(S) /\ (Cardinality(S) = 0 <=> S = {})
  BY <1>1, <1>9, PlacesFinite, FS_EmptySet
<1>14. Picked(old, S) # <<>> <=> S # {}
  BY <1>12, <1>13
<1>15. QED
  <2>1. S = Picks(kv, t, where) /\ R = Spared(kv, t, where)
    BY DEF S, R, old, ids, Picks, Spared
  <2>2. QED
    BY <1>5, <1>10, <1>12, <1>14, <2>1 DEF rows, old

LEMMA SeenContents == EngineInv => Seen \in Contents
  BY DEF EngineInv, Resting, Working, Sound, Seen

----------------------------------------------------------------------------
(* Which statements the abstract database accepts.                         *)

LEMMA NamesSeen == EngineInv => DB!NamesInUse = NamesInUse(Seen)
<1> SUFFICES ASSUME EngineInv PROVE DB!NamesInUse = NamesInUse(Seen)
  OBVIOUS
<1>1. \A t \in Tables :
          /\ TablesOf(Seen)[t] = NoSchema <=> Seen.schema[t] = NoSchema
          /\ Seen.schema[t] # NoSchema => TablesOf(Seen)[t].indexes = Seen.schema[t]
  BY SeenContents, TableOf
<1>2. DB!NamesInUse = UNION {{d.name : d \in TablesOf(Seen)[t].indexes} :
                                t \in {u \in Tables : TablesOf(Seen)[u] # NoSchema}}
  BY DEF DB!NamesInUse, Seen
<1>3. QED
  BY <1>1, <1>2 DEF NamesInUse

LEMMA Accepting ==
  ASSUME EngineInv, NEW s \in Statements
  PROVE  /\ s.kind = "show_tables" => DB!Accepts(s)
         /\ s.kind = "create_table" =>
                (DB!Accepts(s) <=> Seen.schema[s.table] = NoSchema)
         /\ s.kind \in {"describe", "explain", "select", "delete"} =>
                (DB!Accepts(s) <=> Seen.schema[s.table] # NoSchema)
         /\ s.kind = "create_index" =>
                (DB!Accepts(s) <=> /\ Seen.schema[s.table] # NoSchema
                                   /\ WellFormed(s)
                                   /\ s.name \notin NamesInUse(Seen)
                                   /\ s.column \notin Indexed(Seen, s.table))
         /\ s.kind = "insert" =>
                (DB!Accepts(s) <=> /\ Seen.schema[s.table] # NoSchema
                                   /\ WellFormed(s)
                                   /\ \A i \in DOMAIN s.rows :
                                          Coercible(s.columns, s.rows[i]))
         /\ s.kind = "update" =>
                (DB!Accepts(s) <=> /\ Seen.schema[s.table] # NoSchema
                                   /\ WellFormed(s)
                                   /\ Picks(Seen, s.table, s.where) # {} => AssignableAll(s.assignments))
<1> DEFINE T == TablesOf(Seen)[s.table]
<1>1. CASE s.kind = "show_tables"
  BY <1>1 DEF DB!Accepts
<1>2. CASE s.kind # "show_tables"
  <2>1. s.table \in Tables /\ Seen \in Contents
    BY <1>2, StatementsAssumption, SeenContents
  <2>2. /\ T = NoSchema <=> Seen.schema[s.table] = NoSchema
        /\ Seen.schema[s.table] # NoSchema =>
               T.rows = RowsOf(Seen, s.table) /\ T.indexes = Seen.schema[s.table]
    BY <2>1, TableOf
  <2>3. DB!WellFormed(s) = WellFormed(s)
    BY SameWellFormed
  <2>4. T = TablesOf(IF Idle THEN view ELSE before.view)[s.table]
    BY DEF Seen
  <2> HIDE DEF T
  <2>5. CASE s.kind = "create_table"
    BY <2>2, <2>4, <2>5 DEF DB!Accepts
  <2>6. CASE s.kind \in {"describe", "explain", "select", "delete"}
    <3>1. WellFormed(s)
      BY <2>6 DEF WellFormed
    <3>2. QED
      BY <2>2, <2>3, <2>4, <2>6, <3>1 DEF DB!Accepts
  <2>7. CASE s.kind = "create_index"
    <3>1. Seen.schema[s.table] # NoSchema =>
              ((\A d \in T.indexes : d.column # s.column)
                  <=> s.column \notin Indexed(Seen, s.table))
      BY <2>2 DEF Indexed
    <3>2. DB!NamesInUse = NamesInUse(Seen)
      BY NamesSeen
    <3>3. QED
      BY <2>2, <2>3, <2>4, <2>7, <3>1, <3>2 DEF DB!Accepts
  <2>8. CASE s.kind = "insert"
    BY <2>2, <2>3, <2>4, <2>8, SameCoercible DEF DB!Accepts
  <2>9. CASE s.kind = "update"
    <3>1. Seen.schema[s.table] # NoSchema => (DB!Fits(s.where, T.rows) # <<>> <=> Picks(Seen, s.table, s.where) # {})
      BY <2>1, <2>2, FitsPicked
    <3>2. QED
      BY <2>2, <2>3, <2>4, <2>9, <3>1, SameAssignable DEF DB!Accepts
  <2>10. QED
    BY <1>2, <2>5, <2>6, <2>7, <2>8, <2>9
<1>3. QED
  BY <1>1, <1>2

----------------------------------------------------------------------------
(* Every step is one of the abstract database or leaves it as it is.       *)

LEMMA InitRefined == Init => DB!Init
<1> SUFFICES ASSUME Init PROVE DB!Init
  OBVIOUS
<1>1. Idle /\ disk = Empty /\ view = Empty /\ open = FALSE /\ reply = Ok(0)
  BY DEF Init, Idle
<1>2. TablesOf(Empty) = [t \in Tables |-> NoSchema]
  BY DEF TablesOf, Empty
<1>3. QED
  BY <1>1, <1>2 DEF DB!Init, DB!Ok, Ok

(* What the abstract database sees, when a step ends between statements.   *)
LEMMA Mapped ==
  /\ TablesOf(disk)' = TablesOf(disk')
  /\ Idle' => /\ TablesOf(Seen)' = TablesOf(view')
              /\ InTxn' = open'
  /\ ~Idle' => /\ TablesOf(Seen)' = TablesOf(before'.view)
               /\ InTxn' = before'.open
  BY DEF Seen, InTxn

LEMMA TransactionRefined ==
  ASSUME EngineInv, Progress, Begin \/ Commit \/ CommitFails \/ Rollback
  PROVE  DB!Begin \/ DB!Commit \/ DB!Lose(DB!Ok(0)) \/ DB!Lose(DB!StorageError)
<1>1. Idle /\ Idle' /\ open \in BOOLEAN /\ (~open => view = disk)
  BY DEF Begin, Commit, CommitFails, Rollback, Idle, EngineInv, Progress, Seen, InTxn
<1>2. CASE Begin
  BY <1>1, <1>2 DEF Begin, DB!Begin, DB!Ok, Ok, DB!Rejected, Rejected
<1>3. CASE Commit
  BY <1>1, <1>3 DEF Commit, DB!Commit, DB!Ok, Ok, DB!Rejected, Rejected
<1>4. CASE CommitFails
  BY <1>1, <1>4 DEF CommitFails, DB!Lose, DB!StorageError, StorageError
<1>5. CASE Rollback
  <2>1. CASE open
    BY <1>1, <1>5, <2>1 DEF Rollback, DB!Lose, DB!Ok, Ok
  <2>2. CASE ~open
    BY <1>1, <1>5, <2>2 DEF Rollback, DB!Commit, DB!Rejected, Rejected
  <2>3. QED
    BY <2>1, <2>2
<1>6. QED
  BY <1>2, <1>3, <1>4, <1>5

LEMMA SelectRefined ==
  ASSUME EngineInv, NEW s \in Selects, Select(s)
  PROVE  DB!Select(s) \/ DB!Refuse(s)
<1>1. /\ Idle /\ Idle' /\ UNCHANGED <<disk, view, open>> /\ Seen = view
      /\ reply' = IF view.schema[s.table] = NoSchema THEN Rejected ELSE Rows(Selected(s))
  BY DEF Select, Idle, Seen
<1>2. /\ s \in Statements /\ s.kind = "select" /\ s.table \in Tables
      /\ s.where \in Exprs \cup {NoWhere}
  BY StatementsAssumption DEF Selects, OfKind
<1>3. UNCHANGED <<TablesOf(disk), TablesOf(Seen), InTxn>>
  BY <1>1 DEF Seen, InTxn
<1>4. DB!Accepts(s) <=> view.schema[s.table] # NoSchema
  BY <1>1, <1>2, Accepting
<1>5. CASE view.schema[s.table] = NoSchema
  BY <1>1, <1>3, <1>4, <1>5 DEF DB!Refuse, DB!Rejected, Rejected, Seen, InTxn
<1>6. CASE view.schema[s.table] # NoSchema
  <2>1. view \in Contents
    BY <1>1, SeenContents
  <2>2. Selected(s) = Picked(view.row[s.table], Picks(view, s.table, s.where))
    <3> DEFINE scan == scan_rows(Ids(view, s.table), view.idx[s.table],
                                 Indexed(view, s.table), s.where)
    <3>1. /\ scan \subseteq Ids(view, s.table)
          /\ \A i \in Ids(view, s.table) : Matches(s.where, view.row[s.table][i]) => i \in scan
      BY <1>2, ViewScanComplete
    <3>2. {i \in scan : Matches(s.where, view.row[s.table][i])} = Picks(view, s.table, s.where)
      BY <3>1 DEF Picks
    <3>3. QED
      BY <3>2 DEF Selected
  <2>3. DB!Fits(s.where, TablesOf(Seen)[s.table].rows) = Selected(s)
    <3>1. TablesOf(Seen)[s.table].rows = RowsOf(view, s.table)
      BY <1>1, <1>2, <1>6, <2>1, TableOf
    <3>2. DB!Fits(s.where, RowsOf(view, s.table))
              = Picked(view.row[s.table], Picks(view, s.table, s.where))
      BY <1>2, <2>1, FitsPicked
    <3>3. QED
      BY <2>2, <3>1, <3>2
  <2>4. QED
    BY <1>1, <1>2, <1>3, <1>4, <1>6, <2>3
       DEF DB!Select, DB!Rows, Rows, Seen, InTxn
<1>7. QED
  BY <1>5, <1>6

LEMMA ReportRefined ==
  ASSUME EngineInv, NEW s \in Reports, Report(s)
  PROVE  DB!Report(s) \/ DB!Refuse(s)
<1>1. /\ Idle /\ Idle' /\ UNCHANGED <<disk, view, open>> /\ Seen = view
      /\ reply' = Reported(s)
  BY DEF Report, Idle, Seen
<1>2. s \in Statements /\ s.kind \in {"show_tables", "describe", "explain"} /\ s \in DB!Reports
  BY SameReports DEF Reports, OfKind
<1>3. UNCHANGED <<TablesOf(disk), TablesOf(Seen), InTxn>>
  BY <1>1 DEF Seen, InTxn
<1>4. view \in Contents
  BY <1>1, SeenContents
<1>5. CASE s.kind = "show_tables"
  <2>1. {t \in Tables : TablesOf(Seen)[t] # NoSchema} = {t \in Tables : view.schema[t] # NoSchema}
    BY <1>1, <1>4, TableOf
  <2>2. DB!Accepts(s)
    BY <1>2, <1>5, Accepting
  <2>3. QED
    BY <1>1, <1>2, <1>3, <1>5, <2>1, <2>2
       DEF DB!Report, Reported, DB!Listed, Listed, Seen, InTxn
<1>6. CASE s.kind \in {"describe", "explain"}
  <2>1. s.table \in Tables
    BY <1>2, <1>6, StatementsAssumption
  <2>2. DB!Accepts(s) <=> view.schema[s.table] # NoSchema
    BY <1>1, <1>2, <1>6, Accepting
  <2>3. CASE view.schema[s.table] = NoSchema
    BY <1>1, <1>3, <1>6, <2>2, <2>3
       DEF DB!Refuse, Reported, DB!Rejected, Rejected, Seen, InTxn
  <2>4. CASE view.schema[s.table] # NoSchema
    <3>1. TablesOf(Seen)[s.table].indexes = view.schema[s.table]
      BY <1>1, <1>4, <2>1, <2>4, TableOf
    <3>2. /\ s.kind = "describe" =>
                 reply' = DB!Listed(s, DB!exec_describe(TablesOf(Seen)[s.table].indexes))
          /\ s.kind = "explain" =>
                 reply' = DB!Listed(s, DB!exec_explain(s.of, TablesOf(Seen)[s.table].indexes))
      BY <1>1, <1>6, <2>4, <3>1, SameReports DEF Reported, DB!Listed, Listed
    <3>3. QED
      BY <1>2, <1>3, <1>6, <2>2, <2>4, <3>2 DEF DB!Report, Seen, InTxn
  <2>5. QED
    BY <2>3, <2>4
<1>7. QED
  BY <1>2, <1>5, <1>6

LEMMA ReadFailsRefined == ASSUME ReadFails PROVE DB!Fail
  BY DEF ReadFails, Idle, DB!Fail, DB!StorageError, StorageError

(* The statement is under way: nothing of it shows yet.                    *)
LEMMA StartHidden ==
  ASSUME EngineInv, NEW s \in Writes, Start(s)
  PROVE  UNCHANGED DB!vars
<1>1. /\ Idle /\ ~Idle' /\ before' = [open |-> open, view |-> view]
      /\ UNCHANGED <<disk, reply>>
  BY NotIdle DEF Start, Idle
<1>2. before'.view = view /\ before'.open = open
  BY <1>1
<1>3. QED
  BY <1>1, <1>2 DEF DB!vars

LEMMA WorkHidden ==
  ASSUME ~Idle, UNCHANGED <<disk, before, stmt, reply>>
  PROVE  UNCHANGED DB!vars
  BY DEF DB!vars, Idle

(* A statement that is given up leaves what its snapshot had.              *)
LEMMA AbortMapped ==
  ASSUME ~Idle, NEW answer, Abort(answer)
  PROVE  /\ UNCHANGED <<TablesOf(disk), TablesOf(Seen), InTxn>>
         /\ reply' = answer
  BY DEF Abort, Leave, Idle, Seen, InTxn

LEMMA FailRefined == ASSUME Fail PROVE DB!Fail
  BY AbortMapped DEF Fail, DB!Fail, DB!StorageError, StorageError, Seen, InTxn

LEMMA CrashRefined == ASSUME Crash PROVE DB!Restart
  BY DEF Crash, Leave, Idle, DB!Restart

LEMMA FinishFailsRefined == ASSUME EngineInv, Progress, FinishFails PROVE DB!Fail
<1>1. ~Idle
  BY DEF FinishFails, HandlerDone, EngineInv, Resting
<1>2. before.view = disk /\ before.open = FALSE
  BY <1>1 DEF FinishFails, Progress, EngineInv, Working, Snapshot, Seen, InTxn
<1>3. QED
  BY <1>1, <1>2 DEF FinishFails, Leave, Idle, DB!Fail, DB!StorageError, StorageError

LEMMA RefuseMapped ==
  ASSUME EngineInv, ~Idle, Abort(Rejected), ~DB!Accepts(stmt)
  PROVE  DB!Refuse(stmt)
  BY AbortMapped DEF DB!Refuse, DB!Rejected, Rejected, Seen, InTxn

LEMMA RejectRefined == ASSUME EngineInv, Progress, Reject PROVE DB!Refuse(stmt)
<1>1. ~Idle /\ ~planned /\ ~Accepted /\ Abort(Rejected)
  BY DEF Reject
<1>2. Seen = view
  BY <1>1 DEF Progress, Progressing, Seen
<1>3. /\ stmt \in Statements
      /\ stmt.kind \in {"create_table", "create_index", "insert", "update", "delete"}
  BY <1>1 DEF EngineInv, Working, Writes, OfKind
<1>4. stmt.kind = "delete" => WellFormed(stmt)
  BY DEF WellFormed
<1>5. ~DB!Accepts(stmt)
  BY <1>1, <1>2, <1>3, <1>4, Accepting DEF Accepted
<1>6. QED
  BY <1>1, <1>5, RefuseMapped

LEMMA InsertMismatchRefined ==
  ASSUME EngineInv, NEW item \in NextItem("insert"), InsertMismatch(item)
  PROVE  DB!Refuse(stmt)
<1>1. /\ ~Idle /\ stmt.kind = "insert" /\ item.id \in DOMAIN stmt.rows
      /\ stmt \in Statements
  BY Taken DEF Current, EngineInv, Working, Writes, OfKind
<1>2. ~Coercible(stmt.columns, stmt.rows[item.id]) /\ Abort(Rejected)
  BY DEF InsertMismatch
<1>3. ~DB!Accepts(stmt)
  BY <1>1, <1>2, Accepting
<1>4. QED
  BY <1>1, <1>2, <1>3, RefuseMapped

LEMMA UpdateMismatchRefined ==
  ASSUME EngineInv, Progress, NEW item \in NextItem("update"), UpdateMismatch(item)
  PROVE  DB!Refuse(stmt)
<1>1. /\ ~Idle /\ planned /\ stmt.kind = "update" /\ item \in todo /\ Current(item)
      /\ stmt \in Statements
  BY Taken DEF EngineInv, Working, Writes, OfKind
<1>2. /\ Matches(stmt.where, item.row) /\ ~AssignableAll(stmt.assignments)
      /\ Abort(Rejected)
  BY DEF UpdateMismatch
<1>3. item.row = view.row[Table][item.id] /\ item.row # NoRow /\ item.id \in RowIds
  BY <1>1 DEF Current, Ids, Table
<1>4. Updated /\ item.id \notin Changed
  BY <1>1 DEF Progress, Progressing, Changed, Through, Waiting
<1>5. item.row = OldRow(item.id)
  BY <1>3, <1>4 DEF Updated
<1>6. item.id \in Picks(Seen, Table, stmt.where)
  BY <1>1, <1>2, <1>3, <1>5 DEF Picks, Ids, Seen, OldRow, Table
<1>7. ~DB!Accepts(stmt)
  BY <1>1, <1>2, <1>6, Accepting DEF Table
<1>8. QED
  BY <1>1, <1>2, <1>7, RefuseMapped

----------------------------------------------------------------------------
(* The last step of a statement is the whole of it.                        *)

LEMMA FinishMapped ==
  ASSUME EngineInv, Progress, Finish
  PROVE  /\ ~Idle /\ planned /\ todo = {} /\ Elsewhere
         /\ stmt \in Statements /\ Table \in Tables /\ stmt.table = Table
         /\ view \in Contents /\ before.view \in Contents /\ Seen = before.view
         /\ view.schema[Table] # NoSchema /\ WellFormed(stmt)
         /\ Through = Found
         /\ DB!Accepts(stmt) => DB!Apply(stmt, TablesOf(view)[Table], applied)
<1>1. planned /\ todo = {}
  BY DEF Finish, HandlerDone
<1>2. ~Idle
  BY <1>1 DEF EngineInv, Resting
<1>3. /\ stmt \in Statements /\ Table \in Tables
      /\ view \in Contents /\ before.view \in Contents /\ Seen = before.view
      /\ view.schema[Table] # NoSchema /\ WellFormed(stmt)
  BY <1>1, <1>2, WriteInTables
     DEF EngineInv, Working, Sound, Writes, OfKind, Seen, Table
<1>4. Elsewhere
  BY <1>1, <1>2 DEF Progress, Progressing
<1>5. Through = Found
  BY <1>1 DEF Through, Waiting
<1>6. TablesOf(view) = [TablesOf(before.view) EXCEPT ![Table] = TablesOf(view)[Table]]
  BY <1>3, <1>4 DEF TablesOf, Elsewhere, Ids
<1>7. /\ Idle' /\ open' = before.open /\ view' = view /\ reply' = Ok(applied)
      /\ disk' = IF before.open THEN disk ELSE view
  BY DEF Finish, Leave, Idle
<1>8. DB!Accepts(stmt) => DB!Apply(stmt, TablesOf(view)[Table], applied)
  BY <1>2, <1>6, <1>7 DEF DB!Apply, DB!Ok, Ok, Table
<1>9. QED
  BY <1>1, <1>2, <1>3, <1>4, <1>5, <1>8 DEF Table

LEMMA CreateTableRefined ==
  ASSUME EngineInv, Progress, Finish, stmt.kind = "create_table"
  PROVE  DB!CreateTable(stmt)
<1>1. /\ ~Idle /\ planned /\ stmt \in Statements /\ Table \in Tables /\ stmt.table = Table
      /\ view \in Contents /\ Seen = before.view
      /\ view.schema[Table] # NoSchema
      /\ DB!Accepts(stmt) => DB!Apply(stmt, TablesOf(view)[Table], applied)
  BY FinishMapped
<1>2. Created
  BY <1>1 DEF Progress, Progressing
<1>3. DB!Accepts(stmt)
  BY <1>1, <1>2, Accepting DEF Created
<1>4. Ids(view, Table) = {}
  BY <1>1, <1>2 DEF Created, Progress, Rooted, Ids
<1>5. RowsOf(view, Table) = <<>>
  <2>1. /\ RowsOf(view, Table) \in Seq(Row)
        /\ Len(RowsOf(view, Table)) = Cardinality(Ids(view, Table))
    BY <1>1, TableOf
  <2>2. Cardinality(Ids(view, Table)) = 0
    BY <1>4, FS_EmptySet
  <2>3. QED
    BY <2>1, <2>2
<1>6. TablesOf(view)[Table] = [rows |-> <<>>, indexes |-> {}]
  BY <1>1, <1>2, <1>5, TableOf, ZenonT(40) DEF Created
<1>7. QED
  BY <1>1, <1>2, <1>3, <1>6 DEF DB!CreateTable, Created

(* A table with other rows, or with another index.                         *)
LEMMA NewRows ==
  ASSUME NEW T, NEW rows, NEW indexes, NEW other, T = [rows |-> rows, indexes |-> indexes]
  PROVE  [T EXCEPT !.rows = other] = [rows |-> other, indexes |-> indexes]
  OBVIOUS

LEMMA NewIndex ==
  ASSUME NEW T, NEW rows, NEW indexes, NEW other, T = [rows |-> rows, indexes |-> indexes]
  PROVE  [T EXCEPT !.indexes = other] = [rows |-> rows, indexes |-> other]
  OBVIOUS

LEMMA CreateIndexRefined ==
  ASSUME EngineInv, Progress, Finish, stmt.kind = "create_index"
  PROVE  DB!CreateIndex(stmt)
<1> DEFINE def == [name |-> stmt.name, column |-> stmt.column]
           T == TablesOf(before.view)[Table]
<1>1. /\ ~Idle /\ planned /\ stmt \in Statements /\ Table \in Tables /\ stmt.table = Table
      /\ view \in Contents /\ before.view \in Contents /\ Seen = before.view
      /\ view.schema[Table] # NoSchema /\ WellFormed(stmt) /\ Through = Found
      /\ DB!Accepts(stmt) => DB!Apply(stmt, TablesOf(view)[Table], applied)
  BY FinishMapped
<1>2. Indexing
  BY <1>1 DEF Progress, Progressing
<1>3. stmt.column \in Indexed(view, Table)
  BY <1>1 DEF Finish, HandlerDone
<1>4. view.schema[Table] = before.view.schema[Table] \cup {def}
  BY <1>2, <1>3 DEF Indexing, Indexed
<1>5. before.view.schema[Table] # NoSchema
  BY <1>2 DEF Indexing
<1>6. DB!Accepts(stmt)
  BY <1>1, <1>2, <1>5, Accepting DEF Indexing
<1>7. RowsOf(view, Table) = RowsOf(before.view, Table) /\ applied = Cardinality(Ids(before.view, Table))
  BY <1>1, <1>2 DEF Indexing, RowsOf, Ids, Found
<1>8. /\ T.rows = RowsOf(before.view, Table) /\ T.indexes = before.view.schema[Table]
      /\ T = [rows |-> RowsOf(before.view, Table), indexes |-> before.view.schema[Table]]
      /\ Len(T.rows) = applied
  <2>1. /\ T = [rows |-> RowsOf(before.view, Table), indexes |-> before.view.schema[Table]]
        /\ Len(RowsOf(before.view, Table)) = Cardinality(Ids(before.view, Table))
    BY <1>1, <1>5, TableOf
  <2>2. QED
    BY <1>7, <2>1
<1>9. TablesOf(view)[Table] = [rows |-> RowsOf(view, Table), indexes |-> view.schema[Table]]
  BY <1>1, TableOf
<1> HIDE DEF def, T
<1>10. TablesOf(view)[Table] = [T EXCEPT !.indexes = @ \cup {def}]
  <2> DEFINE other == T.indexes \cup {def}
  <2>1. other = view.schema[Table]
    BY <1>4, <1>8
  <2> HIDE DEF other
  <2>2. [T EXCEPT !.indexes = other]
            = [rows |-> RowsOf(before.view, Table), indexes |-> other]
    BY <1>8, NewIndex
  <2>3. QED
    BY <1>7, <1>9, <2>1, <2>2 DEF other
<1>11. DB!Apply(stmt, [T EXCEPT !.indexes = @ \cup {def}], Len(T.rows))
  BY <1>1, <1>6, <1>8, <1>10
<1>12. QED
  BY <1>1, <1>11 DEF DB!CreateIndex, def, T

LEMMA DeleteRefined ==
  ASSUME EngineInv, Progress, Finish, stmt.kind = "delete"
  PROVE  DB!Delete(stmt)
<1> DEFINE T == TablesOf(before.view)[Table]
           stay == Stay(stmt.where, T.rows)
<1>1. /\ ~Idle /\ planned /\ stmt \in Statements /\ Table \in Tables /\ stmt.table = Table
      /\ view \in Contents /\ before.view \in Contents /\ Seen = before.view
      /\ view.schema[Table] # NoSchema /\ Elsewhere /\ Through = Found
      /\ DB!Accepts(stmt) => DB!Apply(stmt, TablesOf(view)[Table], applied)
  BY FinishMapped
<1>2. Deleted
  BY <1>1 DEF Progress, Progressing
<1>3. view.schema[Table] = before.view.schema[Table]
  BY <1>1 DEF Elsewhere
<1>4. DB!Accepts(stmt)
  BY <1>1, <1>3, Accepting
<1>5. Changed = Picks(before.view, Table, stmt.where)
  BY <1>1 DEF Changed, Picks, Found, OldRow
<1>6. Ids(view, Table) = Spared(before.view, Table, stmt.where)
  BY <1>2, <1>5 DEF Deleted, Ids, Picks, Spared, OldRow
<1>7. /\ T.rows = RowsOf(before.view, Table) /\ T.indexes = before.view.schema[Table]
      /\ T = [rows |-> RowsOf(before.view, Table), indexes |-> before.view.schema[Table]]
  <2>1. T = [rows |-> RowsOf(before.view, Table), indexes |-> before.view.schema[Table]]
    BY <1>1, <1>3, TableOf
  <2>2. QED
    BY <2>1
<1>8. /\ Len(DB!Fits(stmt.where, RowsOf(before.view, Table))) = Cardinality(Changed)
      /\ DB!Picked(RowsOf(before.view, Table), Stay(stmt.where, RowsOf(before.view, Table)))
             = Picked(before.view.row[Table], Ids(view, Table))
  BY <1>1, <1>5, <1>6, FitsPicked
<1>9. RowsOf(view, Table) = Picked(before.view.row[Table], Ids(view, Table))
  <2>1. \A i \in Ids(view, Table) : view.row[Table][i] = before.view.row[Table][i]
    BY <1>2 DEF Deleted, Ids, OldRow
  <2>2. Ids(view, Table) \in SUBSET (1 .. MaxId) /\ MaxId \in Nat
    BY EngineAssumption DEF Ids, RowIds
  <2> DEFINE new == view.row[Table]
             old == before.view.row[Table]
             S == Ids(view, Table)
  <2>3. \A i \in S : new[i] = old[i]
    BY <2>1
  <2>4. S \in SUBSET (1 .. MaxId) /\ RowsOf(view, Table) = Picked(new, S)
    BY <2>2 DEF RowsOf
  <2> HIDE DEF new, old, S
  <2>5. Picked(new, S) = Picked(old, S)
    BY <2>2, <2>3, <2>4, PickedAgree
  <2>6. QED
    BY <2>4, <2>5 DEF old, S
<1>10. TablesOf(view)[Table] = [rows |-> RowsOf(view, Table), indexes |-> view.schema[Table]]
  BY <1>1, TableOf
<1>11. /\ DB!Picked(T.rows, stay) = RowsOf(view, Table)
       /\ applied = Len(DB!Fits(stmt.where, T.rows))
  BY <1>2, <1>7, <1>8, <1>9 DEF Deleted
<1> HIDE DEF T, stay
<1>12. TablesOf(view)[Table] = [T EXCEPT !.rows = DB!Picked(@, stay)]
  <2>1. [T EXCEPT !.rows = DB!Picked(T.rows, stay)]
            = [rows |-> DB!Picked(T.rows, stay), indexes |-> before.view.schema[Table]]
    BY <1>7, NewRows
  <2>2. QED
    BY <1>3, <1>10, <1>11, <2>1
<1>13. DB!Apply(stmt, [T EXCEPT !.rows = DB!Picked(@, stay)], Len(DB!Fits(stmt.where, T.rows)))
  BY <1>1, <1>4, <1>11, <1>12
<1>14. QED
  BY <1>1, <1>13 DEF DB!Delete, T, stay, Stay

LEMMA UpdateRefined ==
  ASSUME EngineInv, Progress, Finish, stmt.kind = "update"
  PROVE  DB!Update(stmt)
<1> DEFINE T == TablesOf(before.view)[Table]
           now == view.row[Table]
           old == before.view.row[Table]
           f == InOrder(Found)
           n == Cardinality(Found)
           New(row) == IF DB!Matches(stmt.where, row)
                       THEN DB!UpdatedRow(stmt.assignments, row) ELSE row
<1>1. /\ ~Idle /\ planned /\ stmt \in Statements /\ Table \in Tables /\ stmt.table = Table
      /\ view \in Contents /\ before.view \in Contents /\ Seen = before.view
      /\ view.schema[Table] # NoSchema /\ WellFormed(stmt) /\ Elsewhere /\ Through = Found
      /\ DB!Accepts(stmt) => DB!Apply(stmt, TablesOf(view)[Table], applied)
  BY FinishMapped
<1>2. Updated
  BY <1>1 DEF Progress, Progressing
<1>3. view.schema[Table] = before.view.schema[Table]
  BY <1>1 DEF Elsewhere
<1>4. Changed = Picks(before.view, Table, stmt.where)
  BY <1>1 DEF Changed, Picks, Found, OldRow
<1>5. DB!Accepts(stmt)
  BY <1>1, <1>2, <1>3, <1>4, Accepting DEF Updated
<1>6. /\ T = [rows |-> RowsOf(before.view, Table), indexes |-> before.view.schema[Table]]
      /\ T.rows = RowsOf(before.view, Table)
  <2>1. T = [rows |-> RowsOf(before.view, Table), indexes |-> before.view.schema[Table]]
    BY <1>1, <1>3, TableOf
  <2>2. QED
    BY <2>1
<1>7. applied = Len(DB!Fits(stmt.where, T.rows))
  BY <1>1, <1>2, <1>4, <1>6, FitsPicked DEF Updated
<1>8. /\ \A i \in Found : /\ old[i] \in Row
                          /\ i \in Changed <=> Matches(stmt.where, old[i])
      /\ Found \in SUBSET (1 .. MaxId) /\ MaxId \in Nat
  BY <1>1, FoundTyped DEF Changed, OldRow
<1>9. \A i \in Found : now[i] = New(old[i])
  <2> SUFFICES ASSUME NEW i \in Found PROVE now[i] = New(old[i])
    OBVIOUS
  <2>1. i \in RowIds /\ OldRow(i) = old[i]
    BY DEF Found, Ids, OldRow
  <2>2. CASE i \in Changed
    BY <1>2, <1>8, <2>1, <2>2, SameMatches, SameUpdated DEF Updated
  <2>3. CASE i \notin Changed
    BY <1>2, <1>8, <2>1, <2>3, SameMatches DEF Updated
  <2>4. QED
    BY <2>2, <2>3
<1>10. Ids(view, Table) = Found
  <2>1. \A i \in Changed : UpdatedRow(stmt.assignments, OldRow(i)) # NoRow
    <3> SUFFICES ASSUME NEW i \in Changed
                 PROVE  UpdatedRow(stmt.assignments, OldRow(i)) \in Row
      BY EngineAssumption
    <3>1. OldRow(i) \in Row
      BY <1>8 DEF Changed, Through, OldRow
    <3>2. stmt.assignments \in Seq([column : STRING, value : Value])
      BY <1>1, StatementsAssumption
    <3>3. AssignableAll(stmt.assignments)
      BY <1>2 DEF Updated
    <3>4. QED
      BY <3>1, <3>2, <3>3, UpdatedRowType
  <2>2. Changed \subseteq Found
    BY DEF Changed, Through
  <2>3. QED
    BY <1>2, <2>1, <2>2 DEF Updated, Ids, Found, OldRow
<1>11. RowsOf(view, Table) = [i \in DOMAIN T.rows |-> New(T.rows[i])]
  <2>1. /\ RowsOf(view, Table) = Picked(now, Found)
        /\ T.rows = Picked(old, Found)
    BY <1>6, <1>10 DEF RowsOf, Found
  <2>2. /\ Picked(now, Found) = [i \in 1 .. n |-> now[f[i]]]
        /\ Picked(old, Found) = [i \in 1 .. n |-> old[f[i]]]
    BY DEF Picked
  <2>3. \A i \in 1 .. n : f[i] \in Found
    <3>1. Lists(f, n, Found)
      BY <1>8, InOrderLists
    <3>2. QED
      BY <3>1 DEF Lists
  <2> HIDE DEF f, n, now, old, New, T
  <2>4. \A i \in 1 .. n : now[f[i]] = New(old[f[i]])
    BY <1>9, <2>3
  <2>5. QED
    BY <2>1, <2>2, <2>4
<1>12. TablesOf(view)[Table] = [rows |-> RowsOf(view, Table), indexes |-> view.schema[Table]]
  BY <1>1, TableOf
<1> HIDE DEF T, New
<1>13. TablesOf(view)[Table] = [T EXCEPT !.rows = [i \in DOMAIN @ |-> New(@[i])]]
  <2> DEFINE other == [i \in DOMAIN T.rows |-> New(T.rows[i])]
  <2> HIDE DEF other
  <2>1. [T EXCEPT !.rows = other] = [rows |-> other, indexes |-> before.view.schema[Table]]
    BY <1>6, NewRows
  <2>2. QED
    BY <1>3, <1>11, <1>12, <2>1 DEF other
<1>14. DB!Apply(stmt, [T EXCEPT !.rows = [i \in DOMAIN @ |-> New(@[i])]],
                Len(DB!Fits(stmt.where, T.rows)))
  BY <1>1, <1>5, <1>7, <1>13
<1>15. QED
  BY <1>1, <1>14 DEF DB!Update, T, New

LEMMA InsertRefined ==
  ASSUME EngineInv, Progress, Finish, stmt.kind = "insert"
  PROVE  DB!Insert(stmt)
<1> DEFINE T == TablesOf(before.view)[Table]
           k == applied
           now == view.row[Table]
           old == before.view.row[Table]
           Given1(i) == InsertedRow(stmt.columns, stmt.rows[i])
           added == [i \in DOMAIN stmt.rows |-> DB!InsertedRow(stmt.columns, stmt.rows[i])]
<1>1. /\ ~Idle /\ planned /\ todo = {} /\ stmt \in Statements
      /\ Table \in Tables /\ stmt.table = Table
      /\ view \in Contents /\ before.view \in Contents /\ Seen = before.view
      /\ view.schema[Table] # NoSchema /\ WellFormed(stmt) /\ Elsewhere
      /\ DB!Accepts(stmt) => DB!Apply(stmt, TablesOf(view)[Table], applied)
  BY FinishMapped
<1>2. Inserted
  BY <1>1 DEF Progress, Progressing
<1>3. view.schema[Table] = before.view.schema[Table]
  BY <1>1 DEF Elsewhere
<1>4. /\ stmt.columns \in Seq(STRING) /\ stmt.rows \in Seq(Seq(Value))
      /\ DOMAIN stmt.rows = 1 .. Len(stmt.rows) /\ Len(stmt.rows) \in Nat
  <2>1. stmt.columns \in Seq(STRING) /\ stmt.rows \in Seq(Seq(Value))
    BY <1>1, InsertTyped
  <2> DEFINE rows == stmt.rows
  <2>2. rows \in Seq(Seq(Value))
    BY <2>1
  <2> HIDE DEF rows
  <2>3. DOMAIN rows = 1 .. Len(rows) /\ Len(rows) \in Nat
    BY <2>2
  <2>4. QED
    BY <2>1, <2>3 DEF rows
<1>5. k = Len(stmt.rows) /\ k \in Nat
  <2>1. k \in Nat /\ k <= Len(stmt.rows)
    BY <1>2 DEF Inserted, EngineInv
  <2>2. ASSUME k < Len(stmt.rows) PROVE FALSE
    <3>1. k + 1 \in (k + 1) .. Len(stmt.rows)
      BY <1>4, <2>1, <2>2
    <3>2. QED
      BY <1>1, <1>2, <3>1 DEF Inserted
  <2>3. QED
    BY <1>4, <2>1, <2>2
<1>6. \A i \in 1 .. k : Given1(i) \in Row
  <2> SUFFICES ASSUME NEW i \in 1 .. k PROVE Given1(i) \in Row
    OBVIOUS
  <2>1. i \in DOMAIN stmt.rows /\ Coercible(stmt.columns, stmt.rows[i])
    BY <1>2, <1>4, <1>5 DEF Inserted
  <2>2. /\ Len(stmt.rows[i]) = Len(stmt.columns)
        /\ \A c \in DOMAIN stmt.columns : stmt.columns[c] \in Columns
    BY <1>1, <2>1 DEF WellFormed
  <2>3. stmt.rows[i] \in Seq(Value)
    BY <1>4, <2>1, ElementType
  <2>4. QED
    BY <1>4, <2>1, <2>2, <2>3, InsertedRowType
<1>7. /\ Found \in SUBSET (1 .. MaxId) /\ MaxId \in Nat
      /\ \A i \in Found : old[i] \in Row
      /\ FirstId \in Nat /\ \A i \in Found : i < FirstId
  BY <1>1, FoundTyped DEF OldRow
<1> DEFINE first == IF k = 0 THEN MaxId + 1 ELSE FirstId
<1>8. /\ first \in Nat /\ first >= 1 /\ \A i \in Found : i < first
      /\ \A i \in first .. (first + k - 1) : i \in RowIds
      /\ first .. (first + k - 1) = FirstId .. (FirstId + k - 1)
      /\ k # 0 => first = FirstId
  <2>1. CASE k = 0
    BY <1>7, <2>1
  <2>2. CASE k # 0
    <3>1. FirstId \in 1 .. MaxId /\ FirstId + k - 1 \in 1 .. MaxId
      BY <1>2, <2>2 DEF Inserted, RowIds
    <3>2. QED
      BY <1>5, <1>7, <2>2, <3>1 DEF RowIds
  <2>3. QED
    BY <2>1, <2>2
<1> HIDE DEF first, k
<1>9. \A i \in RowIds : now[i] = IF i \in FirstId .. (FirstId + k - 1)
                                 THEN Given1(i - FirstId + 1) ELSE old[i]
  BY <1>2 DEF Inserted, OldRow, k
<1>10. \A i \in 1 .. k : /\ first + i - 1 \in first .. (first + k - 1)
                         /\ now[first + i - 1] = Given1(i)
  <2> SUFFICES ASSUME NEW i \in 1 .. k
               PROVE  /\ first + i - 1 \in first .. (first + k - 1)
                      /\ now[first + i - 1] = Given1(i)
    OBVIOUS
  <2>1. first = FirstId
    BY <1>5, <1>8
  <2>2. first + i - 1 \in first .. (first + k - 1) /\ (first + i - 1) - FirstId + 1 = i
    BY <1>5, <1>7, <2>1
  <2> HIDE DEF Given1, now, old
  <2>3. QED
    BY <1>8, <1>9, <2>2
<1>11. Ids(view, Table) = Found \cup first .. (first + k - 1)
  <2>1. ASSUME NEW i \in RowIds
        PROVE  i \in Ids(view, Table) <=> i \in Found \cup first .. (first + k - 1)
    <3>1. CASE i \in first .. (first + k - 1)
      <4>1. i - first + 1 \in 1 .. k /\ first + (i - first + 1) - 1 = i
        BY <1>5, <1>8, <3>1
      <4>2. now[i] \in Row
        BY <1>6, <1>10, <4>1
      <4>3. QED
        BY <3>1, <4>2, EngineAssumption DEF Ids
    <3>2. CASE i \notin first .. (first + k - 1)
      BY <1>8, <1>9, <3>2 DEF Ids, Found
    <3>3. QED
      BY <3>1, <3>2
  <2>2. QED
    BY <1>8, <2>1 DEF Ids, Found
<1> DEFINE all == Found \cup first .. (first + k - 1)
<1>12. Picked(now, all) = Picked(now, Found) \o Stretch(now, first, k)
  <2>1. Beyond(MaxId, Found, first) /\ k \in Nat
    BY <1>5, <1>7, <1>8 DEF Beyond
  <2> HIDE DEF now
  <2>2. Picked(now, Extended(Found, first, k)) = Picked(now, Found) \o Stretch(now, first, k)
    BY <2>1, PickedAbove
  <2>3. QED
    BY <2>2 DEF Extended
<1>13. Picked(now, Found) = Picked(old, Found)
  <2>1. \A i \in Found : now[i] = old[i]
    BY <1>7, <1>9 DEF Found, Ids
  <2> HIDE DEF now, old
  <2>2. QED
    BY <1>7, <2>1, PickedAgree
<1>14. Stretch(now, first, k) = added
  <2>1. \A i \in 1 .. k : now[first + i - 1] = DB!InsertedRow(stmt.columns, stmt.rows[i])
    BY <1>10, SameInserted
  <2>2. DOMAIN stmt.rows = 1 .. k
    BY <1>4, <1>5
  <2> HIDE DEF now
  <2>3. QED
    BY <2>1, <2>2 DEF Stretch
<1>15. /\ T = [rows |-> RowsOf(before.view, Table), indexes |-> before.view.schema[Table]]
       /\ T.rows = RowsOf(before.view, Table)
  <2>1. T = [rows |-> RowsOf(before.view, Table), indexes |-> before.view.schema[Table]]
    BY <1>1, <1>3, TableOf
  <2>2. QED
    BY <2>1
<1>16. RowsOf(view, Table) = T.rows \o added
  BY <1>11, <1>12, <1>13, <1>14, <1>15 DEF RowsOf, Found
<1>17. TablesOf(view)[Table] = [rows |-> RowsOf(view, Table), indexes |-> view.schema[Table]]
  BY <1>1, TableOf
<1>18. DB!Accepts(stmt)
  <2>1. \A i \in DOMAIN stmt.rows : Coercible(stmt.columns, stmt.rows[i])
    BY <1>2, <1>4, <1>5 DEF Inserted, k
  <2>2. QED
    BY <1>1, <1>3, <2>1, Accepting
<1>19. Len(added) = applied
  BY <1>4, <1>5 DEF k
<1> HIDE DEF T, added
<1>20. TablesOf(view)[Table] = [T EXCEPT !.rows = @ \o added]
  <2> DEFINE other == T.rows \o added
  <2> HIDE DEF other
  <2>1. [T EXCEPT !.rows = other] = [rows |-> other, indexes |-> before.view.schema[Table]]
    BY <1>15, NewRows
  <2>2. QED
    BY <1>3, <1>16, <1>17, <2>1 DEF other
<1>21. DB!Apply(stmt, [T EXCEPT !.rows = @ \o added], Len(added))
  BY <1>1, <1>18, <1>19, <1>20
<1>22. QED
  BY <1>1, <1>21 DEF DB!Insert, T, added

LEMMA FinishRefined ==
  ASSUME EngineInv, Progress, Finish
  PROVE  /\ stmt \in Statements
         /\ \/ DB!CreateTable(stmt) \/ DB!CreateIndex(stmt) \/ DB!Insert(stmt)
            \/ DB!Update(stmt) \/ DB!Delete(stmt)
<1>1. ~Idle /\ stmt \in Statements
  BY FinishMapped
<1>2. stmt.kind \in {"create_table", "create_index", "insert", "update", "delete"}
  BY <1>1, WriteInTables
<1>3. QED
  BY <1>1, <1>2, CreateTableRefined, CreateIndexRefined, InsertRefined, UpdateRefined,
     DeleteRefined

----------------------------------------------------------------------------

LEMMA StepRefined ==
  EngineInv /\ Progress /\ [Next]_vars => [DB!Next]_(DB!vars)
<1> SUFFICES ASSUME EngineInv, Progress, [Next]_vars PROVE [DB!Next]_(DB!vars)
  OBVIOUS
<1>1. CASE UNCHANGED vars
  BY <1>1 DEF vars, DB!vars, Idle
<1>2. CASE Begin \/ Commit \/ CommitFails \/ Rollback
  BY <1>2, TransactionRefined DEF DB!Next
<1>3. ASSUME NEW s \in Selects, Select(s) PROVE DB!Next
  BY <1>3, SelectRefined DEF DB!Next, Selects, OfKind
<1>4. ASSUME NEW s \in Reports, Report(s) PROVE DB!Next
  BY <1>4, ReportRefined DEF DB!Next, Reports, OfKind
<1>5. CASE ReadFails \/ Fail \/ FinishFails
  BY <1>5, ReadFailsRefined, FailRefined, FinishFailsRefined DEF DB!Next
<1>6. ASSUME NEW s \in Writes, Start(s) PROVE UNCHANGED DB!vars
  BY <1>6, StartHidden
<1>7. CASE Crash
  BY <1>7, CrashRefined DEF DB!Next
<1>8. ASSUME ~Idle PROVE stmt \in Statements
  BY <1>8 DEF EngineInv, Working, Writes, OfKind
<1>9. CASE Reject
  BY <1>8, <1>9, RejectRefined DEF Reject, DB!Next
<1>10. CASE Finish
  BY <1>10, FinishRefined DEF DB!Next
<1>11. CASE Plan \/ CreateTable \/ SaveSchema
  <2>1. ~Idle
    BY <1>11 DEF Plan, CreateTable, SaveSchema, EngineInv, Resting
  <2>2. QED
    BY <1>11, <2>1, WorkHidden DEF Plan, CreateTable, SaveSchema
<1>12. ASSUME NEW item \in NextItem("insert"), InsertRow(item) \/ InsertMismatch(item)
       PROVE  DB!Next \/ UNCHANGED DB!vars
  <2>1. ~Idle
    BY Taken
  <2>2. CASE InsertMismatch(item)
    BY <1>8, <2>1, <2>2, InsertMismatchRefined DEF DB!Next
  <2>3. CASE InsertRow(item)
    BY <2>1, <2>3, WorkHidden DEF InsertRow, Processed
  <2>4. QED
    BY <1>12, <2>2, <2>3
<1>13. ASSUME NEW item \in NextItem("update"),
              UpdateRow(item) \/ UpdateMismatch(item) \/ SkipRow(item)
       PROVE  DB!Next \/ UNCHANGED DB!vars
  <2>1. ~Idle
    BY Taken
  <2>2. CASE UpdateMismatch(item)
    BY <1>8, <2>1, <2>2, UpdateMismatchRefined DEF DB!Next
  <2>3. CASE UpdateRow(item) \/ SkipRow(item)
    BY <2>1, <2>3, WorkHidden DEF UpdateRow, SkipRow, Processed
  <2>4. QED
    BY <1>13, <2>2, <2>3
<1>14. ASSUME NEW item \in NextItem("delete"), DeleteRow(item) \/ SkipRow(item)
       PROVE  UNCHANGED DB!vars
  <2>1. ~Idle
    BY Taken
  <2>2. QED
    BY <1>14, <2>1, WorkHidden DEF DeleteRow, SkipRow, Processed
<1>15. ASSUME NEW item \in NextItem("create_index"), BackfillRow(item)
       PROVE  UNCHANGED DB!vars
  <2>1. ~Idle
    BY Taken
  <2>2. QED
    BY <1>15, <2>1, WorkHidden DEF BackfillRow, Processed
<1>16. CASE Work
  BY <1>9, <1>10, <1>11, <1>12, <1>13, <1>14, <1>15, <1>16 DEF Work
<1>17. QED
  BY <1>1, <1>2, <1>3, <1>4, <1>5, <1>6, <1>7, <1>16 DEF Next

(* The write path is the abstract database: whichever write, commit or     *)
(* process fails, a statement shows either whole, with the count it        *)
(* reports, or not at all, row by row in insertion order, and no index,    *)
(* row id, plan or half-done statement can be told from outside.           *)
THEOREM Implements == Spec => RefinesSQLDatabase
<1>1. Init => DB!Init
  BY InitRefined
<1>2. EngineInv /\ Progress /\ [Next]_vars => [DB!Next]_(DB!vars)
  BY StepRefined
<1>3. QED
  BY <1>1, <1>2, ProgressInvariant, PTL DEF Spec, RefinesSQLDatabase, DB!Spec

=============================================================================
