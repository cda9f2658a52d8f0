------------------------------ MODULE Storage ------------------------------
(***************************************************************************)
(* src/snail_core/src/storage/mod.rs: a redb table with a write buffer in  *)
(* front of it.  While a transaction is open, writes go to the buffer and  *)
(* reads see the buffer laid over the table; commit applies the buffer in  *)
(* one redb write transaction.  Any access to redb may fail.               *)
(*                                                                         *)
(* A range scan and a prefix scan both cover a set of keys: Ranges.  The   *)
(* snapshot the caller holds (execute_atomically's `before') is part of    *)
(* the state, since what restore does depends on it.                       *)
(***************************************************************************)
EXTENDS FiniteSets

CONSTANTS Keys, Values, Absent, Ranges, None,
          Untouched, \* the buffer has no entry for a key
          NoTxn      \* no transaction is open: the buffer is Rust's None

ASSUME StorageAssumption ==
    /\ Absent \notin Values
    /\ Untouched \notin Values \cup {Absent}
    /\ Ranges \subseteq SUBSET Keys

VARIABLES db,   \* the redb table
          txn,  \* Mutex<Option<TxnBuffer>>; an entry Absent is a tombstone
          snap, \* None, or what snapshot() returned to the running statement
          ret   \* reply of the last call

vars == <<db, txn, snap, ret>>

Tables  == [Keys -> Values \cup {Absent}]
Buffers == [Keys -> Values \cup {Absent, Untouched}]

ASSUME SentinelAssumption ==
    /\ NoTxn \notin Buffers
    /\ None \notin Buffers \cup {NoTxn} \cup [open : BOOLEAN, working : Tables]

in_transaction == txn # NoTxn

EmptyBuffer == [k \in Keys |-> Untouched]

(* Mutant: a key the buffer does not have is not looked up in the table.   *)
Overlay_bufferOnly(b, k) == IF b = NoTxn THEN db[k] ELSE b[k]

(* What the buffer b lays over the table: its entry decides, a tombstone   *)
(* hides the table's value.                                                *)
Overlay(b, k) == IF b = NoTxn \/ b[k] = Untouched THEN db[k] ELSE b[k]

View(b) == [k \in Keys |-> Overlay(b, k)]

(* Mutant: the tombstones do not hide entries of the table.                *)
Scanned_tombstonesIgnored(R) ==
    LET inserted == IF txn = NoTxn THEN {}
                    ELSE {k \in R : txn[k] \notin {Untouched, Absent}}
    IN  {<<k, db[k]>> : k \in {j \in R \ inserted : db[j] # Absent}}
        \cup {<<k, txn[k]>> : k \in inserted}

(* Entries a scan returns: the table's, then each buffer entry in range    *)
(* inserted over them or, for a tombstone, removed from them.              *)
Scanned(R) ==
    LET fromDb   == {<<k, db[k]>> : k \in {j \in R : db[j] # Absent}}
        touched  == IF txn = NoTxn THEN {} ELSE {k \in R : txn[k] # Untouched}
        inserted == {<<k, txn[k]>> : k \in {j \in touched : txn[j] # Absent}}
    IN  {e \in fromDb : e[1] \notin touched} \cup inserted

Done        == <<"done">>
Error       == <<"error">>
Bool(b)     == <<"bool", b>>

TypeOK == /\ db \in Tables
          /\ txn \in Buffers \cup {NoTxn}
          /\ snap \in Buffers \cup {NoTxn, None}

Init == /\ db = [k \in Keys |-> Absent]
        /\ txn = NoTxn
        /\ snap = None
        /\ ret = Done

----------------------------------------------------------------------------
(* Transactions.  The guards on snap are execute_atomically's use of the   *)
(* interface: BEGIN, COMMIT and ROLLBACK come between statements, and an   *)
(* implicit transaction begins and commits within one.                     *)

Implicit == snap = NoTxn

begin == /\ snap = None \/ (Implicit /\ ~in_transaction)
         /\ txn' = IF in_transaction THEN txn ELSE EmptyBuffer
         /\ ret' = Bool(~in_transaction)
         /\ UNCHANGED <<db, snap>>

(* The buffer is taken first.  With nothing pending redb is not touched.   *)
commit == /\ snap = None \/ (Implicit /\ in_transaction)
          /\ db' = View(txn)
          /\ txn' = NoTxn
          /\ snap' = None
          /\ ret' = Bool(in_transaction)

commit_fails == /\ in_transaction /\ txn # EmptyBuffer
                /\ snap = None \/ Implicit
                /\ txn' = NoTxn
                /\ snap' = None
                /\ ret' = Error
                /\ UNCHANGED db

rollback == /\ snap = None
            /\ txn' = NoTxn
            /\ ret' = Bool(in_transaction)
            /\ UNCHANGED <<db, snap>>

snapshot == /\ snap = None
            /\ snap' = txn
            /\ ret' = Done
            /\ UNCHANGED <<db, txn>>

restore == /\ snap # None
           /\ txn' = snap
           /\ snap' = None
           /\ ret' = Done
           /\ UNCHANGED db

(* A statement of an explicit transaction succeeds: its snapshot is        *)
(* dropped.                                                                *)
forget == /\ snap \in Buffers
          /\ snap' = None
          /\ UNCHANGED <<db, txn, ret>>

(* The process dies and open() finds the table as the last commit left it. *)
reopen == /\ txn' = NoTxn
          /\ snap' = None
          /\ ret' = Done
          /\ UNCHANGED db

----------------------------------------------------------------------------
(* Reads.                                                                  *)

get(k) == /\ ret' = <<"value", Overlay(txn, k)>>
          /\ UNCHANGED <<db, txn, snap>>

scan(R) == /\ ret' = <<"rows", Scanned(R)>>
           /\ UNCHANGED <<db, txn, snap>>

(* A get answered by the buffer never reaches redb and cannot fail.        *)
get_fails(k) == /\ in_transaction => txn[k] = Untouched
                /\ ret' = Error
                /\ UNCHANGED <<db, txn, snap>>

scan_fails(R) == /\ ret' = Error
                 /\ UNCHANGED <<db, txn, snap>>

----------------------------------------------------------------------------
(* Writes.  Outside a transaction each is a redb write transaction.        *)

(* Mutant: a statement begins no implicit transaction.                     *)
MayWrite_withoutBegin == TRUE

MayWrite == snap = None \/ in_transaction

(* Mutant: the write goes through to the table inside a transaction too.   *)
put_through(k, v) == /\ MayWrite
                     /\ txn' = IF in_transaction THEN [txn EXCEPT ![k] = v] ELSE txn
                     /\ db' = [db EXCEPT ![k] = v]
                     /\ ret' = Done
                     /\ UNCHANGED snap

put(k, v) == /\ MayWrite
             /\ IF in_transaction
                THEN txn' = [txn EXCEPT ![k] = v] /\ UNCHANGED db
                ELSE db' = [db EXCEPT ![k] = v] /\ UNCHANGED txn
             /\ ret' = Done
             /\ UNCHANGED snap

delete(k) ==
    LET known == in_transaction /\ txn[k] # Untouched
    IN  /\ MayWrite
        /\ IF in_transaction
           THEN txn' = [txn EXCEPT ![k] = Absent] /\ UNCHANGED db
           ELSE db' = [db EXCEPT ![k] = Absent] /\ UNCHANGED txn
        /\ ret' = Bool(IF known THEN txn[k] # Absent ELSE db[k] # Absent)
        /\ UNCHANGED snap

(* Inside a transaction the tombstone is in the buffer before redb is      *)
(* asked whether the key existed, and stays when that read fails.          *)
delete_fails(k) == /\ MayWrite
                   /\ in_transaction => txn[k] = Untouched
                   /\ txn' = IF in_transaction THEN [txn EXCEPT ![k] = Absent]
                                               ELSE txn
                   /\ ret' = Error
                   /\ UNCHANGED <<db, snap>>

(* One scan, then a tombstone or a removal for every key it returned.      *)
delete_prefix(R) ==
    LET found == {e[1] : e \in Scanned(R)}
        Without(c) == [k \in Keys |-> IF k \in found THEN Absent ELSE c[k]]
    IN  /\ MayWrite
        /\ IF in_transaction
           THEN txn' = Without(txn) /\ UNCHANGED db
           ELSE db' = Without(db) /\ UNCHANGED txn
        /\ ret' = <<"count", Cardinality(Scanned(R))>>
        /\ UNCHANGED snap

(* A write outside a transaction, or the scan of a delete_prefix, that     *)
(* redb refuses changes nothing.                                           *)
write_fails == /\ MayWrite
               /\ ret' = Error
               /\ UNCHANGED <<db, txn, snap>>

Next == \/ begin \/ commit \/ commit_fails \/ rollback
        \/ snapshot \/ restore \/ forget \/ reopen
        \/ \E k \in Keys : get(k) \/ get_fails(k) \/ delete(k) \/ delete_fails(k)
        \/ \E k \in Keys, v \in Values : put(k, v)
        \/ \E R \in Ranges : scan(R) \/ scan_fails(R) \/ delete_prefix(R)
        \/ write_fails

Spec == Init /\ [][Next]_vars

----------------------------------------------------------------------------
(* Properties.                                                             *)

(* Storage implements KVStore: what a caller is told and what a restart    *)
(* finds are those of a plain dictionary; the buffer, its tombstones and   *)
(* the order of its steps never show.                                      *)
Mapped(b) == [open |-> b # NoTxn, working |-> View(b)]

KV == INSTANCE KVStore WITH
        durable <- db,
        working <- View(txn),
        open    <- in_transaction,
        saved   <- IF snap = None THEN None ELSE Mapped(snap)

RefinesKVStore == KV!Spec

(* While a transaction is open the table on disk changes only when the     *)
(* transaction ends, and then to exactly the contents its reads showed     *)
(* (storage/mod.rs:31, "commit applies it in one atomic redb write         *)
(* transaction").                                                          *)
DiskChangesOnlyByCommit ==
    [][in_transaction /\ db' # db => ~in_transaction' /\ db' = View(txn)]_vars

(* A failed statement leaves no trace: restoring the snapshot, whatever    *)
(* was put, deleted or half deleted since, brings back the contents the    *)
(* snapshot was taken of (execute_atomically's contract,                   *)
(* executor/mod.rs:98-102).  The snapshot is the buffer alone, so the      *)
(* table under it must not move either while a statement holds one.        *)
SnapshotStable ==
    [][snap # None /\ snap' # None => snap' = snap /\ View(snap)' = View(snap)]_vars
=============================================================================
