--------------------------- MODULE StorageProofs ---------------------------
(***************************************************************************)
(* Proofs about module Storage, for every set of keys, values and ranges:  *)
(* it implements KVStore, disk changes only by a commit, and a statement's *)
(* snapshot keeps showing what it showed when it was taken.                *)
(***************************************************************************)
EXTENDS Storage, TLAPS

USE DEF in_transaction, Implicit, MayWrite

(* The buffer laid over the table is again a table.                        *)
LEMMA ViewType == ASSUME TypeOK, NEW b \in Buffers \cup {NoTxn}
                  PROVE  View(b) \in Tables
  BY DEF TypeOK, View, Overlay, Tables, Buffers

(* Every variable keeps its type.                                          *)
LEMMA TypeStep == TypeOK /\ [Next]_vars => TypeOK'
<1> SUFFICES ASSUME TypeOK, [Next]_vars PROVE TypeOK'
  OBVIOUS
<1> USE DEF TypeOK, Tables, Buffers
<1>1. CASE begin
  BY <1>1 DEF begin, EmptyBuffer
<1>2. CASE commit
  BY <1>2, ViewType DEF commit
<1>3. CASE commit_fails \/ rollback \/ snapshot \/ restore \/ forget \/ reopen
  BY <1>3 DEF commit_fails, rollback, snapshot, restore, forget, reopen
<1>4. ASSUME NEW k \in Keys, get(k) \/ get_fails(k) PROVE TypeOK'
  BY <1>4 DEF get, get_fails
<1>5. ASSUME NEW k \in Keys, delete(k) \/ delete_fails(k) PROVE TypeOK'
  BY <1>5 DEF delete, delete_fails
<1>6. ASSUME NEW k \in Keys, NEW v \in Values, put(k, v) PROVE TypeOK'
  BY <1>6 DEF put
<1>7. ASSUME NEW R \in Ranges, scan(R) \/ scan_fails(R) PROVE TypeOK'
  BY <1>7 DEF scan, scan_fails
<1>8. ASSUME NEW R \in Ranges, delete_prefix(R) PROVE TypeOK'
  <2> DEFINE found == {e[1] : e \in Scanned(R)}
             Without(c) == [k \in Keys |-> IF k \in found THEN Absent ELSE c[k]]
  <2>1. \A c \in Tables : Without(c) \in Tables
    OBVIOUS
  <2>2. \A c \in Buffers : Without(c) \in Buffers
    OBVIOUS
  <2> HIDE DEF Without
  <2>3. QED BY <1>8, <2>1, <2>2 DEF delete_prefix, Without
<1>9. CASE write_fails \/ UNCHANGED vars
  BY <1>9 DEF write_fails, vars
<1>10. QED
  BY <1>1, <1>2, <1>3, <1>4, <1>5, <1>6, <1>7, <1>8, <1>9 DEF Next

(* The table, the buffer and the held snapshot always have their types:    *)
(* in particular no tombstone or missing entry ever reaches the table as   *)
(* a value (TxnBuffer, storage/mod.rs:26).                                 *)
THEOREM TypeCorrect == Spec => []TypeOK
<1>1. Init => TypeOK
  BY DEF Init, TypeOK, Tables
<1>2. QED
  BY <1>1, TypeStep, PTL DEF Spec

----------------------------------------------------------------------------
(* A scan returns exactly the entries that get would return one by one     *)
(* (scan_prefix and scan_range against get, storage/mod.rs:113-210).       *)
THEOREM ScanAgreesWithGet ==
  ASSUME TypeOK, NEW R \in SUBSET Keys
  PROVE  Scanned(R) = KV!Entries(View(txn), R)
<1>1. CASE txn = NoTxn
  <2>1. \A k \in R : View(txn)[k] = db[k]
    BY <1>1 DEF View, Overlay
  <2>2. QED
    BY <1>1, <2>1 DEF Scanned, KV!Entries
<1>2. CASE txn # NoTxn
  <2> DEFINE touched == {k \in R : txn[k] # Untouched}
             fromDb == {<<k, db[k]>> : k \in {j \in R : db[j] # Absent}}
             inserted == {<<k, txn[k]>> : k \in {j \in touched : txn[j] # Absent}}
             shown == {<<k, View(txn)[k]>> :
                          k \in {j \in R : View(txn)[j] # Absent}}
  <2>1. Scanned(R) = {e \in fromDb : e[1] \notin touched} \cup inserted
    BY <1>2 DEF Scanned
  <2>2. \A k \in touched : View(txn)[k] = txn[k]
    BY <1>2 DEF View, Overlay
  <2>3. \A k \in R \ touched : View(txn)[k] = db[k]
    BY <1>2 DEF View, Overlay
  <2>4. ASSUME NEW e \in fromDb, e[1] \notin touched PROVE e \in shown
    BY <2>3, <2>4
  <2>5. ASSUME NEW e \in inserted PROVE e \in shown
    BY <2>2, <2>5
  <2>6. ASSUME NEW e \in shown
        PROVE  e \in {d \in fromDb : d[1] \notin touched} \cup inserted
    <3>1. PICK k \in R : View(txn)[k] # Absent /\ e = <<k, View(txn)[k]>>
      BY <2>6
    <3>2. CASE k \in touched
      BY <2>2, <3>1, <3>2
    <3>3. CASE k \notin touched
      BY <2>3, <3>1, <3>3
    <3>4. QED BY <3>2, <3>3
  <2>7. Scanned(R) = shown
    <3> HIDE DEF touched, fromDb, inserted, shown
    <3>1. QED BY <2>1, <2>4, <2>5, <2>6
  <2>8. QED
    BY <2>7 DEF KV!Entries
<1>3. QED
  BY <1>1, <1>2
----------------------------------------------------------------------------
(* Which steps touch the table, and which touch a held snapshot: the two   *)
(* facts the action properties rest on.                                    *)
LEMMA WhatChangesDisk ==
  [Next]_vars /\ in_transaction /\ db' # db => commit
<1> SUFFICES ASSUME [Next]_vars, in_transaction, db' # db PROVE commit
  OBVIOUS
<1> QED
  BY DEF Next, vars, begin, commit_fails, rollback, snapshot, restore, forget,
         reopen, get, get_fails, scan, scan_fails, put, delete, delete_fails,
         delete_prefix, write_fails

LEMMA StatementKeepsDisk ==
  [Next]_vars /\ snap # None /\ snap' # None => snap' = snap /\ db' = db
<1> SUFFICES ASSUME [Next]_vars, snap # None, snap' # None
             PROVE  snap' = snap /\ db' = db
  OBVIOUS
<1> QED
  BY DEF Next, vars, begin, commit, commit_fails, rollback, snapshot, restore,
         forget, reopen, get, get_fails, scan, scan_fails, put, delete,
         delete_fails, delete_prefix, write_fails

(* While a transaction is open, only its commit writes to disk, and it     *)
(* writes what the transaction's reads showed (commit, storage/mod.rs:71). *)
THEOREM DurableOnlyByCommit == Spec => DiskChangesOnlyByCommit
<1>1. [Next]_vars
        => (in_transaction /\ db' # db => ~in_transaction' /\ db' = View(txn))
  BY WhatChangesDisk DEF commit
<1>2. QED
  BY <1>1, PTL DEF Spec, DiskChangesOnlyByCommit

(* The snapshot of a running statement keeps showing what it showed when   *)
(* it was taken (snapshot and restore, storage/mod.rs:103-109).            *)
THEOREM SnapshotKept == Spec => SnapshotStable
<1>1. [Next]_vars /\ snap # None /\ snap' # None
        => snap' = snap /\ View(snap)' = View(snap)
  BY StatementKeepsDisk DEF View, Overlay
<1>2. QED
  BY <1>1, PTL DEF Spec, SnapshotStable

----------------------------------------------------------------------------
(* The refinement.  Each action of Storage is a step of KVStore over the   *)
(* overlaid view, or leaves that view alone.                               *)

LEMMA MappedIsNoSentinel ==
  ASSUME TypeOK, snap # None PROVE Mapped(snap) # None
<1>1. View(snap) \in Tables
  BY ViewType DEF TypeOK
<1>2. Mapped(snap) \in [open : BOOLEAN, working : Tables]
  BY <1>1 DEF Mapped
<1>3. QED
  BY <1>2, SentinelAssumption

(* A single entry changed in the buffer, or in the table when there is no  *)
(* buffer, is that one entry changed in the view.                          *)
LEMMA ViewOfWrite ==
  ASSUME TypeOK, NEW k \in Keys, NEW v \in Values \cup {Absent},
         IF in_transaction
         THEN txn' = [txn EXCEPT ![k] = v] /\ UNCHANGED db
         ELSE db' = [db EXCEPT ![k] = v] /\ UNCHANGED txn
  PROVE  /\ View(txn)' = [View(txn) EXCEPT ![k] = v]
         /\ in_transaction' = in_transaction
         /\ db' = IF in_transaction THEN db ELSE View(txn)'
<1>1. CASE in_transaction
  <2>1. txn \in Buffers /\ txn' = [txn EXCEPT ![k] = v] /\ db' = db
    BY <1>1 DEF TypeOK
  <2>2. txn' \in Buffers
    BY <2>1 DEF Buffers
  <2>3. txn' # NoTxn
    BY <2>2, SentinelAssumption
  <2>4. ASSUME NEW j \in Keys
        PROVE  View(txn)'[j] = IF j = k THEN v ELSE View(txn)[j]
    <3>1. txn'[j] = IF j = k THEN v ELSE txn[j]
      BY <2>1 DEF Buffers
    <3>2. QED
      BY <1>1, <2>1, <2>3, <3>1, StorageAssumption DEF View, Overlay
  <2>5. View(txn)' = [View(txn) EXCEPT ![k] = v]
    BY <2>4 DEF View
  <2>6. QED
    BY <1>1, <2>1, <2>3, <2>5
<1>2. CASE ~in_transaction
  <2>1. txn = NoTxn /\ txn' = NoTxn /\ db' = [db EXCEPT ![k] = v]
    BY <1>2
  <2>2. View(txn) = db /\ View(txn)' = db'
    BY <2>1 DEF TypeOK, View, Overlay, Tables
  <2>3. QED
    BY <2>1, <2>2
<1>3. QED
  BY <1>1, <1>2

LEMMA TransactionSteps ==
  ASSUME TypeOK,
         begin \/ commit \/ commit_fails \/ rollback \/ reopen
  PROVE  KV!Next
<1> USE MappedIsNoSentinel, SentinelAssumption
<1> USE DEF TypeOK, KV!StatementWithoutTransaction, Mapped, Bool, Error, Done,
            KV!Bool, KV!Error, KV!Done
<1>1. CASE begin
  <2>1. View(txn)' = View(txn)
    BY <1>1 DEF begin, View, Overlay, EmptyBuffer
  <2>2. (IF snap = None THEN None ELSE Mapped(snap))'
          = IF snap = None THEN None ELSE Mapped(snap)
    BY <1>1 DEF begin, View, Overlay
  <2>3. in_transaction'
    BY <1>1 DEF begin, EmptyBuffer, Buffers
  <2>4. KV!Begin
    BY <1>1, <2>1, <2>2, <2>3 DEF begin, KV!Begin
  <2>5. QED BY <2>4 DEF KV!Next
<1>2. CASE commit
  <2>1. View(txn)' = View(txn)
    BY <1>2, ViewType DEF commit, View, Overlay, Tables
  <2>2. KV!Commit
    BY <1>2, <2>1 DEF commit, KV!Commit
  <2>3. QED BY <2>2 DEF KV!Next
<1>3. CASE commit_fails
  <2>1. View(txn)' = db
    BY <1>3 DEF commit_fails, View, Overlay, Tables
  <2>2. KV!CommitFails
    BY <1>3, <2>1 DEF commit_fails, KV!CommitFails
  <2>3. QED BY <2>2 DEF KV!Next
<1>4. CASE rollback
  <2>1. View(txn)' = db
    BY <1>4 DEF rollback, View, Overlay, Tables
  <2>2. KV!Rollback
    BY <1>4, <2>1 DEF rollback, KV!Rollback
  <2>3. QED BY <2>2 DEF KV!Next
<1>5. CASE reopen
  <2>1. View(txn)' = db
    BY <1>5 DEF reopen, View, Overlay, Tables
  <2>2. KV!Reopen
    BY <1>5, <2>1 DEF reopen, KV!Reopen
  <2>3. QED BY <2>2 DEF KV!Next
<1>6. QED
  BY <1>1, <1>2, <1>3, <1>4, <1>5

LEMMA StatementSteps ==
  ASSUME TypeOK, snapshot \/ restore \/ forget PROVE KV!Next
<1> USE MappedIsNoSentinel, SentinelAssumption
<1> USE DEF TypeOK, KV!StatementWithoutTransaction, Mapped, Done, KV!Done
<1>1. CASE snapshot
  <2>1. View(txn)' = View(txn) /\ snap' = txn /\ snap' # None
    BY <1>1 DEF snapshot, View, Overlay
  <2>2. Mapped(snap)' = [open |-> in_transaction, working |-> View(txn)]
    BY <1>1, <2>1 DEF snapshot, View, Overlay
  <2>3. KV!Snapshot
    BY <1>1, <2>1, <2>2 DEF snapshot, KV!Snapshot
  <2>4. QED BY <2>3 DEF KV!Next
<1>2. CASE restore
  <2>1. View(txn)' = View(snap)
    BY <1>2 DEF restore, View, Overlay
  <2>2. KV!Restore
    BY <1>2, <2>1 DEF restore, KV!Restore
  <2>3. QED BY <2>2 DEF KV!Next
<1>3. CASE forget
  <2>1. View(txn)' = View(txn) /\ Mapped(snap).open
    BY <1>3 DEF forget, View, Overlay
  <2>2. KV!Forget
    BY <1>3, <2>1 DEF forget, KV!Forget
  <2>3. QED BY <2>2 DEF KV!Next
<1>4. QED
  BY <1>1, <1>2, <1>3

(* A reply that leaves table, buffer and snapshot alone is a read or a     *)
(* refused write of KVStore.                                               *)
LEMMA ReadSteps ==
  ASSUME TypeOK,
         \/ \E k \in Keys : get(k) \/ get_fails(k)
         \/ \E R \in Ranges : scan(R) \/ scan_fails(R)
         \/ write_fails
  PROVE  KV!Next
<1> USE DEF KV!Read, KV!Error, Error
<1> DEFINE saved == IF snap = None THEN None ELSE Mapped(snap)
<1>1. UNCHANGED <<db, txn, snap>>
  BY DEF get, get_fails, scan, scan_fails, write_fails
<1>2. View(txn)' = View(txn) /\ saved' = saved /\ in_transaction' = in_transaction
  BY <1>1 DEF View, Overlay, Mapped
<1> HIDE DEF saved
<1>3. ASSUME NEW k \in Keys, get(k) \/ get_fails(k) PROVE KV!Next
  <2>1. ret' \in {KV!Value(View(txn)[k]), Error}
    BY <1>3 DEF get, get_fails, View, KV!Value
  <2>2. KV!Get(k)
    BY <1>1, <1>2, <2>1 DEF KV!Get, saved
  <2>3. QED BY <2>2 DEF KV!Next
<1>4. ASSUME NEW R \in Ranges, scan(R) \/ scan_fails(R) PROVE KV!Next
  <2>1. Scanned(R) = KV!Entries(View(txn), R)
    BY ScanAgreesWithGet, StorageAssumption
  <2>2. ret' \in {KV!Rows(View(txn), R), Error}
    BY <1>4, <2>1 DEF scan, scan_fails, KV!Rows
  <2>3. KV!Scan(R)
    BY <1>1, <1>2, <2>2 DEF KV!Scan, saved
  <2>4. QED BY <2>3 DEF KV!Next
<1>5. CASE write_fails
  <2>1. ~in_transaction => View(txn) = db
    BY DEF TypeOK, View, Overlay, Tables
  <2>2. KV!WriteFails
    BY <1>1, <1>2, <1>5, <2>1, MappedIsNoSentinel
       DEF write_fails, KV!WriteFails, KV!Write, saved
  <2>3. QED BY <2>2 DEF KV!Next
<1>6. QED
  BY <1>3, <1>4, <1>5

(* put, delete and delete_prefix.                                          *)
LEMMA WriteSteps ==
  ASSUME TypeOK,
         \/ \E k \in Keys, v \in Values : put(k, v)
         \/ \E k \in Keys : delete(k) \/ delete_fails(k)
         \/ \E R \in Ranges : delete_prefix(R)
  PROVE  KV!Next
<1> USE DEF KV!Error, KV!Done, KV!Bool, Error, Done, Bool
<1> DEFINE saved == IF snap = None THEN None ELSE Mapped(snap)
<1>1. snap' = snap /\ MayWrite
  BY DEF put, delete, delete_fails, delete_prefix
<1>2. saved = None \/ in_transaction
  BY <1>1, MappedIsNoSentinel
<1>3. View(snap)' = View(snap) \/ snap = None
  <2>1. in_transaction => db' = db
    BY DEF put, delete, delete_fails, delete_prefix
  <2>2. QED BY <1>1, <2>1 DEF View, Overlay
<1>4. saved' = saved
  BY <1>1, <1>3 DEF Mapped
<1> HIDE DEF saved
<1>5. ASSUME NEW k \in Keys, NEW v \in Values, put(k, v) PROVE KV!Next
  <2>1. /\ View(txn)' = [View(txn) EXCEPT ![k] = v]
        /\ in_transaction' = in_transaction
        /\ db' = IF in_transaction THEN db ELSE View(txn)'
    BY <1>5, ViewOfWrite DEF put
  <2>2. KV!Put(k, v)
    BY <1>2, <1>4, <1>5, <2>1 DEF put, KV!Put, KV!Write, saved
  <2>3. QED BY <2>2 DEF KV!Next
<1>6. ASSUME NEW k \in Keys PROVE KV!Remove(View(txn), {k})
                                     = [View(txn) EXCEPT ![k] = Absent]
  BY DEF KV!Remove, View
<1>7. ASSUME NEW k \in Keys, delete(k) PROVE KV!Next
  <2>1. /\ View(txn)' = [View(txn) EXCEPT ![k] = Absent]
        /\ in_transaction' = in_transaction
        /\ db' = IF in_transaction THEN db ELSE View(txn)'
    BY <1>7, ViewOfWrite DEF delete
  <2>2. ret' = Bool(View(txn)[k] # Absent)
    BY <1>7 DEF delete, View, Overlay
  <2>3. KV!Delete(k)
    BY <1>2, <1>4, <1>6, <2>1, <2>2 DEF KV!Delete, KV!Write, saved
  <2>4. QED BY <2>3 DEF KV!Next
<1>8. ASSUME NEW k \in Keys, delete_fails(k) PROVE KV!Next
  <2>1. CASE in_transaction
    <3>1. /\ View(txn)' = [View(txn) EXCEPT ![k] = Absent]
          /\ in_transaction' = in_transaction
          /\ db' = db
      BY <1>8, <2>1, ViewOfWrite DEF delete_fails
    <3>2. KV!DeleteFails(k)
      BY <1>2, <1>4, <1>6, <1>8, <2>1, <3>1
         DEF delete_fails, KV!DeleteFails, KV!Write, saved
    <3>3. QED BY <3>2 DEF KV!Next
  <2>2. CASE ~in_transaction
    <3>1. /\ View(txn)' = View(txn) /\ View(txn) = db /\ db' = db
          /\ in_transaction' = in_transaction
      BY <1>8, <2>2 DEF delete_fails, View, Overlay, TypeOK, Tables
    <3>2. KV!WriteFails
      BY <1>2, <1>4, <1>8, <3>1 DEF delete_fails, KV!WriteFails, KV!Write, saved
    <3>3. QED BY <3>2 DEF KV!Next
  <2>3. QED BY <2>1, <2>2
<1>9. ASSUME NEW R \in Ranges, delete_prefix(R) PROVE KV!Next
  <2> DEFINE found == {e[1] : e \in Scanned(R)}
  <2>1. Scanned(R) = KV!Entries(View(txn), R)
    BY ScanAgreesWithGet, StorageAssumption
  <2>2. \A k \in Keys : k \in found <=> k \in R /\ View(txn)[k] # Absent
    <3>1. found = {e[1] : e \in KV!Entries(View(txn), R)}
      BY <2>1
    <3> HIDE DEF found
    <3>2. ASSUME NEW k \in R, View(txn)[k] # Absent PROVE k \in found
      <4>1. <<k, View(txn)[k]>> \in KV!Entries(View(txn), R)
        BY <3>2 DEF KV!Entries
      <4>2. QED BY <3>1, <4>1
    <3>3. ASSUME NEW k \in found PROVE k \in R /\ View(txn)[k] # Absent
      <4>1. PICK e \in KV!Entries(View(txn), R) : k = e[1]
        BY <3>1
      <4>2. QED BY <4>1 DEF KV!Entries
    <3>4. QED BY <3>2, <3>3
  <2>7. KV!Cardinality(Scanned(R)) = Cardinality(Scanned(R))
    BY DEF Cardinality, KV!Cardinality
  <2>8. ret' = KV!Count(View(txn), R)
    BY <1>9, <2>1, <2>7 DEF delete_prefix, KV!Count
  <2> HIDE DEF found
  <2>3. KV!Remove(View(txn), R)
          = [k \in Keys |-> IF k \in found THEN Absent ELSE View(txn)[k]]
    BY <2>2, ViewType DEF KV!Remove, TypeOK, Tables, View
  <2>4. CASE in_transaction
    <3>1. txn' = [k \in Keys |-> IF k \in found THEN Absent ELSE txn[k]]
      BY <1>9, <2>4 DEF delete_prefix, found
    <3>2. txn' \in Buffers /\ txn' # NoTxn
      BY <2>4, <3>1, SentinelAssumption DEF Buffers, TypeOK
    <3>3. db' = db
      BY <1>9, <2>4 DEF delete_prefix
    <3>4. View(txn)' = KV!Remove(View(txn), R)
      BY <2>3, <2>4, <3>1, <3>2, <3>3, StorageAssumption DEF View, Overlay
    <3>5. KV!DeletePrefix(R)
      BY <1>2, <1>4, <2>4, <2>8, <3>2, <3>3, <3>4
         DEF KV!DeletePrefix, KV!Write, saved
    <3>6. QED BY <3>5 DEF KV!Next
  <2>5. CASE ~in_transaction
    <3>1. txn' = txn /\ View(txn) = db
      BY <1>9, <2>5 DEF delete_prefix, View, Overlay, TypeOK, Tables
    <3>2. db' = [k \in Keys |-> IF k \in found THEN Absent ELSE db[k]]
      BY <1>9, <2>5 DEF delete_prefix, found
    <3>3. View(txn)' = KV!Remove(View(txn), R) /\ View(txn)' = db'
      BY <2>3, <2>5, <3>1, <3>2 DEF View, Overlay
    <3>4. KV!DeletePrefix(R)
      BY <1>2, <1>4, <2>5, <2>8, <3>1, <3>3
         DEF KV!DeletePrefix, KV!Write, saved
    <3>5. QED BY <3>4 DEF KV!Next
  <2>6. QED BY <2>4, <2>5
<1>10. QED
  BY <1>5, <1>7, <1>8, <1>9

(* Storage implements KVStore: a caller cannot tell the buffered store     *)
(* from a dictionary with transactions, whatever it asks and whichever     *)
(* redb access fails (storage/mod.rs:28-34).                               *)
THEOREM Refinement == Spec => RefinesKVStore
<1>1. Init => KV!Init
  BY DEF Init, KV!Init, Done, KV!Done, View, Overlay
<1>2. TypeOK /\ [Next]_vars => [KV!Next]_(KV!vars)
  <2> SUFFICES ASSUME TypeOK, [Next]_vars PROVE [KV!Next]_(KV!vars)
    OBVIOUS
  <2>1. CASE Next
    BY <2>1, TransactionSteps, StatementSteps, ReadSteps, WriteSteps DEF Next
  <2>2. CASE UNCHANGED vars
    BY <2>2 DEF vars, KV!vars, View, Overlay, Mapped
  <2>3. QED BY <2>1, <2>2
<1>3. QED
  BY <1>1, <1>2, TypeCorrect, PTL DEF Spec, RefinesKVStore, KV!Spec
=============================================================================
