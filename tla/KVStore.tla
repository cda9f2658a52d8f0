------------------------------ MODULE KVStore ------------------------------
(***************************************************************************)
(* What the storage layer promises its callers: one dictionary, at most    *)
(* one open transaction, and a snapshot of the transaction that undoes a   *)
(* failed statement.  Nothing here knows of a write buffer, of tombstones  *)
(* or of overlaying one on the other; module Storage has those and is      *)
(* shown to implement this one.                                            *)
(*                                                                         *)
(* The caller keeps at most one snapshot and uses it the way               *)
(* Engine::execute_atomically does: it is taken before a statement, writes *)
(* follow only inside a transaction, and the statement ends by restoring   *)
(* or by dropping it.                                                      *)
(***************************************************************************)
EXTENDS FiniteSets

CONSTANTS Keys, Values, Absent,
          Ranges,   \* the sets of keys a prefix or a range scan can cover
          None      \* no snapshot is held

VARIABLES durable,  \* contents that survive a restart
          working,  \* contents every read answers from
          open,     \* is a transaction open?
          saved,    \* the caller's snapshot: None or [open, working]
          ret       \* reply of the last call

vars == <<durable, working, open, saved, ret>>

Contents == [Keys -> Values \cup {Absent}]
Saved    == {None} \cup [open : BOOLEAN, working : Contents]

Entries(c, R) == {<<k, c[k]>> : k \in {j \in R : c[j] # Absent}}
Remove(c, R)  == [k \in Keys |-> IF k \in R THEN Absent ELSE c[k]]

Done        == <<"done">>
Error       == <<"error">>
Bool(b)     == <<"bool", b>>
Value(v)    == <<"value", v>>
Rows(c, R)  == <<"rows", Entries(c, R)>>
Count(c, R) == <<"count", Cardinality(Entries(c, R))>>

Init == /\ durable = [k \in Keys |-> Absent]
        /\ working = durable
        /\ open = FALSE
        /\ saved = None
        /\ ret = Done

----------------------------------------------------------------------------
(* Transactions.                                                           *)

StatementWithoutTransaction == saved # None /\ ~saved.open

Begin == /\ saved = None \/ (StatementWithoutTransaction /\ ~open)
         /\ open' = TRUE
         /\ ret' = Bool(~open)
         /\ UNCHANGED <<durable, working, saved>>

(* A commit makes the working contents durable in one step.                *)
Commit == /\ saved = None \/ (StatementWithoutTransaction /\ open)
          /\ durable' = working
          /\ open' = FALSE
          /\ saved' = None
          /\ ret' = Bool(open)
          /\ UNCHANGED working

(* A commit the disk refuses loses the transaction, whole.                 *)
CommitFails == /\ open
               /\ saved = None \/ StatementWithoutTransaction
               /\ working' = durable
               /\ open' = FALSE
               /\ saved' = None
               /\ ret' = Error
               /\ UNCHANGED durable

Rollback == /\ saved = None
            /\ working' = durable
            /\ open' = FALSE
            /\ ret' = Bool(open)
            /\ UNCHANGED <<durable, saved>>

Snapshot == /\ saved = None
            /\ saved' = [open |-> open, working |-> working]
            /\ ret' = Done
            /\ UNCHANGED <<durable, working, open>>

Restore == /\ saved # None
           /\ open' = saved.open
           /\ working' = saved.working
           /\ saved' = None
           /\ ret' = Done
           /\ UNCHANGED durable

Forget == /\ saved # None /\ saved.open
          /\ saved' = None
          /\ UNCHANGED <<durable, working, open, ret>>

(* The process stops and the database is opened again.                     *)
Reopen == /\ working' = durable
          /\ open' = FALSE
          /\ saved' = None
          /\ ret' = Done
          /\ UNCHANGED durable

----------------------------------------------------------------------------
(* Reads and writes.                                                       *)

Read(reply) == /\ ret' \in {reply, Error}
               /\ UNCHANGED <<durable, working, open, saved>>

Get(k)  == Read(Value(working[k]))
Scan(R) == Read(Rows(working, R))

(* Outside a transaction a write is durable at once.                       *)
Write(c, reply) == /\ saved = None \/ open
                   /\ working' = c
                   /\ durable' = IF open THEN durable ELSE c
                   /\ ret' = reply
                   /\ UNCHANGED <<open, saved>>

Put(k, v)       == Write([working EXCEPT ![k] = v], Done)
Delete(k)       == Write(Remove(working, {k}), Bool(working[k] # Absent))
DeletePrefix(R) == Write(Remove(working, R), Count(working, R))

WriteFails == Write(working, Error)

(* Inside a transaction the key is gone even when the delete cannot find   *)
(* out whether it existed: only restoring the snapshot brings it back.     *)
DeleteFails(k) == open /\ Write(Remove(working, {k}), Error)

Next == \/ Begin \/ Commit \/ CommitFails \/ Rollback
        \/ Snapshot \/ Restore \/ Forget \/ Reopen
        \/ \E k \in Keys : Get(k) \/ Delete(k) \/ DeleteFails(k)
        \/ \E k \in Keys, v \in Values : Put(k, v)
        \/ \E R \in Ranges : Scan(R) \/ DeletePrefix(R)
        \/ WriteFails

Spec == Init /\ [][Next]_vars
=============================================================================
