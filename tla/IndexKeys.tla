----------------------------- MODULE IndexKeys -----------------------------
(***************************************************************************)
(* The keys of one index, byte by byte:                                    *)
(*    <encoded value>!<row id>                                             *)
(* under the constant prefix idx:<table>:<column>:, as                     *)
(* src/snail_core/src/executor/mod.rs writes and searches them.  Module    *)
(* Engine works with entries [column, value, id] instead and with the      *)
(* order of values; here that order is what the order of keys gives.       *)
(*                                                                         *)
(* A character is its place in byte order among those that occur:          *)
(*    !  "  the digits  i  n  t  ~                                         *)
(* Digits have base Base (16, and 10 in row ids), integers have IntDigits  *)
(* of them (16: 64 bits), bytes have two, row ids have IdDigits (20).      *)
(***************************************************************************)
EXTENDS Integers, Sequences, FiniteSets

CONSTANTS Base, IntDigits, IdDigits,
          Texts,  \* strings, as sequences of bytes
          RowIds

VARIABLES value, \* row id -> the indexed column of that row, or NoRow
          keys,  \* the keys of the index
          found  \* the last lookup and the row ids it gave

vars == <<value, keys, found>>

(* What a digit with k digits after it counts.                             *)
Weight[k \in Nat] == IF k = 0 THEN 1 ELSE Base * Weight[k - 1]

Width == Weight[IntDigits]
Ints  == -(Width \div 2) .. (Width \div 2) - 1

ASSUME KeysAssumption ==
    /\ Base \in Nat /\ Base >= 2 /\ IntDigits \in Nat /\ IdDigits \in Nat
    /\ Texts \subseteq Seq(0 .. Weight[2] - 1)
    /\ RowIds \subseteq 0 .. Weight[IdDigits] - 1

Null  == <<"null">>
NoRow == <<"none">>
Literals == {<<"int", n>> : n \in Ints} \cup {<<"text", s>> : s \in Texts}
Values   == Literals \cup {Null}
Ops == {"=", "<", "<=", ">", ">="}

SEP       == 0
AFTER_SEP == 1
Digit(d)  == 2 + d
TagInt    == Base + 2
TagNull   == Base + 3
TagText   == Base + 4
TAG_END   == Base + 5

(* The k last digits of n.                                                 *)
Digits(n, k) == [i \in 1 .. k |-> Digit((n \div Weight[k - i]) % Base)]

hex(bytes) == [i \in 1 .. 2 * Len(bytes) |->
                  Digits(bytes[(i + 1) \div 2], 2)[2 - (i % 2)]]

(* Mutant: negative numbers come last.                                     *)
encode_int_unflipped(n) == <<TagInt>> \o Digits(n % Width, IntDigits)

(* Two's complement with the sign bit turned over.                         *)
encode_int(n) == <<TagInt>> \o Digits(((n % Width) + (Width \div 2)) % Width, IntDigits)

encode(v) == CASE v[1] = "int"  -> encode_int(v[2])
               [] v[1] = "text" -> <<TagText>> \o hex(v[2])
               [] v = Null      -> <<TagNull>>

index_entry_key(v, id) == encode(v) \o <<SEP>> \o Digits(id, IdDigits)

(* Mutant: the last digit only.                                            *)
row_id_from_key_lastDigit(key) == key[Len(key)] - Digit(0)

(* The number after the separator.                                         *)
row_id_from_key(key) ==
    LET at == CHOOSE i \in DOMAIN key : key[i] = SEP
    IN  CHOOSE id \in 0 .. Weight[Len(key) - at] - 1 :
            SubSeq(key, at + 1, Len(key)) = Digits(id, Len(key) - at)

----------------------------------------------------------------------------
(* Byte order.                                                             *)

Below(a, b) ==
    \E n \in 1 .. Len(b) :
        /\ SubSeq(b, 1, n - 1) = SubSeq(a, 1, n - 1)
        /\ n = Len(a) + 1 \/ (n <= Len(a) /\ a[n] < b[n])

scan_prefix(p)     == {k \in keys : Len(k) >= Len(p) /\ SubSeq(k, 1, Len(p)) = p}
scan_range(lo, hi) == {k \in keys : ~Below(k, lo) /\ Below(k, hi)}

(* Mutant: the separator itself bounds >.                                  *)
index_candidate_keys_gtFromSep(op, v) ==
    LET enc == encode(v)
        tag == <<enc[1]>>
    IN  {row_id_from_key(k) : k \in
            CASE op = "="  -> scan_prefix(enc \o <<SEP>>)
              [] op = ">"  -> scan_range(enc \o <<SEP>>, tag \o <<TAG_END>>)
              [] op = ">=" -> scan_range(enc \o <<SEP>>, tag \o <<TAG_END>>)
              [] op = "<"  -> scan_range(tag, enc \o <<SEP>>)
              [] op = "<=" -> scan_range(tag, enc \o <<AFTER_SEP>>)}

(* The rows a condition on the column may select.                          *)
index_candidate_keys(op, v) ==
    LET enc == encode(v)
        tag == <<enc[1]>>
    IN  {row_id_from_key(k) : k \in
            CASE op = "="  -> scan_prefix(enc \o <<SEP>>)
              [] op = ">"  -> scan_range(enc \o <<AFTER_SEP>>, tag \o <<TAG_END>>)
              [] op = ">=" -> scan_range(enc \o <<SEP>>, tag \o <<TAG_END>>)
              [] op = "<"  -> scan_range(tag, enc \o <<SEP>>)
              [] op = "<=" -> scan_range(tag, enc \o <<AFTER_SEP>>)}

----------------------------------------------------------------------------
NotAsked == [op |-> "none", literal |-> Null, ids |-> {}]

Init == /\ value = [id \in RowIds |-> NoRow]
        /\ keys = {}
        /\ found = NotAsked

put_index_entries(id, v) == /\ value[id] = NoRow
                            /\ value' = [value EXCEPT ![id] = v]
                            /\ keys' = keys \cup {index_entry_key(v, id)}
                            /\ found' = NotAsked

delete_index_entries(id) == /\ value[id] # NoRow
                            /\ value' = [value EXCEPT ![id] = NoRow]
                            /\ keys' = keys \ {index_entry_key(value[id], id)}
                            /\ found' = NotAsked

(* Nothing moves when the encoded value stays the same.                    *)
reindex_row(id, v) ==
    /\ value[id] # NoRow
    /\ value' = [value EXCEPT ![id] = v]
    /\ keys' = IF encode(value[id]) = encode(v) THEN keys
               ELSE (keys \ {index_entry_key(value[id], id)})
                        \cup {index_entry_key(v, id)}
    /\ found' = NotAsked

Find(op, v) == /\ found' = [op |-> op, literal |-> v, ids |-> index_candidate_keys(op, v)]
               /\ UNCHANGED <<value, keys>>

Next == \/ \E id \in RowIds, v \in Values : put_index_entries(id, v) \/ reindex_row(id, v)
        \/ \E id \in RowIds : delete_index_entries(id)
        \/ \E op \in Ops, v \in Literals : Find(op, v)

Spec == Init /\ [][Next]_vars

----------------------------------------------------------------------------
(* Properties.                                                             *)

Compares(v, op, w) ==
    LET Less(a, b) == IF a[1] = "int" THEN a[2] < b[2] ELSE Below(a[2], b[2])
    IN  /\ v[1] = w[1]
        /\ CASE op = "="  -> v = w
             [] op = "<"  -> Less(v, w)
             [] op = "<=" -> Less(v, w) \/ v = w
             [] op = ">"  -> Less(w, v)
             [] op = ">=" -> Less(w, v) \/ v = w

(* A search of the index finds the rows whose value compares, all of them  *)
(* and no others: negative numbers, strings that begin other strings,      *)
(* values of the other type and NULLs included (index_candidate_keys,      *)
(* executor/mod.rs:766).                                                   *)
FindsExactly ==
    found # NotAsked =>
        found.ids = {id \in RowIds : Compares(value[id], found.op, found.literal)}

(* Rows never share a key, and a key tells its row.                        *)
KeysTellRows ==
    LET filed == {id \in RowIds : value[id] # NoRow}
    IN  /\ {row_id_from_key(k) : k \in keys} = filed
        /\ Cardinality(keys) = Cardinality(filed)
=============================================================================
