---------------------------- MODULE MCIndexKeys ----------------------------
(* One index over three-digit integers and strings of up to two bytes.     *)
EXTENDS IndexKeys

Bytes == {0, 3}
MCTexts == {<<>>} \cup {<<a>> : a \in Bytes} \cup {<<a, b>> : a, b \in Bytes}
=============================================================================
