----------------------------- MODULE MCStorage -----------------------------
(* Storage on two keys and two values; scans cover nothing, one key or     *)
(* every key.                                                              *)
EXTENDS Storage

CONSTANTS k1, k2, v1, v2

MCRanges == {{}, {k1}, {k1, k2}}
=============================================================================
