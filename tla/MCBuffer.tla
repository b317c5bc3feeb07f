------------------------------ MODULE MCBuffer ------------------------------
(***************************************************************************)
(* Byte strings for Buffer's run: every string of up to three bytes.       *)
(***************************************************************************)
EXTENDS Buffer

MCStrings == UNION {[1 .. n -> Bytes] : n \in 0 .. 3}
==============================================================================
