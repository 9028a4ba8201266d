-------------------------- MODULE MCArenaDuplicate --------------------------
(***************************************************************************)
(* Small arenas to copy from: one key.                                     *)
(***************************************************************************)
EXTENDS ArenaDuplicate

OneKey == {"k"}
OneLower == [k \in OneKey |-> k]
=============================================================================
