------------------------------ MODULE MCArena ------------------------------
(***************************************************************************)
(* Small instances of the arena for TLC: a key in two cases, one key, and  *)
(* arrays only.                                                            *)
(***************************************************************************)
EXTENDS ArenaForest

MCKeys == {"k", "K"}
MCLower == [k \in MCKeys |-> "k"]

OneKey == {"k"}
OneLower == [k \in OneKey |-> k]

NoKeys == {}
NoLower == [k \in NoKeys |-> k]
=============================================================================
