----------------------------- MODULE MCExplorer -----------------------------
(* Three nodes that come and go for TLC, and one more that moves only. *)
EXTENDS Explorer, TLC

Nodes == Permutations(Few)
=============================================================================
