----------------------------- MODULE MCMemoryFS -----------------------------
(* MemoryFS on a small tree: a name that may become a directory, one below *)
(* it, another beside it, and names at both sides of the path limits.      *)
EXTENDS MemoryFS, TLC

MCNames  == {"d", "d/f", "g", "long", "overlong"}
MCParent == [n \in MCNames |-> IF n = "d/f" THEN "d" ELSE "."]

Symmetric == Permutations(Handles)
=============================================================================
