------------------------------ MODULE MCCache ------------------------------
(***************************************************************************)
(* Four keys for two places, and a sweep that takes one entry at a time:   *)
(* a set may find the front expired, or full, or expired further in.       *)
(***************************************************************************)
EXTENDS MemoryCache, TLC

CONSTANTS k1, k2, k3, k4, v1, v2

KeySymmetry == Permutations(Keys) \cup Permutations(Values)
=============================================================================
