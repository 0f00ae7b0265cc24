----------------------------- MODULE MCCommands -----------------------------
(***************************************************************************)
(* An admin and a user, tasks enough for two commands of the admin to meet.*)
(***************************************************************************)
EXTENDS Commands, TLC

CONSTANTS admin, guest, t1, t2

TaskSymmetry == Permutations(Tasks)
=============================================================================
