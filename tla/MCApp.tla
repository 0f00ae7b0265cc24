------------------------------- MODULE MCApp -------------------------------
(***************************************************************************)
(* One batch of each kind: an album, which may be in the buffer when it is *)
(* drained or come late, and a single message.                             *)
(***************************************************************************)
EXTENDS App

CONSTANTS album, single
=============================================================================
