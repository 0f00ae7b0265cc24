---------------------------- MODULE SourceTable ----------------------------
(***************************************************************************)
(* What the admin's commands may do to source_channels, whatever commands  *)
(* run at the same time: a channel gets one row, which starts enabled and  *)
(* is never taken away, and the switch of a row goes back and forth.  The  *)
(* reader sees no more of the admin than this.                             *)
(***************************************************************************)
CONSTANT Channels

VARIABLES
    sources,   \* channels with a row
    enabled    \* those whose row is enabled

tableVars == <<sources, enabled>>

Init == sources = {} /\ enabled = {}

Add(c) ==
    /\ c \in Channels \ sources
    /\ sources' = sources \cup {c}
    /\ enabled' = enabled \cup {c}

Flip(c) ==
    /\ c \in sources
    /\ enabled' = IF c \in enabled THEN enabled \ {c} ELSE enabled \cup {c}
    /\ UNCHANGED sources

Next == \E c \in Channels : Add(c) \/ Flip(c)

Spec == Init /\ [][Next]_tableVars
=============================================================================
