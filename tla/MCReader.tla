------------------------------ MODULE MCReader ------------------------------
(***************************************************************************)
(* Instances of Reader: a source that publishes an album, the caption on   *)
(* its first member, and a text.                                           *)
(***************************************************************************)
EXTENDS Reader

CONSTANTS
    x, y,
    AlbumIds   \* the members of the album

Post2(text, len, media) == [text |-> text, len |-> len, media |-> media]

MCContent == [m \in Messages |->
    CASE m[2] = 1             -> Post2(x, 5, 1 \in AlbumIds)
      [] m[2] \in AlbumIds \ {1} -> Post2(NoText, 0, TRUE)
      [] OTHER                -> Post2(y, 3, FALSE)]

MCGroupOf == [m \in Messages |-> IF m[2] \in AlbumIds THEN "g" ELSE NoGroup]

MCBatches ==
    [source: Sources, ids: (SUBSET AlbumIds \ {{}}) \cup {{i} : i \in MsgIds}]
=============================================================================
