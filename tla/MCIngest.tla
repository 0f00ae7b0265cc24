------------------------------ MODULE MCIngest ------------------------------
(***************************************************************************)
(* Two sources and a handful of posts chosen so that every race of the     *)
(* pipeline has its partners: an album that arrives whole and in parts, a  *)
(* post of the other source with the text of its caption, a service        *)
(* message without content; and media-only posts with equal message ids.   *)
(***************************************************************************)
EXTENDS IngestPipeline, TLC

CONSTANTS a, b, x, t1, t2, t3

Post(text, len, media) == [text |-> text, len |-> len, media |-> media]

(* a: 1-3 an album with its caption on 3, 4 empty.                         *)
(* b: 1 the text of the caption, 2 media only, 3 and 4 empty.              *)
MCContent == [m \in {a, b} \X (1..4) |->
    CASE m = <<a, 3>>               -> Post(x, 9, TRUE)
      [] m = <<b, 1>>               -> Post(x, 5, FALSE)
      [] m \in {<<a, 1>>, <<a, 2>>, <<b, 2>>} -> Post(NoText, 0, TRUE)
      [] OTHER                      -> Post(NoText, 0, FALSE)]

Group(s, ids) == [source |-> s, ids |-> ids]

MCBatches == {Group(a, {1}), Group(a, {1, 2, 3}), Group(a, {4}), Group(b, {1})}

MediaOnlyBatches == {Group(a, {2}), Group(a, {1, 2, 3}), Group(b, {2})}

TaskSymmetry == Permutations(Tasks)
=============================================================================
