------------------------------ MODULE MCMedia ------------------------------
(***************************************************************************)
(* Three workers, an image and a video, and a midnight between them.       *)
(***************************************************************************)
EXTENDS MediaStore, TLC

CONSTANTS w1, w2, w3, image, video

WorkerSymmetry == Permutations(Workers)
=============================================================================
