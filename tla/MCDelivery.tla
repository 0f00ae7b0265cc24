----------------------------- MODULE MCDelivery -----------------------------
(***************************************************************************)
(* Instances of Delivery: a media-only post, an article with a text, and   *)
(* one that Telegram never accepts.  The limits of the two queries are     *)
(* scaled down with the number of articles.                                *)
(***************************************************************************)
EXTENDS Delivery

(* What is ingested later was posted earlier.                              *)
NewestFirst == [a \in Articles |-> 5 - a]

(* The answer for the second article is off the scale, above it.           *)
Answers == [a \in Articles |-> IF a = 2 THEN 9 ELSE 3]
=============================================================================
