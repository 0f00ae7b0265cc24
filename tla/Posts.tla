------------------------------- MODULE Posts -------------------------------
(***************************************************************************)
(* What a Telegram post is to the ingest pipeline: a batch of messages of  *)
(* one source (one message, or the collected members of an album), of      *)
(* which the pipeline looks at the longest caption, the presence of media  *)
(* and the largest id.                                                     *)
(*                                                                         *)
(* A text stands for its class under normalize_text: two captions that     *)
(* normalise to the same string have the same SHA-256, so they are the     *)
(* same element of Texts.                                                  *)
(***************************************************************************)
EXTENDS Integers, FiniteSets

CONSTANTS
    Sources,   \* rows of source_channels
    MsgIds,    \* Telegram message ids, increasing within a source
    Texts,     \* classes of non-empty captions under normalize_text
    NoText,    \* the caption of a message that has none
    Content,   \* what each message of each source holds
    Batches    \* the groups of messages the reader may hand over together

Messages == Sources \X MsgIds

ASSUME PostsAssumption ==
    /\ MsgIds \subseteq Nat \ {0}
    /\ NoText \notin Texts
    /\ Content \in [Messages -> [text: Texts \cup {NoText}, len: Nat, media: BOOLEAN]]
    /\ \A m \in Messages : Content[m].text # NoText => Content[m].len > 0

ASSUME BatchesAssumption ==
    Batches \subseteq [source: Sources, ids: {I \in SUBSET MsgIds : I # {} /\ IsFiniteSet(I)}]

-----------------------------------------------------------------------------
(* max(messages, key=len) returns the first longest member, and the reader *)
(* passes the members in increasing order of id.                           *)
Outranks(s, i, j) ==
    \/ Content[<<s, i>>].len > Content[<<s, j>>].len
    \/ Content[<<s, i>>].len = Content[<<s, j>>].len /\ i < j

HeadId(b) == CHOOSE h \in b.ids : \A i \in b.ids : ~Outranks(b.source, i, h)

NewestId(b) == CHOOSE n \in b.ids : \A i \in b.ids : i <= n

Key(b) == <<b.source, HeadId(b)>>

TextOf(b) == Content[Key(b)].text

HasText(b) == TextOf(b) # NoText

HasContent(b) == HasText(b) \/ \E i \in b.ids : Content[<<b.source, i>>].media

(* A post without text is given a hash made of its message id alone.       *)
ContentHash(b) == IF HasText(b) THEN TextOf(b) ELSE <<"empty", HeadId(b)>>

Hashes == Texts \cup ({"empty"} \X MsgIds)
=============================================================================
