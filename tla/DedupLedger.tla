---------------------------- MODULE DedupLedger ----------------------------
(***************************************************************************)
(* What ingestion promises of the two tables it shares with the rest of    *)
(* the program, whatever the workers, the cache and the crashes do:        *)
(*   - articles grows by one row per new post and never holds a post, or a *)
(*     text, twice;                                                        *)
(*   - last_message_id of a source moves forward only, and only onto a     *)
(*     message of a post that needs no further work.                       *)
(***************************************************************************)
EXTENDS Posts

CONSTANT NoRow   \* no article stored for a message

VARIABLES
    row,     \* articles: content_hash of the row stored for a (source, head id)
    lastId   \* source_channels.last_message_id

ledgerVars == <<row, lastId>>

TextStored(x) == \E k \in Messages : row[k] = x

(* Nothing is left to do for the post: it is stored, or its text is, or    *)
(* there is nothing in it to store.                                        *)
Settled(b) ==
    \/ ~HasContent(b)
    \/ row[Key(b)] # NoRow
    \/ HasText(b) /\ TextStored(TextOf(b))

Forward(s, i) == [lastId EXCEPT ![s] = IF @ < i THEN i ELSE @]

Init == row = [m \in Messages |-> NoRow] /\ lastId = [s \in Sources |-> 0]

Store(b) ==
    /\ HasContent(b)
    /\ row[Key(b)] = NoRow
    /\ ~TextStored(ContentHash(b))
    /\ row' = [row EXCEPT ![Key(b)] = ContentHash(b)]
    /\ lastId' = Forward(b.source, NewestId(b))

Acknowledge(b) ==
    /\ Settled(b)
    /\ \E i \in b.ids : lastId' = Forward(b.source, i)
    /\ UNCHANGED row

Next == \E b \in Batches : Store(b) \/ Acknowledge(b)

Spec == Init /\ [][Next]_ledgerVars
=============================================================================
