---------------------------- MODULE ArticleLife ----------------------------
(***************************************************************************)
(* What may become of an article once it is stored, as its row, the        *)
(* publish log and the channel show it, whoever asks for summaries and     *)
(* wherever the process stops:                                             *)
(*   - a post without text stays as it came;                               *)
(*   - only what was summarised is offered to the channel, and while it is *)
(*     offered nobody else publishes it;                                   *)
(*   - it is published for a copy the log does not have, and logged in the *)
(*     same moment;                                                        *)
(*   - a late answer of the model takes the publication back, once in the  *)
(*     article's life.                                                     *)
(***************************************************************************)
EXTENDS Integers

CONSTANTS
    Articles,
    MediaOnly    \* articles whose original_text is empty

VARIABLES
    status,      \* articles.status, or "absent"
    logged,      \* rows of publish_logs with status PUBLISHED
    offered,     \* articles the publish loop has listed and not given up yet
    sent         \* copies of the article in the channel

lifeVars == <<status, logged, offered, sent>>

Results == {"summarized", "failed"}

Init ==
    /\ status = [a \in Articles |-> "absent"]
    /\ logged = [a \in Articles |-> 0]
    /\ offered = {}
    /\ sent = [a \in Articles |-> 0]

Enter(a) ==
    /\ status[a] = "absent"
    /\ status' = [status EXCEPT ![a] = "ingested"]
    /\ UNCHANGED <<logged, offered, sent>>

Summarize(a, result) ==
    /\ a \notin MediaOnly
    /\ status[a] \in Results \cup {"ingested"}
    /\ status' = [status EXCEPT ![a] = result]
    /\ UNCHANGED <<logged, offered, sent>>

Reopen(a, result) ==
    /\ status[a] = "published"
    /\ logged[a] = 1
    /\ status' = [status EXCEPT ![a] = result]
    /\ UNCHANGED <<logged, offered, sent>>

Offer(list) ==
    /\ offered = {}
    /\ \A a \in list : status[a] = "summarized"
    /\ offered' = list
    /\ UNCHANGED <<status, logged, sent>>

(* A failed summary may follow the one it was offered for.                 *)
Send(a) ==
    /\ a \in offered
    /\ status[a] \in Results
    /\ sent' = [sent EXCEPT ![a] = @ + 1]
    /\ UNCHANGED <<status, logged, offered>>

Publish(a) ==
    /\ a \in offered
    /\ status[a] \in Results
    /\ logged[a] < sent[a]
    /\ status' = [status EXCEPT ![a] = "published"]
    /\ logged' = [logged EXCEPT ![a] = @ + 1]
    /\ offered' = offered \ {a}
    /\ UNCHANGED sent

GiveUp(list) ==
    /\ offered' = offered \ list
    /\ UNCHANGED <<status, logged, sent>>

Next ==
    \/ \E a \in Articles : Enter(a) \/ Send(a) \/ Publish(a)
    \/ \E a \in Articles, result \in Results : Summarize(a, result) \/ Reopen(a, result)
    \/ \E list \in SUBSET Articles : Offer(list) \/ GiveUp(list)

Spec == Init /\ [][Next]_lifeVars
=============================================================================
