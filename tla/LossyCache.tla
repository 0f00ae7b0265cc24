----------------------------- MODULE LossyCache -----------------------------
(***************************************************************************)
(* What the users of the in-process cache may count on: a lookup gives     *)
(* what was last set under the key, or nothing; and nothing once the time  *)
(* it was set for is over.  What is forgotten early, and why, is not said. *)
(***************************************************************************)
EXTENDS Integers

CONSTANTS
    Keys, Values,
    Nothing,     \* no value
    Lifetimes,   \* the seconds an entry may be set for
    Forever,     \* the deadline of an entry set without a lifetime
    MaxTime      \* bound: the last moment of a behaviour

Deadlines == Nat \cup {Forever}

Entries == [value: Values, deadline: Deadlines]

VARIABLES
    now,    \* time.monotonic(), in seconds
    last,   \* what was last set under each key, or Nothing
    reply   \* the answer of the last lookup

lossyVars == <<now, last, reply>>

(* An entry is served at its deadline and not after.                       *)
Expired(e) == e.deadline # Forever /\ e.deadline < now

Entry(v, life) ==
    [value |-> v, deadline |-> IF life = Forever THEN Forever ELSE now + life]

Init ==
    /\ now = 0
    /\ last = [k \in Keys |-> Nothing]
    /\ reply = Nothing

Tick == now < MaxTime /\ now' = now + 1 /\ UNCHANGED <<last, reply>>

Put(k, v, life) == last' = [last EXCEPT ![k] = Entry(v, life)] /\ UNCHANGED <<now, reply>>

Remove(k) == last' = [last EXCEPT ![k] = Nothing] /\ UNCHANGED <<now, reply>>

Miss(k) == reply' = Nothing /\ UNCHANGED <<now, last>>

Hit(k) ==
    /\ last[k] # Nothing
    /\ ~Expired(last[k])
    /\ reply' = last[k].value
    /\ UNCHANGED <<now, last>>

Next ==
    \/ Tick
    \/ \E k \in Keys : Remove(k) \/ Miss(k) \/ Hit(k)
    \/ \E k \in Keys, v \in Values, life \in Lifetimes \cup {Forever} : Put(k, v, life)

Spec == Init /\ [][Next]_lossyVars
=============================================================================
