---------------------------- MODULE MemoryCache ----------------------------
(***************************************************************************)
(* InMemoryCache of shared/cache/memory_cache.py, the one cache that the   *)
(* deduplicator and the summariser share: an OrderedDict, least recently   *)
(* used first, with a deadline for each entry.  No operation awaits while  *)
(* it holds the lock, so each is one step; exists is a get.                *)
(***************************************************************************)
EXTENDS Integers, Sequences, FiniteSets

CONSTANTS
    Keys, Values, Nothing, Lifetimes, Forever, MaxTime,   \* see LossyCache
    Capacity,     \* max_entries: 50 000
    SweepLimit    \* expired entries one set drops from the front: 8

Deadlines == Nat \cup {Forever}

Entries == [value: Values, deadline: Deadlines]

ASSUME CacheAssumption ==
    /\ IsFiniteSet(Keys)
    /\ Nothing \notin Values \cup Entries
    /\ Lifetimes \subseteq Nat \ {0}
    /\ Forever \notin Nat
    /\ MaxTime \in Nat
    /\ Capacity \in Nat \ {0}
    /\ SweepLimit \in Nat \ {0}

VARIABLES
    now,     \* time.monotonic(), in seconds
    order,   \* the keys of _data, least recently used first
    data,    \* the entries of _data
    reply,   \* the answer of the last get
    \* observation
    last,      \* what was last set under each key and not deleted since
    usedSince  \* the keys set or found since each key was

vars == <<now, order, data, reply, last, usedSince>>

Init ==
    /\ now = 0
    /\ order = <<>>
    /\ data = [k \in Keys |-> Nothing]
    /\ reply = Nothing
    /\ last = [k \in Keys |-> Nothing]
    /\ usedSince = [k \in Keys |-> {}]

(* An entry is served at its deadline and not after.                       *)
Expired(e) == e.deadline # Forever /\ e.deadline < now

(* ex=None gives an entry without a deadline.                              *)
Entry(v, life) ==
    [value |-> v, deadline |-> IF life = Forever THEN Forever ELSE now + life]

Place(k) == CHOOSE i \in DOMAIN order : order[i] = k

Without(k) ==
    IF data[k] = Nothing THEN order
    ELSE SubSeq(order, 1, Place(k) - 1) \o SubSeq(order, Place(k) + 1, Len(order))

(* move_to_end, of a key that is there or has just been added.             *)
Touched(k) == Append(Without(k), k)

Use(k) ==
    usedSince' = [j \in Keys |-> IF j = k THEN {} ELSE usedSince[j] \cup {k}]

-----------------------------------------------------------------------------
(* Faulty variants of definitions below, used only for mutation testing.   *)

(* The room made before the entry is there.                                *)
TrimmedBefore(ks, n) == IF Len(ks) - n - 1 > Capacity THEN Len(ks) - Capacity ELSE n

(* A get that leaves the order as it is: first in, first out.              *)
HitUntouched(k) ==
    /\ data[k] # Nothing
    /\ ~Expired(data[k])
    /\ reply' = data[k].value
    /\ Use(k)
    /\ UNCHANGED <<now, order, data, last>>

(* A get that does not look at the deadline.                               *)
HitAnyway(k) ==
    /\ data[k] # Nothing
    /\ order' = Touched(k)
    /\ reply' = data[k].value
    /\ Use(k)
    /\ UNCHANGED <<now, data, last>>

-----------------------------------------------------------------------------
Tick == now < MaxTime /\ now' = now + 1 /\ UNCHANGED <<order, data, reply, last, usedSince>>

(* get.                                                                    *)
Miss(k) ==
    /\ data[k] = Nothing
    /\ reply' = Nothing
    /\ UNCHANGED <<now, order, data, last, usedSince>>

Stale(k) ==
    /\ data[k] # Nothing
    /\ Expired(data[k])
    /\ order' = Without(k)
    /\ data' = [data EXCEPT ![k] = Nothing]
    /\ reply' = Nothing
    /\ UNCHANGED <<now, last, usedSince>>

Hit(k) ==
    /\ data[k] # Nothing
    /\ ~Expired(data[k])
    /\ order' = Touched(k)
    /\ reply' = data[k].value
    /\ Use(k)
    /\ UNCHANGED <<now, data, last>>

(* _evict_locked: the n first of the keys ks have expired in the entries   *)
(* es and go, as many as the sweep takes; then go the least recently used  *)
(* while there are too many.                                               *)
Sweeps(ks, es, n) == n <= SweepLimit /\ \A i \in 1..n : Expired(es[ks[i]])

Swept(ks, es, n) ==
    Sweeps(ks, es, n) /\ \A m \in 0..Len(ks) : Sweeps(ks, es, m) => m <= n

Trimmed(ks, n) == IF Len(ks) - n > Capacity THEN Len(ks) - Capacity ELSE n

Set(k, v, life) ==
    LET ks == Touched(k)
        es == [data EXCEPT ![k] = Entry(v, life)]
    IN  \E n \in 0..Len(ks) :
            /\ Swept(ks, es, n)
            /\ order' = SubSeq(ks, Trimmed(ks, n) + 1, Len(ks))
            /\ data' = [j \in Keys |->
                    IF \E i \in 1..Trimmed(ks, n) : ks[i] = j THEN Nothing ELSE es[j]]
            /\ last' = [last EXCEPT ![k] = Entry(v, life)]
            /\ Use(k)
            /\ UNCHANGED <<now, reply>>

Delete(k) ==
    /\ order' = Without(k)
    /\ data' = [data EXCEPT ![k] = Nothing]
    /\ last' = [last EXCEPT ![k] = Nothing]
    /\ UNCHANGED <<now, reply, usedSince>>

Next ==
    \/ Tick
    \/ \E k \in Keys : Miss(k) \/ Stale(k) \/ Hit(k) \/ Delete(k)
    \/ \E k \in Keys, v \in Values, life \in Lifetimes \cup {Forever} : Set(k, v, life)

Spec == Init /\ [][Next]_vars

-----------------------------------------------------------------------------
(* Every variable has its type; the order lists each key held once, and    *)
(* between two operations never more than the capacity.                    *)
TypeOK ==
    /\ now \in Nat
    /\ order \in Seq(Keys)
    /\ \A i, j \in DOMAIN order : order[i] = order[j] => i = j
    /\ data \in [Keys -> Entries \cup {Nothing}]
    /\ {k \in Keys : data[k] # Nothing} = {order[i] : i \in DOMAIN order}
    /\ Len(order) <= Capacity
    /\ reply \in Values \cup {Nothing}
    /\ last \in [Keys -> Entries \cup {Nothing}]
    /\ usedSince \in [Keys -> SUBSET Keys]

(* A key is forgotten before its time only if as many others as the cache  *)
(* holds were used after it, however the expiry sweep and the size bound   *)
(* took turns at the front of the order.                                   *)
RecentlyUsedIsKept ==
    \A k \in Keys :
        last[k] # Nothing /\ data[k] = Nothing /\ ~Expired(last[k])
            => Cardinality(usedSince[k]) >= Capacity

(* The cache is a lossy one: it answers with what was last set, within its *)
(* time, or not at all.                                                    *)
Lossy == INSTANCE LossyCache WITH now <- now, last <- last, reply <- reply
ImplementsLossyCache == Lossy!Spec
=============================================================================
