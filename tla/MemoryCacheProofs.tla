------------------------- MODULE MemoryCacheProofs -------------------------
(***************************************************************************)
(* The invariants of MemoryCache, and that it implements LossyCache, for   *)
(* any keys, capacity and sweep limit.                                     *)
(*                                                                         *)
(* RecentlyUsedIsKept is about keys that are gone; what makes it inductive *)
(* is a fact about those that are still there: whatever stands behind a    *)
(* key in the order was used after it (AgeInv).  An entry pushed out by    *)
(* the size bound has at least Capacity keys behind it.                    *)
(***************************************************************************)
EXTENDS MemoryCache, FiniteSetTheorems, TLAPS

OneEach(s) == \A i, j \in DOMAIN s : s[i] = s[j] => i = j

ByAge(s, used) == \A i, j \in DOMAIN s : i < j => s[j] \in used[s[i]]

AgeInv == ByAge(order, usedSince)

(* What is held is what was last set.                                      *)
LastInv == \A k \in Keys : data[k] \in {Nothing, last[k]}

IInv == TypeOK /\ LastInv /\ AgeInv /\ RecentlyUsedIsKept

-----------------------------------------------------------------------------
(* Arithmetic kept apart from the sequences it is about.                   *)
LEMMA Between ==
    ASSUME NEW m \in Nat, NEW n \in Nat, n < m, NEW i \in 1..n
    PROVE  i \in 1..m /\ i < m /\ i # m
    OBVIOUS

(* Place i of what is left after a cut of t elements was place t + i.      *)
LEMMA Shifted ==
    ASSUME NEW m \in Nat, NEW t \in Nat, t < m, NEW i \in 1..m - t
    PROVE  t + i \in 1..m /\ ~(t + i <= t)
    OBVIOUS

(* What is left of a sequence when the first t elements are cut off.       *)
LEMMA CutSeq ==
    ASSUME NEW S, NEW s \in Seq(S), NEW t \in Nat, t < Len(s)
    PROVE  /\ SubSeq(s, t + 1, Len(s)) \in Seq(S)
           /\ Len(SubSeq(s, t + 1, Len(s))) = Len(s) - t
           /\ DOMAIN SubSeq(s, t + 1, Len(s)) = 1..Len(s) - t
           /\ \A i \in 1..Len(s) - t : SubSeq(s, t + 1, Len(s))[i] = s[t + i]
<1> DEFINE n == Len(s)
           c == SubSeq(s, t + 1, n)
<1>1. n \in Nat /\ t < n
    OBVIOUS
<1>2. \A i \in 1..n : s[i] \in S
    OBVIOUS
<1>3. Len(c) = n - t /\ DOMAIN c = 1..n - t /\ \A i \in 1..n - t : c[i] = s[t + i]
    BY <1>1
<1> HIDE DEF n
<1>4. c \in Seq(S)
    BY <1>1, <1>2
<1> QED BY <1>3, <1>4 DEF n

(* A key that is held has a place in the order, and Place finds it.        *)
LEMMA PlaceFacts ==
    ASSUME TypeOK, NEW k \in Keys, data[k] # Nothing
    PROVE  Place(k) \in 1..Len(order) /\ order[Place(k)] = k
<1>1. \E i \in DOMAIN order : order[i] = k
    BY DEF TypeOK
<1> QED BY <1>1 DEF Place, TypeOK

(* Without(k) is the order with a gap closed.                              *)
LEMMA WithoutShape ==
    ASSUME TypeOK, NEW k \in Keys
    PROVE  /\ Without(k) \in Seq(Keys)
           /\ data[k] = Nothing => Without(k) = order
           /\ data[k] # Nothing =>
                /\ Len(Without(k)) = Len(order) - 1
                /\ \A i \in 1..Len(order) - 1 :
                    Without(k)[i] = order[IF i < Place(k) THEN i ELSE i + 1]
<1>1. CASE data[k] = Nothing
    BY <1>1 DEF Without, TypeOK
<1>2. CASE data[k] # Nothing
    <2> DEFINE p == Place(k)
               n == Len(order)
    <2>1. p \in 1..n /\ n \in Nat /\ order \in Seq(Keys)
        BY <1>2, PlaceFacts DEF TypeOK
    <2> HIDE DEF p
    <2>2. /\ SubSeq(order, 1, p - 1) \in Seq(Keys)
          /\ Len(SubSeq(order, 1, p - 1)) = p - 1
          /\ \A i \in 1..p - 1 : SubSeq(order, 1, p - 1)[i] = order[i]
        BY <2>1
    <2>3. /\ SubSeq(order, p + 1, n) \in Seq(Keys)
          /\ Len(SubSeq(order, p + 1, n)) = n - p
          /\ \A i \in 1..n - p : SubSeq(order, p + 1, n)[i] = order[p + i]
        BY <2>1
    <2>4. Without(k) = SubSeq(order, 1, p - 1) \o SubSeq(order, p + 1, n)
        BY <1>2 DEF Without, p
    <2> DEFINE s == SubSeq(order, 1, p - 1)
               t == SubSeq(order, p + 1, n)
    <2> HIDE DEF s, t, n
    <2>5. /\ s \o t \in Seq(Keys)
          /\ Len(s \o t) = n - 1
          /\ \A i \in 1..n - 1 : (s \o t)[i] = IF i < p THEN s[i] ELSE t[i - p + 1]
        BY <2>1, <2>2, <2>3 DEF s, t
    <2>6. \A i \in 1..n - 1 : (s \o t)[i] = order[IF i < p THEN i ELSE i + 1]
        <3> SUFFICES ASSUME NEW i \in 1..n - 1
                     PROVE  (s \o t)[i] = order[IF i < p THEN i ELSE i + 1]
            OBVIOUS
        <3>1. CASE i < p
            BY <3>1, <2>1, <2>2, <2>5 DEF s
        <3>2. CASE ~(i < p)
            <4>1. i - p + 1 \in 1..n - p /\ p + (i - p + 1) = i + 1
                BY <3>2, <2>1
            <4> QED BY <3>2, <4>1, <2>1, <2>3, <2>5 DEF t
        <3> QED BY <3>1, <3>2
    <2> QED BY <1>2, <2>4, <2>5, <2>6 DEF p, s, t, n
<1> QED BY <1>1, <1>2
(* Taking a key out of the order keeps the others in their places.         *)
LEMMA WithoutFacts ==
    ASSUME TypeOK, NEW k \in Keys
    PROVE  /\ Without(k) \in Seq(Keys)
           /\ Len(Without(k)) = IF data[k] = Nothing THEN Len(order) ELSE Len(order) - 1
           /\ OneEach(Without(k))
           /\ \A j \in Keys : (\E i \in DOMAIN Without(k) : Without(k)[i] = j)
                                <=> data[j] # Nothing /\ j # k
           /\ AgeInv => ByAge(Without(k), usedSince)
<1> DEFINE w == Without(k)
<1>1. /\ order \in Seq(Keys)
      /\ \A i, j \in DOMAIN order : order[i] = order[j] => i = j
      /\ \A j \in Keys : data[j] # Nothing <=> \E i \in DOMAIN order : order[i] = j
    BY DEF TypeOK
<1>2. CASE data[k] = Nothing
    BY <1>1, <1>2, WithoutShape DEF OneEach, ByAge, AgeInv
<1>3. CASE data[k] # Nothing
    <2> DEFINE old(i) == IF i < Place(k) THEN i ELSE i + 1
    <2>1. Place(k) \in 1..Len(order) /\ order[Place(k)] = k
        BY <1>3, PlaceFacts
    <2>2. /\ w \in Seq(Keys)
          /\ Len(w) = Len(order) - 1
          /\ \A i \in 1..Len(order) - 1 : w[i] = order[old(i)]
        BY <1>3, WithoutShape
    <2> HIDE DEF w
    <2>3. /\ DOMAIN w = 1..Len(order) - 1
          /\ DOMAIN order = 1..Len(order)
          /\ Len(order) \in Nat
        BY <1>1, <2>2
    <2>4. \A i \in 1..Len(order) - 1 : old(i) \in 1..Len(order) /\ old(i) # Place(k)
        BY <2>1, <2>3
    <2>5. \A i, j \in 1..Len(order) - 1 : (old(i) = old(j) => i = j) /\ (i < j => old(i) < old(j))
        BY <2>1, <2>3
    <2>6. \A q \in 1..Len(order) : q # Place(k) => \E i \in 1..Len(order) - 1 : old(i) = q
        <3> SUFFICES ASSUME NEW q \in 1..Len(order), q # Place(k)
                     PROVE  \E i \in 1..Len(order) - 1 : old(i) = q
            OBVIOUS
        <3>1. CASE q < Place(k)
            <4>1. q \in 1..Len(order) - 1 /\ old(q) = q
                BY <3>1, <2>1, <2>3
            <4> QED BY <4>1
        <3>2. CASE q > Place(k)
            <4>1. q - 1 \in 1..Len(order) - 1 /\ old(q - 1) = q
                BY <3>2, <2>1, <2>3
            <4> QED BY <4>1
        <3> QED BY <3>1, <3>2, <2>1
    <2> HIDE DEF old
    <2>7. OneEach(w)
        BY <1>1, <2>2, <2>3, <2>4, <2>5 DEF OneEach
    <2>8. \A j \in Keys : (\E i \in DOMAIN w : w[i] = j) => data[j] # Nothing /\ j # k
        BY <1>1, <2>1, <2>2, <2>3, <2>4
    <2>9. \A j \in Keys : data[j] # Nothing /\ j # k => \E i \in DOMAIN w : w[i] = j
        <3> SUFFICES ASSUME NEW j \in Keys, data[j] # Nothing, j # k
                     PROVE  \E i \in DOMAIN w : w[i] = j
            OBVIOUS
        <3>1. PICK q \in 1..Len(order) : order[q] = j
            BY <1>1, <2>3
        <3>2. PICK i \in 1..Len(order) - 1 : old(i) = q
            BY <3>1, <2>1, <2>6
        <3> QED BY <3>1, <3>2, <2>2, <2>3
    <2>10. AgeInv => ByAge(w, usedSince)
        BY <2>2, <2>3, <2>4, <2>5 DEF AgeInv, ByAge
    <2> QED BY <1>3, <2>2, <2>7, <2>8, <2>9, <2>10 DEF w
<1> QED BY <1>2, <1>3

UsedNow(k) == [j \in Keys |-> IF j = k THEN {} ELSE usedSince[j] \cup {k}]

(* A key that is touched is the last one, and used after all the others.   *)
LEMMA TouchedFacts ==
    ASSUME TypeOK, NEW k \in Keys
    PROVE  /\ Touched(k) \in Seq(Keys)
           /\ Len(Touched(k)) = IF data[k] = Nothing THEN Len(order) + 1 ELSE Len(order)
           /\ Len(Touched(k)) > 0
           /\ Touched(k)[Len(Touched(k))] = k
           /\ OneEach(Touched(k))
           /\ \A j \in Keys : (\E i \in DOMAIN Touched(k) : Touched(k)[i] = j)
                                <=> data[j] # Nothing \/ j = k
           /\ AgeInv => ByAge(Touched(k), UsedNow(k))
<1> DEFINE w == Without(k)
           s == Touched(k)
           n == Len(w)
<1>1. /\ w \in Seq(Keys)
      /\ n = IF data[k] = Nothing THEN Len(order) ELSE Len(order) - 1
      /\ OneEach(w)
      /\ \A j \in Keys : (\E i \in DOMAIN w : w[i] = j) <=> data[j] # Nothing /\ j # k
      /\ AgeInv => ByAge(w, usedSince)
    BY WithoutFacts
<1>2. s = Append(w, k)
    BY DEF Touched
<1> HIDE DEF w, s
<1>3. /\ n \in Nat
      /\ DOMAIN w = 1..n
      /\ s \in Seq(Keys)
      /\ Len(s) = n + 1
      /\ DOMAIN s = 1..n + 1
      /\ s[n + 1] = k
      /\ \A i \in 1..n : s[i] = w[i]
    BY <1>1, <1>2
<1> HIDE DEF n
<1>4. \A i \in 1..n : w[i] \in Keys /\ w[i] # k
    BY <1>1, <1>3
<1>5. \A i \in 1..n + 1 : i \in 1..n \/ i = n + 1
    BY <1>3
<1>6. OneEach(s)
    BY <1>1, <1>3, <1>4, <1>5 DEF OneEach
<1>7. \A j \in Keys : (\E i \in DOMAIN s : s[i] = j) <=> data[j] # Nothing \/ j = k
    <2> SUFFICES ASSUME NEW j \in Keys
                 PROVE  (\E i \in DOMAIN s : s[i] = j) <=> data[j] # Nothing \/ j = k
        OBVIOUS
    <2>1. n + 1 \in DOMAIN s /\ 1..n \subseteq DOMAIN s
        BY <1>3
    <2>2. (\E i \in DOMAIN s : s[i] = j) <=> (\E i \in 1..n : w[i] = j) \/ j = k
        BY <1>3, <1>5, <2>1
    <2> QED BY <2>2, <1>1, <1>3
<1>8. ASSUME AgeInv PROVE ByAge(s, UsedNow(k))
    <2> SUFFICES ASSUME NEW i \in DOMAIN s, NEW j \in DOMAIN s, i < j
                 PROVE  s[j] \in UsedNow(k)[s[i]]
        BY DEF ByAge
    <2>1. i \in 1..n /\ s[i] = w[i] /\ w[i] \in Keys /\ w[i] # k
        BY <1>3, <1>4, <1>5
    <2>2. UsedNow(k)[s[i]] = usedSince[w[i]] \cup {k}
        BY <2>1 DEF UsedNow
    <2>3. CASE j \in 1..n
        BY <1>1, <1>3, <1>8, <2>1, <2>2, <2>3 DEF ByAge
    <2>4. CASE j = n + 1
        BY <1>3, <2>2, <2>4
    <2> QED BY <1>3, <1>5, <2>3, <2>4
<1>9. data[k] # Nothing => Len(order) \in Nat
    BY DEF TypeOK
<1> QED BY <1>1, <1>3, <1>6, <1>7, <1>8, <1>9 DEF s, n

(* What set writes is an entry, and one that has not expired.              *)
LEMMA EntryTypes ==
    ASSUME now \in Nat, NEW v \in Values, NEW life \in Lifetimes \cup {Forever}
    PROVE  Entry(v, life) \in Entries /\ ~Expired(Entry(v, life))
BY CacheAssumption DEF Entry, Entries, Deadlines, Expired

(* Nothing is no entry, and no entry is Nothing.                           *)
LEMMA NothingIsNoEntry == Nothing \notin Entries /\ Nothing \notin Values
BY CacheAssumption

(* How far set cuts: at least as far as the sweep goes, further only to    *)
(* the capacity, and never so far that the new entry goes.                 *)
LEMMA CutFacts ==
    ASSUME TypeOK, NEW k \in Keys, NEW v \in Values, NEW life \in Lifetimes \cup {Forever},
           NEW n \in 0..Len(Touched(k)),
           Swept(Touched(k), [data EXCEPT ![k] = Entry(v, life)], n)
    PROVE  /\ n < Len(Touched(k))
           /\ \A i \in 1..n : data[Touched(k)[i]] # Nothing /\ Expired(data[Touched(k)[i]])
           /\ Trimmed(Touched(k), n) \in n..Len(Touched(k)) - 1
           /\ Len(Touched(k)) - Trimmed(Touched(k), n) <= Capacity
           /\ Trimmed(Touched(k), n) \in {n, Len(Touched(k)) - Capacity}
<1> DEFINE s == Touched(k)
           es == [data EXCEPT ![k] = Entry(v, life)]
<1>0. /\ s \in Seq(Keys) /\ Len(s) > 0 /\ s[Len(s)] = k
      /\ OneEach(s)
      /\ \A j \in Keys : (\E i \in DOMAIN s : s[i] = j) <=> data[j] # Nothing \/ j = k
    BY TouchedFacts
<1>2. \A i \in 1..n : Expired(es[s[i]])
    BY DEF Swept, Sweeps
<1>3. es[k] = Entry(v, life) /\ \A j \in Keys \ {k} : es[j] = data[j]
    BY DEF TypeOK
<1>4. ~Expired(es[k])
    BY <1>3, EntryTypes DEF TypeOK
<1>5. n \in 0..Len(s)
    OBVIOUS
<1> HIDE DEF s, es
<1>1. Len(s) \in Nat /\ DOMAIN s = 1..Len(s) /\ n \in Nat
    BY <1>0, <1>5
<1>9. n < Len(s)
    BY <1>0, <1>1, <1>2, <1>4, <1>5
<1>10. /\ \A i \in 1..Len(s) : s[i] \in Keys
       /\ \A i, j \in 1..Len(s) : s[i] = s[j] => i = j
    BY <1>0, <1>1 DEF OneEach
<1>6. \A i \in 1..n : s[i] # k /\ s[i] \in Keys
    <2> SUFFICES ASSUME NEW i \in 1..n PROVE s[i] # k /\ s[i] \in Keys
        OBVIOUS
    <2>1. i \in 1..Len(s) /\ i # Len(s)
        BY <1>1, <1>9, Between, Zenon
    <2>2. Len(s) \in 1..Len(s)
        BY <1>0, <1>1
    <2> QED BY <2>1, <2>2, <1>0, <1>10
<1>7. \A i \in 1..n : data[s[i]] # Nothing /\ Expired(data[s[i]])
    <2> SUFFICES ASSUME NEW i \in 1..n PROVE data[s[i]] # Nothing /\ Expired(data[s[i]])
        OBVIOUS
    <2>1. i \in DOMAIN s
        BY <1>1, <1>9
    <2>2. data[s[i]] # Nothing
        BY <2>1, <1>0, <1>6
    <2> QED BY <2>2, <1>2, <1>3, <1>6
<1>8. /\ Trimmed(s, n) \in n..Len(s) - 1
      /\ Len(s) - Trimmed(s, n) <= Capacity
      /\ Trimmed(s, n) \in {n, Len(s) - Capacity}
    BY <1>1, <1>9, CacheAssumption DEF Trimmed
<1> QED BY <1>9, <1>7, <1>8 DEF s

-----------------------------------------------------------------------------
(* An empty cache has the invariant.                                       *)
LEMMA CacheInit == Init => IInv
<1> SUFFICES ASSUME Init PROVE IInv
    OBVIOUS
<1>1. TypeOK
    BY CacheAssumption DEF Init, TypeOK
<1>2. LastInv
    BY DEF Init, LastInv
<1>3. AgeInv
    BY DEF Init, AgeInv, ByAge
<1>4. RecentlyUsedIsKept
    BY DEF Init, RecentlyUsedIsKept
<1> QED BY <1>1, <1>2, <1>3, <1>4 DEF IInv

(* The step of set, as the other lemmas use it: n entries swept, t gone.   *)
SetParts(k, v, life, n, t) ==
    /\ n <= t /\ t < Len(Touched(k)) /\ Len(Touched(k)) - t <= Capacity
    /\ t \in {n, Len(Touched(k)) - Capacity}
    /\ \A i \in 1..n : data[Touched(k)[i]] # Nothing /\ Expired(data[Touched(k)[i]])
    /\ order' = SubSeq(Touched(k), t + 1, Len(Touched(k)))
    /\ data' = [j \in Keys |->
            IF \E i \in 1..t : Touched(k)[i] = j THEN Nothing
            ELSE IF j = k THEN Entry(v, life) ELSE data[j]]
    /\ last' = [last EXCEPT ![k] = Entry(v, life)]
    /\ usedSince' = UsedNow(k)
    /\ now' = now /\ reply' = reply

(* A set cuts some t entries off the front, few enough or just as many as  *)
(* the capacity asks for.                                                  *)
LEMMA SetShape ==
    ASSUME TypeOK, NEW k \in Keys, NEW v \in Values, NEW life \in Lifetimes \cup {Forever},
           Set(k, v, life)
    PROVE  \E n, t \in Nat : SetParts(k, v, life, n, t)
<1>1. PICK n \in 0..Len(Touched(k)) :
        /\ Swept(Touched(k), [data EXCEPT ![k] = Entry(v, life)], n)
        /\ order' = SubSeq(Touched(k), Trimmed(Touched(k), n) + 1, Len(Touched(k)))
        /\ data' = [j \in Keys |->
                IF \E i \in 1..Trimmed(Touched(k), n) : Touched(k)[i] = j THEN Nothing
                ELSE [data EXCEPT ![k] = Entry(v, life)][j]]
        /\ last' = [last EXCEPT ![k] = Entry(v, life)]
        /\ Use(k) /\ UNCHANGED <<now, reply>>
    BY DEF Set
<1> DEFINE t == Trimmed(Touched(k), n)
<1>2. /\ \A i \in 1..n : data[Touched(k)[i]] # Nothing /\ Expired(data[Touched(k)[i]])
      /\ t \in n..Len(Touched(k)) - 1
      /\ Len(Touched(k)) - t <= Capacity
      /\ t \in {n, Len(Touched(k)) - Capacity}
    BY <1>1, CutFacts
<1>3. Len(Touched(k)) \in Nat
    BY TouchedFacts
<1> HIDE DEF t
<1>4. n \in Nat /\ t \in Nat /\ n <= t /\ t < Len(Touched(k))
    BY <1>2, <1>3
<1>5. data' = [j \in Keys |->
                IF \E i \in 1..t : Touched(k)[i] = j THEN Nothing
                ELSE IF j = k THEN Entry(v, life) ELSE data[j]]
    BY <1>1 DEF TypeOK, t
<1>6. usedSince' = UsedNow(k)
    BY <1>1 DEF Use, UsedNow
<1>7. SetParts(k, v, life, n, t)
    BY <1>1, <1>2, <1>4, <1>5, <1>6 DEF SetParts, t
<1> QED BY <1>4, <1>7

-----------------------------------------------------------------------------
(* No operation of the cache breaks its types.                             *)
LEMMA TypeStep == TypeOK /\ [Next]_vars => TypeOK'
<1> SUFFICES ASSUME TypeOK, [Next]_vars PROVE TypeOK'
    OBVIOUS
<1>1. /\ now \in Nat
      /\ order \in Seq(Keys)
      /\ \A i, j \in DOMAIN order : order[i] = order[j] => i = j
      /\ data \in [Keys -> Entries \cup {Nothing}]
      /\ {k \in Keys : data[k] # Nothing} = {order[i] : i \in DOMAIN order}
      /\ Len(order) <= Capacity
      /\ reply \in Values \cup {Nothing}
      /\ last \in [Keys -> Entries \cup {Nothing}]
      /\ usedSince \in [Keys -> SUBSET Keys]
    BY DEF TypeOK
<1>2. CASE Tick
    BY <1>1, <1>2 DEF Tick, TypeOK
<1>3. ASSUME NEW k \in Keys, Miss(k)
      PROVE  TypeOK'
    BY <1>1, <1>3 DEF Miss, TypeOK
<1>4. ASSUME NEW k \in Keys, order' = Without(k), data' = [data EXCEPT ![k] = Nothing],
             now' = now, usedSince' = usedSince, reply' \in Values \cup {Nothing},
             last' \in [Keys -> Entries \cup {Nothing}]
      PROVE  TypeOK'
    <2> DEFINE w == Without(k)
    <2>1. /\ w \in Seq(Keys)
          /\ Len(w) = IF data[k] = Nothing THEN Len(order) ELSE Len(order) - 1
          /\ OneEach(w)
          /\ \A j \in Keys : (\E i \in DOMAIN w : w[i] = j) <=> data[j] # Nothing /\ j # k
        BY WithoutFacts
    <2> HIDE DEF w
    <2>2. order' = w
        BY <1>4 DEF w
    <2>3. Len(w) <= Capacity
        BY <1>1, <2>1, CacheAssumption
    <2>4. \A j \in Keys : data'[j] # Nothing <=> data[j] # Nothing /\ j # k
        BY <1>1, <1>4
    <2>5. {j \in Keys : data'[j] # Nothing} = {w[i] : i \in DOMAIN w}
        BY <2>1, <2>4
    <2>6. data' \in [Keys -> Entries \cup {Nothing}]
        BY <1>1, <1>4
    <2>7. \A i, j \in DOMAIN order' : order'[i] = order'[j] => i = j
        BY <2>1, <2>2 DEF OneEach
    <2>8. order' \in Seq(Keys) /\ Len(order') <= Capacity
        BY <2>1, <2>2, <2>3
    <2>9. {j \in Keys : data'[j] # Nothing} = {order'[i] : i \in DOMAIN order'}
        BY <2>2, <2>5
    <2> HIDE DEF w
    <2> QED BY <1>1, <1>4, <2>6, <2>7, <2>8, <2>9 DEF TypeOK
<1>5. ASSUME NEW k \in Keys, Hit(k)
      PROVE  TypeOK'
    <2> DEFINE s == Touched(k)
    <2>1. /\ s \in Seq(Keys)
          /\ Len(s) = IF data[k] = Nothing THEN Len(order) + 1 ELSE Len(order)
          /\ OneEach(s)
          /\ \A j \in Keys : (\E i \in DOMAIN s : s[i] = j) <=> data[j] # Nothing \/ j = k
        BY TouchedFacts
    <2> HIDE DEF s
    <2>2. data[k] # Nothing /\ order' = s /\ reply' = data[k].value /\ data' = data
          /\ now' = now /\ last' = last /\ usedSince' = UsedNow(k)
        BY <1>5 DEF Hit, Use, UsedNow, s
    <2>3. reply' \in Values
        BY <1>1, <2>2 DEF Entries
    <2>4. {j \in Keys : data'[j] # Nothing} = {s[i] : i \in DOMAIN s}
        BY <2>1, <2>2
    <2>5. usedSince' \in [Keys -> SUBSET Keys]
        BY <1>1, <2>2 DEF UsedNow
    <2> QED BY <1>1, <2>1, <2>2, <2>3, <2>4, <2>5 DEF TypeOK, OneEach
<1>6. ASSUME NEW k \in Keys, NEW v \in Values, NEW life \in Lifetimes \cup {Forever},
             Set(k, v, life)
      PROVE  TypeOK'
    <2> DEFINE s == Touched(k)
    <2>1. /\ s \in Seq(Keys)
          /\ OneEach(s)
          /\ \A j \in Keys : (\E i \in DOMAIN s : s[i] = j) <=> data[j] # Nothing \/ j = k
        BY TouchedFacts
    <2> HIDE DEF s
    <2>0. PICK n \in Nat, t \in Nat : SetParts(k, v, life, n, t)
        BY <1>6, SetShape
    <2>2. /\ t < Len(s) /\ Len(s) - t <= Capacity
          /\ order' = SubSeq(s, t + 1, Len(s))
          /\ data' = [j \in Keys |->
                IF \E i \in 1..t : s[i] = j THEN Nothing
                ELSE IF j = k THEN Entry(v, life) ELSE data[j]]
          /\ last' = [last EXCEPT ![k] = Entry(v, life)]
          /\ usedSince' = UsedNow(k)
          /\ now' = now /\ reply' = reply
        BY <2>0 DEF SetParts, s
    <2>3. Entry(v, life) \in Entries /\ Nothing \notin Entries
        BY <1>1, EntryTypes, NothingIsNoEntry
    <2>4. /\ Len(s) \in Nat /\ DOMAIN s = 1..Len(s)
          /\ \A i \in 1..Len(s) : s[i] \in Keys
          /\ \A i, j \in 1..Len(s) : s[i] = s[j] => i = j
        BY <2>1 DEF OneEach
    <2>5. /\ order' \in Seq(Keys)
          /\ Len(order') = Len(s) - t
          /\ DOMAIN order' = 1..Len(s) - t
          /\ \A i \in 1..Len(s) - t : order'[i] = s[t + i]
        BY <2>1, <2>2, CutSeq
    <2>6. \A i, j \in DOMAIN order' : order'[i] = order'[j] => i = j
        <3> SUFFICES ASSUME NEW i \in DOMAIN order', NEW j \in DOMAIN order',
                            order'[i] = order'[j]
                     PROVE  i = j
            OBVIOUS
        <3>1. i \in 1..Len(s) - t /\ j \in 1..Len(s) - t
            BY <2>5
        <3>2. t + i \in 1..Len(s) /\ t + j \in 1..Len(s)
            BY <3>1, <2>2, <2>4, Shifted
        <3>3. s[t + i] = s[t + j]
            BY <3>1, <2>5
        <3>4. t + i = t + j
            BY <3>2, <3>3, <2>4
        <3> QED BY <3>1, <3>4, <2>4
    <2>7. \A j \in Keys : data'[j] # Nothing <=> \E i \in DOMAIN order' : order'[i] = j
        <3> SUFFICES ASSUME NEW j \in Keys
                     PROVE  data'[j] # Nothing <=> \E i \in DOMAIN order' : order'[i] = j
            OBVIOUS
        <3>1. data'[j] # Nothing <=> (data[j] # Nothing \/ j = k) /\ ~\E i \in 1..t : s[i] = j
            BY <2>2, <2>3
        <3>2. ASSUME NEW i \in 1..Len(s), s[i] = j
              PROVE  (\E l \in 1..t : s[l] = j) <=> i <= t
            <4>1. ASSUME NEW l \in 1..t, s[l] = j PROVE i <= t
                BY <2>2, <2>4, <3>2, <4>1
            <4> QED BY <4>1, <3>2
        <3>3. ASSUME NEW i \in 1..Len(s), s[i] = j, ~(i <= t)
              PROVE  \E l \in DOMAIN order' : order'[l] = j
            <4>1. i - t \in 1..Len(s) - t /\ t + (i - t) = i
                BY <3>3, <2>2, <2>4
            <4> QED BY <4>1, <3>3, <2>5
        <3>4. ASSUME NEW l \in DOMAIN order', order'[l] = j
              PROVE  t + l \in 1..Len(s) /\ s[t + l] = j /\ ~(t + l <= t)
            <4>1. l \in 1..Len(s) - t
                BY <3>4, <2>5
            <4>2. t + l \in 1..Len(s) /\ ~(t + l <= t)
                BY <4>1, <2>2, <2>4, Shifted
            <4> QED BY <4>1, <4>2, <3>4, <2>5
        <3>5. (\E i \in 1..Len(s) : s[i] = j) <=> data[j] # Nothing \/ j = k
            BY <2>1, <2>4
        <3> QED BY <3>1, <3>2, <3>3, <3>4, <3>5
    <2>8. {j \in Keys : data'[j] # Nothing} = {order'[i] : i \in DOMAIN order'}
        BY <2>5, <2>7
    <2>9. data' \in [Keys -> Entries \cup {Nothing}] /\ last' \in [Keys -> Entries \cup {Nothing}]
        BY <1>1, <2>2, <2>3
    <2>10. usedSince' \in [Keys -> SUBSET Keys]
        BY <1>1, <2>2 DEF UsedNow
    <2> QED BY <1>1, <2>2, <2>5, <2>6, <2>8, <2>9, <2>10 DEF TypeOK
<1>7. ASSUME NEW k \in Keys, Stale(k)
      PROVE  TypeOK'
    BY <1>1, <1>4, <1>7 DEF Stale
<1>8. ASSUME NEW k \in Keys, Delete(k)
      PROVE  TypeOK'
    <2>1. last' \in [Keys -> Entries \cup {Nothing}]
        BY <1>1, <1>8 DEF Delete
    <2> QED BY <1>1, <1>4, <1>8, <2>1 DEF Delete
<1>9. CASE UNCHANGED vars
    BY <1>1, <1>9 DEF vars, TypeOK
<1> QED BY <1>2, <1>3, <1>5, <1>6, <1>7, <1>8, <1>9 DEF Next

(* What is held is what was last set, and stays so.                        *)
LEMMA LastStep == TypeOK /\ LastInv /\ [Next]_vars => LastInv'
<1> SUFFICES ASSUME TypeOK, LastInv, [Next]_vars PROVE LastInv'
    OBVIOUS
<1> USE DEF LastInv
<1>1. data \in [Keys -> Entries \cup {Nothing}] /\ last \in [Keys -> Entries \cup {Nothing}]
    BY DEF TypeOK
<1>2. CASE Tick
    BY <1>2 DEF Tick
<1>3. ASSUME NEW k \in Keys, Miss(k) \/ Stale(k) \/ Hit(k) \/ Delete(k)
      PROVE  LastInv'
    BY <1>1, <1>3 DEF Miss, Stale, Hit, Delete
<1>4. ASSUME NEW k \in Keys, NEW v \in Values, NEW life \in Lifetimes \cup {Forever},
             Set(k, v, life)
      PROVE  LastInv'
    <2>1. PICK n \in Nat, t \in Nat : SetParts(k, v, life, n, t)
        BY <1>4, SetShape
    <2> QED BY <1>1, <2>1 DEF SetParts
<1>5. CASE UNCHANGED vars
    BY <1>5 DEF vars
<1> QED BY <1>2, <1>3, <1>4, <1>5 DEF Next

(* The order stays the order in which the keys were last used.             *)
LEMMA AgeStep == TypeOK /\ AgeInv /\ [Next]_vars => AgeInv'
<1> SUFFICES ASSUME TypeOK, AgeInv, [Next]_vars PROVE AgeInv'
    OBVIOUS
<1>1. CASE UNCHANGED <<order, usedSince>>
    BY <1>1 DEF AgeInv, ByAge
<1>2. ASSUME NEW k \in Keys, Stale(k) \/ Delete(k)
      PROVE  AgeInv'
    <2>1. order' = Without(k) /\ usedSince' = usedSince
        BY <1>2 DEF Stale, Delete
    <2>2. ByAge(Without(k), usedSince)
        BY WithoutFacts
    <2> QED BY <2>1, <2>2 DEF AgeInv, ByAge
<1>3. ASSUME NEW k \in Keys, Hit(k)
      PROVE  AgeInv'
    <2>1. order' = Touched(k) /\ usedSince' = UsedNow(k)
        BY <1>3 DEF Hit, Use, UsedNow
    <2>2. ByAge(Touched(k), UsedNow(k))
        BY TouchedFacts
    <2> QED BY <2>1, <2>2 DEF AgeInv, ByAge
<1>4. ASSUME NEW k \in Keys, NEW v \in Values, NEW life \in Lifetimes \cup {Forever},
             Set(k, v, life)
      PROVE  AgeInv'
    <2> DEFINE s == Touched(k)
    <2>1. s \in Seq(Keys) /\ ByAge(s, UsedNow(k))
        BY TouchedFacts
    <2> HIDE DEF s
    <2>2. PICK n \in Nat, t \in Nat : SetParts(k, v, life, n, t)
        BY <1>4, SetShape
    <2>3. t < Len(s) /\ order' = SubSeq(s, t + 1, Len(s)) /\ usedSince' = UsedNow(k)
        BY <2>2 DEF SetParts, s
    <2>4. /\ DOMAIN order' = 1..Len(s) - t
          /\ \A i \in 1..Len(s) - t : order'[i] = s[t + i]
        BY <2>1, <2>3, CutSeq
    <2>5. Len(s) \in Nat /\ DOMAIN s = 1..Len(s)
        BY <2>1
    <2>6. ASSUME NEW i \in 1..Len(s) - t, NEW j \in 1..Len(s) - t, i < j
          PROVE  order'[j] \in usedSince'[order'[i]]
        <3>1. t + i \in 1..Len(s) /\ t + j \in 1..Len(s)
            BY <2>3, <2>5, Shifted
        <3>2. t + i < t + j
            BY <2>5, <2>6
        <3>3. s[t + j] \in UsedNow(k)[s[t + i]]
            BY <2>1, <2>5, <3>1, <3>2 DEF ByAge
        <3> QED BY <3>3, <2>3, <2>4
    <2> QED BY <2>4, <2>6 DEF AgeInv, ByAge
<1> QED BY <1>1, <1>2, <1>3, <1>4 DEF Next, Tick, Miss, vars

(* Being used again by others only adds to usedSince.                      *)
LEMMA CountsGrow ==
    ASSUME TypeOK, NEW k \in Keys, NEW j \in Keys, j # k
    PROVE  /\ Cardinality(usedSince[j]) \in Nat /\ Cardinality(UsedNow(k)[j]) \in Nat
           /\ Cardinality(usedSince[j]) <= Cardinality(UsedNow(k)[j])
<1>1. UsedNow(k)[j] = usedSince[j] \cup {k} /\ usedSince[j] \subseteq Keys
    BY DEF UsedNow, TypeOK
<1>2. IsFiniteSet(UsedNow(k)[j]) /\ IsFiniteSet(usedSince[j])
    BY <1>1, FS_Subset, CacheAssumption
<1>3. usedSince[j] \in SUBSET UsedNow(k)[j]
    BY <1>1
<1> QED BY <1>2, <1>3, FS_Subset, FS_CardinalityType

(* The keys behind place i of the order were all used after the key there. *)
LEMMA ManyBehind ==
    ASSUME TypeOK, AgeInv, NEW k \in Keys, NEW i \in 1..Len(Touched(k)),
           i <= Len(Touched(k)) - Capacity
    PROVE  Cardinality(UsedNow(k)[Touched(k)[i]]) >= Capacity
<1> DEFINE s == Touched(k)
           m == Len(s)
           behind == i + 1..m
           f == [l \in behind |-> s[l]]
           used == UsedNow(k)[s[i]]
<1>1. s \in Seq(Keys) /\ OneEach(s) /\ ByAge(s, UsedNow(k))
    BY TouchedFacts
<1>2. m \in Nat /\ DOMAIN s = 1..m /\ s[i] \in Keys
    BY <1>1
<1>3. i <= m - Capacity /\ i \in 1..m
    OBVIOUS
<1> HIDE DEF s, m
<1>4. behind \subseteq 1..m /\ \A l \in behind : i < l
    BY <1>2, <1>3
<1>5. IsFiniteSet(used)
    <2>1. used \subseteq Keys
        BY <1>2 DEF UsedNow, TypeOK
    <2> QED BY <2>1, FS_Subset, CacheAssumption
<1>6. \A l \in behind : s[l] \in used
    BY <1>1, <1>2, <1>3, <1>4 DEF ByAge
<1>7. f \in Injection(behind, used)
    <2>1. f \in [behind -> used]
        BY <1>6
    <2>2. \A l, r \in behind : f[l] = f[r] => l = r
        BY <1>1, <1>2, <1>4 DEF OneEach
    <2> QED BY <2>1, <2>2 DEF Injection, IsInjective
<1>8. Cardinality(behind) = m - i
    <2>1. Cardinality(behind) = IF i + 1 > m THEN 0 ELSE m - (i + 1) + 1
        BY <1>2, <1>3, FS_Interval
    <2> QED BY <2>1, <1>2, <1>3, CacheAssumption
<1>9. Cardinality(behind) <= Cardinality(used) /\ Cardinality(used) \in Nat
    BY <1>5, <1>7, FS_Injection, FS_CardinalityType
<1>10. Cardinality(used) >= Capacity
    BY <1>2, <1>3, <1>8, <1>9, CacheAssumption
<1> QED BY <1>10 DEF s

(* An entry goes early only when the order behind it fills the cache.      *)
LEMMA KeptStep == IInv /\ [Next]_vars => RecentlyUsedIsKept'
<1> SUFFICES ASSUME TypeOK, LastInv, AgeInv, RecentlyUsedIsKept, [Next]_vars,
                    NEW j \in Keys,
                    last'[j] # Nothing, data'[j] = Nothing,
                    last'[j].deadline = Forever \/ ~(last'[j].deadline < now')
             PROVE  Cardinality(usedSince'[j]) >= Capacity
    BY DEF IInv, RecentlyUsedIsKept, Expired
<1>1. /\ now \in Nat
      /\ data \in [Keys -> Entries \cup {Nothing}]
      /\ last \in [Keys -> Entries \cup {Nothing}]
      /\ usedSince \in [Keys -> SUBSET Keys]
      /\ Cardinality(usedSince[j]) \in Nat
    BY FS_Subset, FS_CardinalityType, CacheAssumption DEF TypeOK
<1>2. ASSUME last'[j] = last[j], data[j] = Nothing, now' \in Nat, now <= now'
      PROVE  Cardinality(usedSince[j]) >= Capacity
    BY <1>1, <1>2 DEF RecentlyUsedIsKept, Expired, Entries, Deadlines
<1>3. CASE Tick
    BY <1>1, <1>2, <1>3 DEF Tick
<1>4. ASSUME NEW k \in Keys, Miss(k)
      PROVE  Cardinality(usedSince'[j]) >= Capacity
    BY <1>1, <1>2, <1>4 DEF Miss
<1>5. ASSUME NEW k \in Keys, Stale(k)
      PROVE  Cardinality(usedSince'[j]) >= Capacity
    <2>1. last' = last /\ usedSince' = usedSince /\ now' = now
        BY <1>5 DEF Stale
    <2>2. j # k
        BY <1>5, <2>1 DEF Stale, LastInv, Expired
    <2>3. data[j] = Nothing
        BY <1>1, <1>5, <2>2 DEF Stale
    <2> QED BY <1>1, <1>2, <2>1, <2>3
<1>6. ASSUME NEW k \in Keys, Delete(k)
      PROVE  Cardinality(usedSince'[j]) >= Capacity
    <2>1. j # k /\ usedSince' = usedSince /\ now' = now
        BY <1>1, <1>6 DEF Delete
    <2>2. data[j] = Nothing /\ last'[j] = last[j]
        BY <1>1, <1>6, <2>1 DEF Delete
    <2> QED BY <1>1, <1>2, <2>1, <2>2
<1>7. ASSUME NEW k \in Keys, Hit(k)
      PROVE  Cardinality(usedSince'[j]) >= Capacity
    <2>1. j # k /\ data[j] = Nothing /\ last' = last /\ now' = now
        BY <1>7 DEF Hit
    <2>2. usedSince' = UsedNow(k)
        BY <1>7 DEF Hit, Use, UsedNow
    <2>3. Cardinality(usedSince[j]) >= Capacity
        BY <1>1, <1>2, <2>1
    <2> QED BY <2>1, <2>2, <2>3, CountsGrow, CacheAssumption
<1>8. ASSUME NEW k \in Keys, NEW v \in Values, NEW life \in Lifetimes \cup {Forever},
             Set(k, v, life)
      PROVE  Cardinality(usedSince'[j]) >= Capacity
    <2> DEFINE s == Touched(k)
    <2>1. /\ s \in Seq(Keys) /\ OneEach(s) /\ s[Len(s)] = k
          /\ \A l \in Keys : (\E i \in DOMAIN s : s[i] = l) <=> data[l] # Nothing \/ l = k
        BY TouchedFacts
    <2>2. PICK n \in Nat, t \in Nat : SetParts(k, v, life, n, t)
        BY <1>8, SetShape
    <2>3. /\ n <= t /\ t < Len(s) /\ t \in {n, Len(s) - Capacity}
          /\ \A i \in 1..n : data[s[i]] # Nothing /\ Expired(data[s[i]])
          /\ data' = [l \in Keys |->
                IF \E i \in 1..t : s[i] = l THEN Nothing
                ELSE IF l = k THEN Entry(v, life) ELSE data[l]]
          /\ last' = [last EXCEPT ![k] = Entry(v, life)]
          /\ usedSince' = UsedNow(k) /\ now' = now
        BY <2>2 DEF SetParts
    <2>4. \A i \in 1..Len(s) : i <= Len(s) - Capacity =>
            Cardinality(UsedNow(k)[s[i]]) >= Capacity
        BY ManyBehind
    <2> HIDE DEF s
    <2>5. Len(s) \in Nat /\ DOMAIN s = 1..Len(s)
        BY <2>1
    <2>6. \A i \in 1..t : i \in 1..Len(s) /\ i # Len(s) /\ Len(s) \in 1..Len(s)
        BY <2>3, <2>5
    <2>7. j # k
        <3> SUFFICES ASSUME j = k PROVE FALSE
            OBVIOUS
        <3>1. \A i \in 1..t : s[i] # k
            BY <2>1, <2>5, <2>6 DEF OneEach
        <3>2. data'[k] = Entry(v, life)
            BY <2>3, <3>1
        <3> QED BY <1>1, <3>2, EntryTypes, NothingIsNoEntry
    <2>8. last'[j] = last[j] /\ ~Expired(last[j])
        BY <1>1, <2>3, <2>7 DEF Expired
    <2>9. CASE data[j] = Nothing
        <3>1. Cardinality(usedSince[j]) >= Capacity
            BY <1>1, <1>2, <2>3, <2>8, <2>9
        <3> QED BY <2>3, <2>7, <3>1, CountsGrow, CacheAssumption
    <2>10. CASE data[j] # Nothing
        <3>1. PICK i \in 1..t : s[i] = j
            BY <2>3, <2>7, <2>10
        <3>2. ~(i <= n)
            <4> SUFFICES ASSUME i <= n PROVE FALSE
                OBVIOUS
            <4>1. Expired(data[j])
                BY <2>3, <3>1
            <4> QED BY <4>1, <2>8, <2>10 DEF LastInv
        <3>3. t = Len(s) - Capacity /\ i <= t
            BY <2>3, <3>1, <3>2
        <3> QED BY <2>3, <2>4, <2>6, <3>1, <3>3
    <2> QED BY <2>9, <2>10
<1>9. CASE UNCHANGED vars
    BY <1>1, <1>2, <1>9 DEF vars
<1> QED BY <1>3, <1>4, <1>5, <1>6, <1>7, <1>8, <1>9 DEF Next

(* The inductive invariant always holds.                                   *)
LEMMA AlwaysIInv == Spec => []IInv
<1>1. IInv /\ [Next]_vars => IInv'
    BY TypeStep, LastStep, AgeStep, KeptStep DEF IInv
<1> QED BY <1>1, CacheInit, PTL DEF Spec

-----------------------------------------------------------------------------
(* The types, and with them that the order lists every key held once and   *)
(* that the cache never holds more than its capacity between operations.   *)
THEOREM CacheTypes == Spec => []TypeOK
<1>1. IInv => TypeOK
    BY DEF IInv
<1> QED BY <1>1, AlwaysIInv, PTL

(* A key that was forgotten before its time was not among the Capacity     *)
(* keys used last, whatever the expiry sweep took from the front.          *)
THEOREM CacheKeepsRecent == Spec => []RecentlyUsedIsKept
<1>1. IInv => RecentlyUsedIsKept
    BY DEF IInv
<1> QED BY <1>1, AlwaysIInv, PTL

(* The cache is a lossy one, as its users take it: set is a Put, a get     *)
(* that finds is a Hit, one that does not is a Miss, delete is a Remove.   *)
THEOREM CacheIsLossy == Spec => ImplementsLossyCache
<1>1. Init => Lossy!Init
    BY DEF Init, Lossy!Init
<1>2. IInv /\ [Next]_vars => [Lossy!Next]_(Lossy!lossyVars)
    <2> SUFFICES ASSUME IInv, [Next]_vars PROVE [Lossy!Next]_(Lossy!lossyVars)
        OBVIOUS
    <2>1. CASE Tick
        BY <2>1 DEF Tick, Lossy!Next, Lossy!Tick
    <2>2. ASSUME NEW k \in Keys, Miss(k) \/ Stale(k)
          PROVE  Lossy!Next
        <3>1. Lossy!Miss(k)
            BY <2>2 DEF Miss, Stale, Lossy!Miss
        <3> QED BY <3>1 DEF Lossy!Next
    <2>3. ASSUME NEW k \in Keys, Hit(k)
          PROVE  Lossy!Next
        <3>1. data[k] = last[k]
            BY <2>3 DEF Hit, IInv, LastInv
        <3>2. Lossy!Hit(k)
            BY <2>3, <3>1 DEF Hit, Expired, Lossy!Hit, Lossy!Expired
        <3> QED BY <3>2 DEF Lossy!Next
    <2>4. ASSUME NEW k \in Keys, Delete(k)
          PROVE  Lossy!Next
        <3>1. Lossy!Remove(k)
            BY <2>4 DEF Delete, Lossy!Remove
        <3> QED BY <3>1 DEF Lossy!Next
    <2>5. ASSUME NEW k \in Keys, NEW v \in Values, NEW life \in Lifetimes \cup {Forever},
                 Set(k, v, life)
          PROVE  Lossy!Next
        <3>1. Lossy!Put(k, v, life)
            BY <2>5 DEF Set, Entry, Lossy!Put, Lossy!Entry
        <3> QED BY <3>1 DEF Lossy!Next
    <2>6. CASE UNCHANGED vars
        BY <2>6 DEF vars, Lossy!lossyVars
    <2> QED BY <2>1, <2>2, <2>3, <2>4, <2>5, <2>6 DEF Next
<1> QED BY <1>1, <1>2, AlwaysIInv, PTL DEF Spec, ImplementsLossyCache, Lossy!Spec
=============================================================================
