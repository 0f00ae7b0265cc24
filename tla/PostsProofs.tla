---------------------------- MODULE PostsProofs ----------------------------
(***************************************************************************)
(* The operators of Posts are well defined: the CHOOSE of HeadId and of    *)
(* NewestId finds a member of every batch.                                 *)
(***************************************************************************)
EXTENDS Posts, FiniteSetTheorems, TLAPS

(* A finite set that is not empty has an element nothing lies above, for   *)
(* any strict order R.  (By minimality of the sets of elements above.)     *)
LEMMA FiniteSetHasTop ==
    ASSUME NEW S, IsFiniteSet(S), S # {},
           NEW R,
           \A p, q, r \in S : <<p, q>> \in R /\ <<q, r>> \in R => <<p, r>> \in R,
           \A p \in S : <<p, p>> \notin R
    PROVE  \E p \in S : \A q \in S : <<q, p>> \notin R
<1> DEFINE Above(p) == {q \in S : <<q, p>> \in R}
           Aboves == {Above(p) : p \in S}
<1>1. IsWellFoundedOn(StrictSubsetOrdering(S), SUBSET S)
    BY FS_StrictSubsetOrderingWellFounded, FS_FiniteSubsetsOfFinite
<1>2. Aboves \subseteq SUBSET S /\ Aboves # {}
    <2>1. \A p \in S : Above(p) \subseteq S
        OBVIOUS
    <2> HIDE DEF Above
    <2>2. PICK p \in S : TRUE
        OBVIOUS
    <2>3. Above(p) \in Aboves
        OBVIOUS
    <2>4. QED
        BY <2>1, <2>3
<1> HIDE DEF Aboves
<1>3. PICK U \in Aboves : \A V \in Aboves : <<V, U>> \notin StrictSubsetOrdering(S)
    BY <1>1, <1>2, WFMin
<1>4. PICK p \in S : U = Above(p)
    BY <1>3 DEF Aboves
<1>5. ASSUME NEW q \in S, <<q, p>> \in R
      PROVE  FALSE
    <2>1. Above(q) \subseteq Above(p)
        BY <1>5
    <2>2. q \in Above(p) /\ q \notin Above(q)
        BY <1>5
    <2>3. <<Above(q), U>> \in StrictSubsetOrdering(S)
        BY <1>4, <2>1, <2>2 DEF StrictSubsetOrdering
    <2>4. Above(q) \in Aboves
        BY DEF Aboves
    <2>5. QED
        BY <1>3, <2>3, <2>4
<1>6. QED
    BY <1>5

(* Every batch has a head, and only members can be it.                     *)
LEMMA HeadIsMember == \A b \in Batches : HeadId(b) \in b.ids /\ HeadId(b) \in MsgIds
<1> SUFFICES ASSUME NEW b \in Batches
             PROVE  HeadId(b) \in b.ids /\ HeadId(b) \in MsgIds
    OBVIOUS
<1>1. /\ b.source \in Sources
      /\ b.ids \in SUBSET MsgIds
      /\ b.ids # {}
      /\ IsFiniteSet(b.ids)
    BY BatchesAssumption
<1> DEFINE R == {p \in MsgIds \X MsgIds : Outranks(b.source, p[1], p[2])}
<1>2. \A i, j \in b.ids : <<i, j>> \in R <=> Outranks(b.source, i, j)
    BY <1>1
<1>3. \A i \in b.ids : Content[<<b.source, i>>].len \in Nat /\ i \in Nat
    BY <1>1, PostsAssumption DEF Messages
<1>4. /\ \A i \in b.ids : ~Outranks(b.source, i, i)
      /\ \A i, j, k \in b.ids :
            Outranks(b.source, i, j) /\ Outranks(b.source, j, k) => Outranks(b.source, i, k)
    <2> DEFINE L == [i \in b.ids |-> Content[<<b.source, i>>].len]
    <2>1. \A i \in b.ids : L[i] \in Nat /\ i \in Nat
        BY <1>3
    <2>2. \A i, j \in b.ids :
            Outranks(b.source, i, j) <=> L[i] > L[j] \/ (L[i] = L[j] /\ i < j)
        BY DEF Outranks
    <2> HIDE DEF L
    <2>3. QED
        BY <2>1, <2>2
<1> HIDE DEF R
<1>5. \E h \in b.ids : \A i \in b.ids : <<i, h>> \notin R
    BY <1>1, <1>2, <1>4, FiniteSetHasTop
<1>6. \E h \in b.ids : \A i \in b.ids : ~Outranks(b.source, i, h)
    BY <1>2, <1>5
<1>7. QED
    BY <1>1, <1>6 DEF HeadId

(* Every batch has a newest message.                                       *)
LEMMA NewestIsMember ==
    \A b \in Batches :
        /\ NewestId(b) \in b.ids
        /\ NewestId(b) \in MsgIds
        /\ \A i \in b.ids : i <= NewestId(b)
<1> SUFFICES ASSUME NEW b \in Batches
             PROVE  /\ NewestId(b) \in b.ids
                    /\ NewestId(b) \in MsgIds
                    /\ \A i \in b.ids : i <= NewestId(b)
    OBVIOUS
<1>1. /\ b.ids \in SUBSET MsgIds
      /\ b.ids # {}
      /\ IsFiniteSet(b.ids)
    BY BatchesAssumption
<1>2. \A i \in b.ids : i \in Nat
    BY <1>1, PostsAssumption
<1> DEFINE R == {p \in MsgIds \X MsgIds : p[1] > p[2]}
<1>3. \A i, j \in b.ids : <<i, j>> \in R <=> i > j
    BY <1>1
<1> HIDE DEF R
<1>4. /\ \A i \in b.ids : <<i, i>> \notin R
      /\ \A i, j, k \in b.ids : <<i, j>> \in R /\ <<j, k>> \in R => <<i, k>> \in R
    BY <1>2, <1>3
<1>5. \E n \in b.ids : \A i \in b.ids : <<i, n>> \notin R
    BY <1>1, <1>4, FiniteSetHasTop
<1>6. \E n \in b.ids : \A i \in b.ids : i <= n
    <2>1. PICK n \in b.ids : \A i \in b.ids : ~(i > n)
        BY <1>3, <1>5
    <2>2. \A i \in b.ids : i <= n
        BY <1>2, <2>1
    <2>3. QED
        BY <2>2
<1>7. QED
    BY <1>1, <1>6 DEF NewestId

(* The source of a batch, its key and its hash are of the right type.      *)
LEMMA PostTypes ==
    \A b \in Batches :
        /\ b.source \in Sources
        /\ Key(b) \in Messages
        /\ TextOf(b) \in Texts \cup {NoText}
        /\ ContentHash(b) \in Hashes
<1> SUFFICES ASSUME NEW b \in Batches
             PROVE  /\ b.source \in Sources
                    /\ Key(b) \in Messages
                    /\ TextOf(b) \in Texts \cup {NoText}
                    /\ ContentHash(b) \in Hashes
    OBVIOUS
<1>1. b.source \in Sources
    BY BatchesAssumption
<1>2. HeadId(b) \in MsgIds
    BY HeadIsMember
<1>3. TextOf(b) \in Texts \cup {NoText}
    BY <1>1, <1>2, PostsAssumption DEF TextOf, Key, Messages
<1>4. QED
    BY <1>1, <1>2, <1>3 DEF Key, Messages, ContentHash, Hashes, HasText
=============================================================================
