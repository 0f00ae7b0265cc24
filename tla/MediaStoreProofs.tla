-------------------------- MODULE MediaStoreProofs --------------------------
(***************************************************************************)
(* The invariants of MediaStore, for any number of workers, files and      *)
(* days.  Neither property is inductive: RowsHaveObjects needs to know     *)
(* what a worker has uploaded by the time it may insert (UploadsInv), and  *)
(* ReturnedIsStored that only a worker that is done holds a row            *)
(* (ReturnInv); both rest on objects and rows never being taken back.      *)
(***************************************************************************)
EXTENDS MediaStore, TLAPS

(* The object of a file is there once its upload is over, and both objects *)
(* of an image before the row is looked for again.                         *)
UploadsInv ==
    \A w \in Workers :
        /\ at[w] = "put_thumb" => FullKey(file[w], when[w]) \in objects
        /\ at[w] \in {"select", "insert"} => KeysOf(file[w], <<w, when[w]>>) \subseteq objects

ReturnInv ==
    \A w \in Workers : media[w] # NoMedia => at[w] = "done" /\ media[w] = rows[file[w]]

IInv == TypeOK /\ UploadsInv /\ RowsHaveObjects /\ ReturnInv

(* What one worker does in one step.                                       *)
Work(w) ==
    \/ \E f \in Files : Begin(w, f)
    \/ Download(w) \/ Known(w) \/ Unknown(w) \/ PutFull(w) \/ PutThumb(w)
    \/ Existing(w) \/ Absent(w) \/ Insert(w) \/ GiveUp(w)

-----------------------------------------------------------------------------
(* With no worker at work the invariant holds.                             *)
LEMMA StoreInit == Init => IInv
<1> SUFFICES ASSUME Init PROVE IInv
    OBVIOUS
<1>1. TypeOK
    BY DEF Init, TypeOK
<1>2. UploadsInv
    BY DEF Init, UploadsInv
<1>3. RowsHaveObjects
    BY DEF Init, RowsHaveObjects
<1>4. ReturnInv
    BY DEF Init, ReturnInv
<1> QED BY <1>1, <1>2, <1>3, <1>4 DEF IInv

(* A step is the clock's, a restart, or one worker's.                      *)
LEMMA NextIsWork == Next => Midnight \/ Restart \/ \E w \in Workers : Work(w)
BY DEF Next, Work

(* The tables only grow, and a row is made of the keys its maker took.     *)
LEMMA TablesGrow ==
    ASSUME TypeOK, NEW w \in Workers, Work(w)
    PROVE  /\ objects \subseteq objects'
           /\ \A f \in Files : rows[f] # NoMedia => rows'[f] = rows[f]
           /\ \A f \in Files : rows'[f] # rows[f] =>
                at[w] = "insert" /\ f = file[w] /\ rows'[f] = <<w, when[w]>>
<1> USE DEF TypeOK
<1>1. CASE Insert(w)
    BY <1>1 DEF Insert
<1>2. CASE PutFull(w) \/ PutThumb(w)
    BY <1>2 DEF PutFull, PutThumb, Put
<1>3. CASE UNCHANGED <<objects, rows>>
    BY <1>3
<1> QED BY <1>1, <1>2, <1>3 DEF Work, Begin, Download, Known, Unknown, Existing, Absent, GiveUp

(* A worker leaves what belongs to the others alone.                       *)
LEMMA OthersAreKept ==
    ASSUME TypeOK, NEW w \in Workers, Work(w), NEW v \in Workers \ {w}
    PROVE  at'[v] = at[v] /\ file'[v] = file[v] /\ when'[v] = when[v] /\ media'[v] = media[v]
BY DEF TypeOK, Work, Begin, Download, Known, Unknown, PutFull, PutThumb, Put, Existing, Absent,
       Insert, GiveUp, GoTo, Return

-----------------------------------------------------------------------------
(* No step breaks the types.                                               *)
LEMMA TypeStep == TypeOK /\ [Next]_vars => TypeOK'
<1> SUFFICES ASSUME TypeOK, [Next]_vars PROVE TypeOK'
    OBVIOUS
<1> USE MediaAssumption DEF TypeOK, Busy, MediaRows
<1>1. CASE Midnight
    BY <1>1 DEF Midnight
<1>2. CASE Restart
    BY <1>2 DEF Restart
<1>3. ASSUME NEW w \in Workers, Work(w)
      PROVE  TypeOK'
    <2>1. CASE \E f \in Files : Begin(w, f)
        BY <2>1 DEF Begin, GoTo
    <2>2. CASE Download(w)
        BY <2>2 DEF Download, GoTo
    <2>3. CASE Known(w)
        BY <2>3 DEF Known, Return, GoTo
    <2>4. CASE Unknown(w)
        BY <2>4 DEF Unknown, GoTo
    <2>5. CASE PutFull(w)
        BY <2>5 DEF PutFull, Put, GoTo, FullKey
    <2>6. CASE PutThumb(w)
        BY <2>6 DEF PutThumb, Put, GoTo, ThumbKey
    <2>7. CASE Existing(w)
        BY <2>7 DEF Existing, Return, GoTo
    <2>8. CASE Absent(w)
        BY <2>8 DEF Absent, GoTo
    <2>9. CASE Insert(w)
        BY <2>9 DEF Insert, Return, GoTo
    <2>10. CASE GiveUp(w)
        BY <2>10 DEF GiveUp, Return, GoTo
    <2> QED BY <1>3, <2>1, <2>2, <2>3, <2>4, <2>5, <2>6, <2>7, <2>8, <2>9, <2>10 DEF Work
<1>4. CASE UNCHANGED vars
    BY <1>4 DEF vars
<1> QED BY <1>1, <1>2, <1>3, <1>4, NextIsWork

(* What a worker has uploaded is there when it comes to write its row.     *)
LEMMA UploadsStep == IInv /\ [Next]_vars => UploadsInv'
<1> SUFFICES ASSUME IInv, [Next]_vars PROVE UploadsInv'
    OBVIOUS
<1> USE DEF IInv, UploadsInv
<1>1. CASE Midnight
    BY <1>1 DEF Midnight
<1>2. CASE Restart
    BY <1>2 DEF Restart
<1>3. ASSUME NEW w \in Workers, Work(w), NEW v \in Workers
      PROVE  /\ at'[v] = "put_thumb" => FullKey(file'[v], when'[v]) \in objects'
             /\ at'[v] \in {"select", "insert"} =>
                    KeysOf(file'[v], <<v, when'[v]>>) \subseteq objects'
    <2>1. CASE v # w
        BY <1>3, <2>1, TablesGrow, OthersAreKept
    <2>2. CASE v = w /\ PutFull(w)
        BY <2>2 DEF TypeOK, PutFull, Put, GoTo, KeysOf
    <2>3. CASE v = w /\ PutThumb(w)
        BY <2>3 DEF TypeOK, PutThumb, Put, GoTo, KeysOf
    <2>4. CASE v = w /\ Absent(w)
        BY <2>4 DEF TypeOK, Absent, GoTo
    <2>5. CASE v = w /\ at'[w] \in {"download", "lookup", "put", "done"}
        BY <2>5
    <2> QED
        BY <1>3, <2>1, <2>2, <2>3, <2>4, <2>5
        DEF TypeOK, Work, Begin, Download, Known, Unknown, Existing, Insert, GiveUp, GoTo, Return
<1>4. CASE UNCHANGED vars
    BY <1>4 DEF vars
<1> QED BY <1>1, <1>2, <1>3, <1>4, NextIsWork

(* A row is only written for objects that are there.                       *)
LEMMA RowsStep == IInv /\ [Next]_vars => RowsHaveObjects'
<1> SUFFICES ASSUME IInv, [Next]_vars PROVE RowsHaveObjects'
    OBVIOUS
<1> USE DEF IInv, RowsHaveObjects
<1>1. CASE Midnight
    BY <1>1 DEF Midnight
<1>2. CASE Restart
    BY <1>2 DEF Restart
<1>3. ASSUME NEW w \in Workers, Work(w), NEW f \in Files, rows'[f] # NoMedia
      PROVE  KeysOf(f, rows'[f]) \subseteq objects'
    <2>1. CASE rows'[f] = rows[f]
        BY <1>3, <2>1, TablesGrow
    <2>2. CASE rows'[f] # rows[f]
        BY <1>3, <2>2, TablesGrow DEF UploadsInv
    <2> QED BY <2>1, <2>2
<1>4. CASE UNCHANGED vars
    BY <1>4 DEF vars
<1> QED BY <1>1, <1>2, <1>3, <1>4, NextIsWork

(* What a worker returns is the row it found in the table.                 *)
LEMMA ReturnStep == IInv /\ [Next]_vars => ReturnInv'
<1> SUFFICES ASSUME IInv, [Next]_vars PROVE ReturnInv'
    OBVIOUS
<1> USE DEF IInv, ReturnInv
<1>1. CASE Midnight
    BY <1>1 DEF Midnight
<1>2. CASE Restart
    BY <1>2 DEF Restart
<1>3. ASSUME NEW w \in Workers, Work(w), NEW v \in Workers, media'[v] # NoMedia
      PROVE  at'[v] = "done" /\ media'[v] = rows'[file'[v]]
    <2>1. CASE v # w
        BY <1>3, <2>1, TablesGrow, OthersAreKept DEF TypeOK
    <2>2. CASE v = w /\ (Known(w) \/ Existing(w))
        BY <2>2 DEF TypeOK, Known, Existing, Return, GoTo
    <2>3. CASE v = w /\ Insert(w)
        BY <2>3 DEF TypeOK, Insert, Return, GoTo
    <2>4. CASE v = w /\ (GiveUp(w) \/ \E f \in Files : Begin(w, f))
        BY <1>3, <2>4 DEF TypeOK, GiveUp, Begin, Return, GoTo
    <2>5. CASE v = w /\ at[w] # "done" /\ media' = media
        BY <1>3, <2>5
    <2> QED
        BY <1>3, <2>1, <2>2, <2>3, <2>4, <2>5
        DEF TypeOK, Work, Download, Unknown, PutFull, PutThumb, Put, Absent
<1>4. CASE UNCHANGED vars
    BY <1>4 DEF vars
<1> QED BY <1>1, <1>2, <1>3, <1>4, NextIsWork

(* The inductive invariant always holds.                                   *)
LEMMA AlwaysIInv == Spec => []IInv
<1>1. IInv /\ [Next]_vars => IInv'
    BY TypeStep, UploadsStep, RowsStep, ReturnStep DEF IInv
<1> QED BY <1>1, StoreInit, PTL DEF Spec

-----------------------------------------------------------------------------
(* Every variable of the media ingestion has its type, and a worker that   *)
(* is at work has a file.                                                  *)
THEOREM StoreTypes == Spec => []TypeOK
<1>1. IInv => TypeOK
    BY DEF IInv
<1> QED BY <1>1, AlwaysIInv, PTL

(* media_files never points at an object that was not uploaded, whoever    *)
(* won the race for the row and on whichever day it took its keys.         *)
THEOREM StoreIsComplete == Spec => []RowsHaveObjects
<1>1. IInv => RowsHaveObjects
    BY DEF IInv
<1> QED BY <1>1, AlwaysIInv, PTL

(* The row _ingest_media returns is the one of the table, for good.        *)
THEOREM ReturnedIsTheRow == Spec => []ReturnedIsStored
<1>1. IInv => ReturnedIsStored
    BY DEF IInv, ReturnInv, ReturnedIsStored
<1> QED BY <1>1, AlwaysIInv, PTL

(* Objects and rows are for good: a lost race, a failure after the upload  *)
(* and a restart leave every object and every row as they were.            *)
TablesArePermanent ==
    [][/\ objects \subseteq objects'
       /\ \A f \in Files : rows[f] # NoMedia => rows'[f] = rows[f]]_vars

(* So the media_files row an article was linked to, and the object behind  *)
(* it, stay what they were when the link was made.                         *)
THEOREM StoreIsPermanent == Spec => TablesArePermanent
<1>1. ASSUME IInv, [Next]_vars
      PROVE  /\ objects \subseteq objects'
             /\ \A f \in Files : rows[f] # NoMedia => rows'[f] = rows[f]
    <2>1. CASE Midnight \/ Restart \/ UNCHANGED vars
        BY <2>1 DEF Midnight, Restart, vars
    <2>2. CASE \E w \in Workers : Work(w)
        BY <1>1, <2>2, TablesGrow DEF IInv
    <2> QED BY <1>1, <2>1, <2>2, NextIsWork
<1> QED BY <1>1, AlwaysIInv, PTL DEF Spec, TablesArePermanent
=============================================================================
