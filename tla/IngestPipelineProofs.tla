------------------------ MODULE IngestPipelineProofs ------------------------
(***************************************************************************)
(* The invariants of IngestPipeline, and that it implements DedupLedger,   *)
(* for any sources, posts, number of tasks and number of permits.          *)
(*                                                                         *)
(* The argument has two layers.  SchedulingInv is inductive by itself: it  *)
(* ties the permits and the queue of the semaphore to the program counters *)
(* and looks at no table.  DataInv is inductive given TypeOK: it says what *)
(* a task has established by the time it is where it is (TaskInv), and     *)
(* rests on one fact about every step, that rows are never taken back.     *)
(***************************************************************************)
EXTENDS IngestPipeline, PostsProofs, SequenceTheorems

(* Only posts with a text are put in the cache after their insert.         *)
MarksTexts == \A t \in Tasks : pc[t] = "mark" => HasText(batch[t])

(* What Admit relies on: the head of the queue is a task that waits.  The  *)
(* queue is that of asyncio.Semaphore; this is a step of the proof.        *)
QueueIsExact ==
    /\ {t \in Tasks : pc[t] = "queued"} = {waiting[i] : i \in DOMAIN waiting}
    /\ \A i, j \in DOMAIN waiting : waiting[i] = waiting[j] => i = j

SchedulingInv == TypeOK /\ PermitsConserved /\ QueueIsExact /\ MarksTexts

-----------------------------------------------------------------------------
(* Every step of a running task moves it on or ends it, and leaves the     *)
(* queue and the posts alone.                                              *)
LEMMA StepShape ==
    ASSUME NEW t \in Tasks, Step(t) \/ Fail(t)
    PROVE  /\ pc[t] \in Active
           /\ \/ \E p \in Active : GoTo(t, p)
              \/ \E o \in Ended : End(t, o)
    BY DEF Step, SkipEmpty, BumpEmpty, KnownMessage, NewMessage, CheckCache, KnownText,
           NewText, Bump, Insert, RaceLost, Rejected, Mark, Summarize, Fail, Active, Ended

(* The tables and the cache keep their types.                              *)
LEMMA DataTypes ==
    ASSUME TypeOK, MarksTexts, [Next]_vars
    PROVE  /\ row' \in [Messages -> Hashes \cup {NoRow}]
           /\ lastId' \in [Sources -> MsgIds \cup {0}]
           /\ seen' \subseteq Texts
<1> USE DEF TypeOK
<1>1. \A b \in Batches, i \in MsgIds :
        Forward(b.source, i) \in [Sources -> MsgIds \cup {0}]
    BY DEF Forward
<1>2. ASSUME NEW t \in Tasks, Step(t) \/ Fail(t)
      PROVE  /\ row' \in [Messages -> Hashes \cup {NoRow}]
             /\ lastId' \in [Sources -> MsgIds \cup {0}]
             /\ seen' \subseteq Texts
    <2>1. pc[t] # "idle"
        BY <1>2, StepShape DEF Active
    <2>2. batch[t] \in Batches
        BY <2>1
    <2>3. /\ Key(batch[t]) \in Messages
          /\ ContentHash(batch[t]) \in Hashes
          /\ HasText(batch[t]) => TextOf(batch[t]) \in Texts
        BY <2>2, PostTypes DEF HasText
    <2>4. /\ HeadId(batch[t]) \in MsgIds
          /\ NewestId(batch[t]) \in MsgIds
        BY <2>2, HeadIsMember, NewestIsMember
    <2>5. CASE UNCHANGED <<row, lastId, seen>>
        BY <2>5
    <2>6. CASE BumpEmpty(t) \/ KnownMessage(t) \/ Bump(t)
        BY <2>6, <1>1, <2>2, <2>4 DEF BumpEmpty, KnownMessage, Bump
    <2>7. CASE KnownText(t)
        BY <2>7, <2>3 DEF KnownText
    <2>8. CASE Insert(t)
        BY <2>8, <1>1, <2>2, <2>3, <2>4 DEF Insert
    <2>9. CASE Mark(t)
        BY <2>3, <2>9 DEF Mark, MarksTexts
    <2>10. QED
        BY <1>2, <2>5, <2>6, <2>7, <2>8, <2>9
        DEF Step, SkipEmpty, NewMessage, CheckCache, NewText, RaceLost, Rejected,
            Summarize, Fail
<1>3. CASE UNCHANGED vars
    BY <1>3 DEF vars
<1>4. CASE \E t \in Tasks, b \in Batches : Submit(t, b)
    BY <1>4 DEF Submit
<1>5. CASE \E t \in Tasks : Admit(t)
    BY <1>5 DEF Admit
<1>6. CASE \E x \in Texts : Evict(x)
    BY <1>6 DEF Evict
<1>7. CASE Restart
    BY <1>7 DEF Restart
<1>8. QED
    BY <1>2, <1>3, <1>4, <1>5, <1>6, <1>7 DEF Next

(* The permits: a step that moves a task on keeps its permit, one that     *)
(* ends it gives the permit back, Admit takes one.                         *)
LEMMA PermitsStep ==
    ASSUME TypeOK, PermitsConserved, QueueIsExact, [Next]_vars
    PROVE  PermitsConserved' /\ permits' \in 0..Concurrency
<1> USE DEF TypeOK, PermitsConserved
<1>1. /\ IsFiniteSet(Holders) /\ Cardinality(Holders) \in Nat
      /\ IsFiniteSet(Holders') /\ Cardinality(Holders') \in Nat
    <2>1. Holders \in SUBSET Tasks /\ Holders' \in SUBSET Tasks
        BY DEF Holders
    <2>2. QED
        BY <2>1, PipelineAssumption, FS_Subset, FS_CardinalityType
<1>2. ASSUME NEW t \in Tasks, pc[t] \in Active, NEW p \in Active, GoTo(t, p)
      PROVE  PermitsConserved' /\ permits' \in 0..Concurrency
    <2>1. Holders' = Holders
        BY <1>2 DEF Holders, GoTo
    <2>2. QED
        BY <1>2, <2>1 DEF GoTo
<1>3. ASSUME NEW t \in Tasks, pc[t] \in Active, NEW o \in Ended, End(t, o)
      PROVE  PermitsConserved' /\ permits' \in 0..Concurrency
    <2>1. t \in Holders /\ Holders' = Holders \ {t}
        BY <1>3 DEF Holders, End, Active, Ended
    <2>2. Cardinality(Holders') = Cardinality(Holders) - 1
        BY <1>1, <2>1, FS_RemoveElement
    <2>3. QED
        BY <1>1, <1>3, <2>2, PipelineAssumption DEF End
<1>4. ASSUME NEW t \in Tasks, Admit(t)
      PROVE  PermitsConserved' /\ permits' \in 0..Concurrency
    <2>1. pc[t] = "queued"
        <3>1. 1 \in DOMAIN waiting
            BY <1>4 DEF Admit
        <3>2. QED
            BY <1>4, <3>1 DEF Admit, QueueIsExact
    <2>2. t \notin Holders /\ Holders' = Holders \cup {t}
        BY <1>4, <2>1 DEF Holders, Admit, Active
    <2>3. Cardinality(Holders') = Cardinality(Holders) + 1
        BY <1>1, <2>2, FS_AddElement
    <2>4. QED
        BY <1>1, <1>4, <2>3, PipelineAssumption DEF Admit
<1>5. ASSUME NEW t \in Tasks, NEW b \in Batches, Submit(t, b)
      PROVE  PermitsConserved' /\ permits' \in 0..Concurrency
    <2>1. Holders' = Holders
        BY <1>5 DEF Holders, Submit, Active, Ended
    <2>2. QED
        BY <1>5, <2>1 DEF Submit
<1>6. CASE Restart
    <2>1. Holders' = {}
        BY <1>6 DEF Holders, Restart, Active
    <2>2. QED
        BY <1>6, <2>1, FS_EmptySet, PipelineAssumption DEF Restart
<1>7. CASE UNCHANGED <<permits, pc>>
    BY <1>7 DEF Holders
<1>8. QED
    BY <1>2, <1>3, <1>4, <1>5, <1>6, <1>7, StepShape DEF Next, Evict, vars

(* The queue: tasks enter at its end when they are submitted and leave it  *)
(* at its front when they are admitted.                                    *)
LEMMA QueueStep ==
    ASSUME TypeOK, QueueIsExact, [Next]_vars
    PROVE  QueueIsExact' /\ waiting' \in Seq(Tasks)
<1> USE DEF TypeOK, QueueIsExact
<1>1. waiting \in [1..Len(waiting) -> Tasks] /\ Len(waiting) \in Nat
    BY LenProperties
<1>2. ASSUME NEW t \in Tasks, NEW b \in Batches, Submit(t, b)
      PROVE  QueueIsExact' /\ waiting' \in Seq(Tasks)
    <2>1. /\ waiting' = Append(waiting, t)
          /\ pc' = [pc EXCEPT ![t] = "queued"]
          /\ pc[t] # "queued"
        BY <1>2 DEF Submit, Ended
    <2>2. /\ waiting' \in Seq(Tasks)
          /\ DOMAIN waiting' = 1..(Len(waiting) + 1)
          /\ \A i \in 1..Len(waiting) : waiting'[i] = waiting[i]
          /\ waiting'[Len(waiting) + 1] = t
        BY <1>1, <2>1
    <2>3. \A i \in DOMAIN waiting : waiting[i] # t
        BY <2>1
    <2>4. {u \in Tasks : pc'[u] = "queued"} = {u \in Tasks : pc[u] = "queued"} \cup {t}
        BY <2>1
    <2>5. {waiting'[i] : i \in DOMAIN waiting'} = {waiting[i] : i \in DOMAIN waiting} \cup {t}
        <3>1. Len(waiting) + 1 \in DOMAIN waiting'
            BY <1>1, <2>2
        <3>2. \A i \in DOMAIN waiting : i \in DOMAIN waiting' /\ waiting'[i] = waiting[i]
            BY <1>1, <2>2
        <3>3. \A i \in DOMAIN waiting' : i \in DOMAIN waiting \/ i = Len(waiting) + 1
            BY <1>1, <2>2
        <3>4. QED
            BY <2>2, <3>1, <3>2, <3>3
    <2>6. \A i, j \in DOMAIN waiting' : waiting'[i] = waiting'[j] => i = j
        BY <1>1, <2>2, <2>3
    <2>7. QED
        BY <2>2, <2>4, <2>5, <2>6
<1>3. ASSUME NEW t \in Tasks, Admit(t)
      PROVE  QueueIsExact' /\ waiting' \in Seq(Tasks)
    <2>1. /\ waiting # <<>>
          /\ waiting[1] = t
          /\ waiting' = Tail(waiting)
          /\ pc' = [pc EXCEPT ![t] = "start"]
        BY <1>3 DEF Admit
    <2>2. /\ waiting' \in Seq(Tasks)
          /\ DOMAIN waiting = 1..Len(waiting) /\ Len(waiting) > 0
          /\ DOMAIN waiting' = 1..(Len(waiting) - 1)
          /\ \A i \in DOMAIN waiting' : waiting'[i] = waiting[i + 1]
        <3>1. Len(waiting) \in Nat \ {0}
            BY <2>1, EmptySeq
        <3>2. /\ Tail(waiting) \in Seq(Tasks)
              /\ Len(Tail(waiting)) = Len(waiting) - 1
              /\ \A i \in 1..Len(Tail(waiting)) : Tail(waiting)[i] = waiting[i + 1]
            BY <2>1, HeadTailProperties
        <3>3. DOMAIN Tail(waiting) = 1..Len(Tail(waiting))
            BY <3>2, LenProperties
        <3>4. QED
            BY <1>1, <2>1, <3>1, <3>2, <3>3
    <2>3. \A i, j \in DOMAIN waiting' : waiting'[i] = waiting'[j] => i = j
        <3> SUFFICES ASSUME NEW i \in DOMAIN waiting', NEW j \in DOMAIN waiting',
                            waiting'[i] = waiting'[j]
                     PROVE  i = j
            OBVIOUS
        <3>1. /\ i + 1 \in DOMAIN waiting /\ j + 1 \in DOMAIN waiting
              /\ waiting[i + 1] = waiting[j + 1]
            BY <1>1, <2>2
        <3>2. i + 1 = j + 1
            BY <3>1
        <3>3. QED
            BY <1>1, <2>2, <3>2
    <2>4. {waiting'[i] : i \in DOMAIN waiting'} = {waiting[i] : i \in DOMAIN waiting} \ {t}
        <3>1. \A i \in DOMAIN waiting' :
                i + 1 \in DOMAIN waiting /\ waiting[i + 1] # t
            BY <1>1, <2>1, <2>2
        <3>2. \A i \in DOMAIN waiting : waiting[i] # t =>
                i - 1 \in DOMAIN waiting' /\ waiting'[i - 1] = waiting[i]
            BY <1>1, <2>1, <2>2
        <3>3. QED
            BY <2>2, <3>1, <3>2
    <2>5. {u \in Tasks : pc'[u] = "queued"} = {u \in Tasks : pc[u] = "queued"} \ {t}
        BY <2>1
    <2>6. QED
        BY <2>2, <2>3, <2>4, <2>5
<1>4. ASSUME NEW t \in Tasks, Step(t) \/ Fail(t)
      PROVE  QueueIsExact' /\ waiting' \in Seq(Tasks)
    <2>1. /\ waiting' = waiting
          /\ pc[t] # "queued"
          /\ \E p \in Active \cup Ended : pc' = [pc EXCEPT ![t] = p]
        BY <1>4, StepShape DEF GoTo, End, Active
    <2>2. {u \in Tasks : pc'[u] = "queued"} = {u \in Tasks : pc[u] = "queued"}
        BY <2>1 DEF Active, Ended
    <2>3. QED
        BY <2>1, <2>2
<1>5. CASE Restart
    BY <1>5 DEF Restart
<1>6. CASE UNCHANGED <<waiting, pc>>
    BY <1>6
<1>7. QED
    BY <1>2, <1>3, <1>4, <1>5, <1>6 DEF Next, Evict, vars

LEMMA SchedulingStep ==
    ASSUME SchedulingInv, [Next]_vars
    PROVE  SchedulingInv'
<1> USE DEF SchedulingInv
<1>1. PermitsConserved' /\ permits' \in 0..Concurrency
    BY PermitsStep
<1>2. QueueIsExact' /\ waiting' \in Seq(Tasks)
    BY QueueStep
<1> DEFINE Slots == /\ pc \in [Tasks -> Active \cup Ended \cup {"idle", "queued"}]
                    /\ batch \in [Tasks -> Batches \cup {NoBatch}]
                    /\ \A t \in Tasks : pc[t] # "idle" => batch[t] \in Batches
<1>3. Slots'
    <2> USE DEF TypeOK
    <2>1. ASSUME NEW t \in Tasks, Step(t) \/ Fail(t)
          PROVE  Slots'
        <3>1. /\ batch' = batch
              /\ pc[t] \in Active
              /\ \E p \in Active \cup Ended : pc' = [pc EXCEPT ![t] = p]
            BY <2>1, StepShape DEF GoTo, End
        <3>2. QED
            BY <3>1 DEF Active, Ended
    <2>2. ASSUME NEW t \in Tasks, NEW b \in Batches, Submit(t, b)
          PROVE  Slots'
        BY <2>2 DEF Submit
    <2>3. ASSUME NEW t \in Tasks, Admit(t)
          PROVE  Slots'
        <3>1. 1 \in DOMAIN waiting
            BY <2>3, EmptySeq, LenProperties DEF Admit
        <3>2. pc[t] = "queued"
            BY <2>3, <3>1 DEF QueueIsExact, Admit
        <3>3. QED
            BY <2>3, <3>2 DEF Admit, Active
    <2>4. CASE Restart
        BY <2>4 DEF Restart
    <2>5. CASE UNCHANGED <<pc, batch>>
        BY <2>5
    <2>6. QED
        BY <2>1, <2>2, <2>3, <2>4, <2>5 DEF Next, Evict, vars
<1>4. MarksTexts'
    <2>1. ASSUME NEW t \in Tasks, Insert(t)
          PROVE  MarksTexts'
        BY <2>1 DEF MarksTexts, Insert, GoTo, TypeOK
    <2>2. ASSUME NEW t \in Tasks, Step(t) \/ Fail(t), ~Insert(t)
          PROVE  MarksTexts'
        <3>1. /\ batch' = batch
              /\ \E p \in (Active \cup Ended) \ {"mark"} : pc' = [pc EXCEPT ![t] = p]
            BY <2>2 DEF GoTo, End, Active, Ended, Step, SkipEmpty, BumpEmpty, KnownMessage,
                   NewMessage, CheckCache, KnownText, NewText, Bump, RaceLost, Rejected,
                   Mark, Summarize, Fail
        <3>2. QED
            BY <3>1 DEF MarksTexts, TypeOK
    <2>3. ASSUME NEW t \in Tasks, NEW b \in Batches, Submit(t, b)
          PROVE  MarksTexts'
        BY <2>3 DEF Submit, MarksTexts, TypeOK
    <2>4. ASSUME NEW t \in Tasks, Admit(t)
          PROVE  MarksTexts'
        BY <2>4 DEF Admit, MarksTexts, TypeOK
    <2>5. CASE Restart
        BY <2>5 DEF Restart, MarksTexts
    <2>6. CASE UNCHANGED <<pc, batch>>
        BY <2>6 DEF MarksTexts
    <2>7. QED
        BY <2>1, <2>2, <2>3, <2>4, <2>5, <2>6 DEF Next, Evict, vars
<1>5. QED
    BY <1>1, <1>2, <1>3, <1>4, DataTypes DEF TypeOK

LEMMA SchedulingInit == Init => SchedulingInv
<1> SUFFICES ASSUME Init PROVE SchedulingInv
    OBVIOUS
<1>1. TypeOK
    BY PipelineAssumption, EmptySeq DEF Init, TypeOK
<1>2. Holders = {}
    BY DEF Init, Holders, Active
<1>3. QED
    BY <1>1, <1>2, FS_EmptySet, PipelineAssumption
    DEF Init, SchedulingInv, PermitsConserved, QueueIsExact, MarksTexts

LEMMA AlwaysScheduling == Spec => []SchedulingInv
<1>1. SchedulingInv /\ [Next]_vars => SchedulingInv'
    BY SchedulingStep
<1>2. QED
    BY SchedulingInit, <1>1, PTL DEF Spec

(* Type correctness.                                                       *)
THEOREM TypesSafe == Spec => []TypeOK
<1>1. SchedulingInv => TypeOK
    BY DEF SchedulingInv
<1>2. QED
    BY <1>1, AlwaysScheduling, PTL

(* The semaphore: in every reachable state each permit is free or held by  *)
(* exactly one task inside _process, whatever failed or was lost before.   *)
THEOREM PermitsSafe == Spec => []PermitsConserved
<1>1. SchedulingInv => PermitsConserved
    BY DEF SchedulingInv
<1>2. QED
    BY <1>1, AlwaysScheduling, PTL

-----------------------------------------------------------------------------
(* What a task has established by the time it is where it is.  The rest of *)
(* _process relies on nothing else: the answers of the duplicate checks    *)
(* are allowed to be stale.                                                *)
TaskInv(t) ==
    /\ pc[t] = "skip" => ~HasContent(batch[t])
    /\ pc[t] \in {"cache", "hash", "insert"} => HasContent(batch[t])
    /\ pc[t] = "bump" => HasText(batch[t]) /\ TextStored(TextOf(batch[t]))
    /\ pc[t] = "mark" => HasText(batch[t]) /\ TextStored(TextOf(batch[t]))
    /\ pc[t] = "done" => Settled(batch[t])
    /\ pc[t] \in {"mark", "summarize"} => Settled(batch[t])

DataInv ==
    /\ \A t \in Tasks : TaskInv(t)
    /\ CacheIsTruthful
    /\ ContentStoredOnce
    /\ WatermarkIsSettled

(* The only step that touches the articles is an insert under a free key:  *)
(* what is stored stays stored, and what is settled stays settled.         *)
LEMMA RowsAreKept ==
    ASSUME TypeOK, [Next]_vars
    PROVE  /\ \A k \in Messages : row[k] # NoRow => row'[k] = row[k]
           /\ \A x \in Hashes : TextStored(x) => TextStored(x)'
           /\ \A b \in Batches : Settled(b) => Settled(b)'
<1>1. \A k \in Messages : row[k] # NoRow => row'[k] = row[k]
    <2>1. ASSUME NEW t \in Tasks, Insert(t)
          PROVE  \A k \in Messages : row[k] # NoRow => row'[k] = row[k]
        BY <2>1 DEF Insert, Duplicate, TypeOK
    <2>2. CASE UNCHANGED row
        BY <2>2
    <2>3. QED
        BY <2>1, <2>2
        DEF Next, vars, Submit, Admit, Step, SkipEmpty, BumpEmpty, KnownMessage, NewMessage,
            CheckCache, KnownText, NewText, Bump, RaceLost, Rejected, Mark, Summarize, Fail,
            Evict, Restart
<1>2. \A x \in Hashes : TextStored(x) => TextStored(x)'
    BY <1>1, PipelineAssumption DEF TextStored
<1>3. ASSUME NEW b \in Batches, Settled(b)
      PROVE  Settled(b)'
    <2>1. Duplicate(b) => Duplicate(b)'
        BY <1>1, PostTypes DEF Duplicate
    <2>2. HasText(b) => TextOf(b) \in Hashes
        BY PostTypes DEF HasText, Hashes
    <2>3. QED
        BY <1>2, <1>3, <2>1, <2>2 DEF Settled
<1>4. QED
    BY <1>1, <1>2, <1>3

(* A task that does not move keeps what it has established.                *)
LEMMA TaskIsKept ==
    ASSUME TypeOK, [Next]_vars, NEW u \in Tasks, TaskInv(u),
           pc'[u] = pc[u], batch'[u] = batch[u]
    PROVE  TaskInv(u)'
<1>1. CASE pc[u] = "idle"
    BY <1>1 DEF TaskInv
<1>2. CASE pc[u] # "idle"
    <2>1. batch[u] \in Batches
        BY <1>2 DEF TypeOK
    <2>2. Settled(batch[u]) => Settled(batch[u])'
        <3>1. \A b \in Batches : Settled(b) => Settled(b)'
            BY RowsAreKept
        <3>2. ASSUME NEW b \in Batches, b = batch[u], Settled(b)
              PROVE  Settled(batch[u])'
            BY <3>1, <3>2 DEF Settled, Duplicate, TextStored
        <3>3. QED
            BY <2>1, <3>2
    <2>3. HasText(batch[u]) /\ TextStored(TextOf(batch[u])) => TextStored(TextOf(batch[u]))'
        <3>1. HasText(batch[u]) => TextOf(batch[u]) \in Hashes
            BY <2>1, PostTypes DEF HasText, Hashes
        <3>2. \A x \in Hashes : TextStored(x) => TextStored(x)'
            BY RowsAreKept
        <3>3. QED
            BY <3>1, <3>2 DEF TextStored
    <2>4. QED
        BY <2>2, <2>3 DEF TaskInv
<1>3. QED
    BY <1>1, <1>2

LEMMA TaskStep ==
    ASSUME SchedulingInv, DataInv, [Next]_vars
    PROVE  \A u \in Tasks : TaskInv(u)'
<1> USE DEF SchedulingInv
<1>1. ASSUME NEW t \in Tasks, Step(t) \/ Fail(t)
      PROVE  TaskInv(t)'
    <2>1. /\ pc[t] # "idle"
          /\ \E p \in Active \cup Ended : pc' = [pc EXCEPT ![t] = p]
          /\ batch' = batch
        BY <1>1, StepShape DEF Active, GoTo, End
    <2>2. batch[t] \in Batches /\ batch'[t] = batch[t]
        BY <2>1 DEF TypeOK
    <2>3. TaskInv(t)
        BY DEF DataInv
    <2>4. \A p : pc' = [pc EXCEPT ![t] = p] => pc'[t] = p
        BY DEF TypeOK
    <2>5. CASE Fail(t) \/ Rejected(t)
        BY <2>4, <2>5 DEF Fail, Rejected, End, TaskInv
    <2>6. CASE SkipEmpty(t) \/ NewMessage(t)
        BY <2>2, <2>4, <2>6 DEF SkipEmpty, NewMessage, GoTo, TaskInv
    <2>7. CASE BumpEmpty(t) \/ KnownMessage(t) \/ RaceLost(t) \/ Bump(t) \/ Summarize(t)
        <3>1. pc'[t] = "done" /\ row' = row
            BY <2>4, <2>7 DEF BumpEmpty, KnownMessage, RaceLost, Bump, Summarize, End
        <3>2. Settled(batch[t])
            BY <2>3, <2>7
            DEF BumpEmpty, KnownMessage, RaceLost, Bump, Summarize, TaskInv, Settled
        <3>3. QED
            BY <2>2, <3>1, <3>2 DEF TaskInv, Settled, Duplicate, TextStored
    <2>8. CASE CheckCache(t)
        <3>1. row' = row /\ (pc'[t] = "bump" \/ pc'[t] = "hash")
            BY <2>4, <2>8 DEF CheckCache, GoTo
        <3>2. HasContent(batch[t])
            BY <2>3, <2>8 DEF CheckCache, TaskInv
        <3>3. pc'[t] = "bump" => HasText(batch[t]) /\ TextOf(batch[t]) \in seen
            BY <2>4, <2>8 DEF CheckCache, GoTo
        <3>4. pc'[t] = "bump" => HasText(batch[t]) /\ TextStored(TextOf(batch[t]))
            BY <3>3 DEF DataInv, CacheIsTruthful
        <3>5. QED
            BY <2>2, <3>1, <3>2, <3>4 DEF TaskInv, TextStored
    <2>9. CASE KnownText(t)
        <3>1. row' = row /\ pc'[t] = "bump" /\ HasText(batch[t]) /\ TextStored(TextOf(batch[t]))
            BY <2>4, <2>9 DEF KnownText, GoTo
        <3>2. QED
            BY <2>2, <3>1 DEF TaskInv, TextStored
    <2>10. CASE NewText(t)
        <3>1. pc'[t] = "insert" /\ HasContent(batch[t])
            BY <2>3, <2>4, <2>10 DEF NewText, GoTo, TaskInv
        <3>2. QED
            BY <2>2, <3>1 DEF TaskInv
    <2>11. CASE Insert(t)
        <3>1. /\ pc'[t] = IF HasText(batch[t]) THEN "mark" ELSE "summarize"
              /\ row' = [row EXCEPT ![Key(batch[t])] = ContentHash(batch[t])]
            BY <2>4, <2>11 DEF Insert, GoTo
        <3>2. Key(batch[t]) \in Messages /\ ContentHash(batch[t]) \in Hashes
            BY <2>2, PostTypes
        <3>3. row'[Key(batch[t])] = ContentHash(batch[t])
            BY <3>1, <3>2 DEF TypeOK
        <3>4. Settled(batch[t])'
            BY <2>2, <3>2, <3>3, PipelineAssumption DEF Settled, Duplicate
        <3>5. HasText(batch[t]) => TextStored(TextOf(batch[t]))'
            BY <2>2, <3>2, <3>3 DEF TextStored, ContentHash
        <3>6. QED
            BY <2>2, <3>1, <3>4, <3>5 DEF TaskInv
    <2>12. CASE Mark(t)
        <3>1. row' = row /\ pc'[t] = "summarize" /\ pc[t] = "mark"
            BY <2>4, <2>12 DEF Mark, GoTo
        <3>2. QED
            BY <2>2, <2>3, <3>1 DEF TaskInv, Settled, Duplicate, TextStored
    <2>13. QED
        BY <1>1, <2>5, <2>6, <2>7, <2>8, <2>9, <2>10, <2>11, <2>12 DEF Step
<1>2. ASSUME NEW t \in Tasks, Step(t) \/ Fail(t), NEW u \in Tasks
      PROVE  TaskInv(u)'
    <2>1. CASE u = t
        BY <1>1, <1>2, <2>1
    <2>2. CASE u # t
        <3>1. pc'[u] = pc[u] /\ batch'[u] = batch[u]
            BY <1>2, <2>2, StepShape DEF GoTo, End, TypeOK
        <3>2. QED
            BY <3>1, TaskIsKept DEF DataInv
    <2>3. QED
        BY <2>1, <2>2
<1>3. ASSUME NEW t \in Tasks, Admit(t) \/ (\E b \in Batches : Submit(t, b)), NEW u \in Tasks
      PROVE  TaskInv(u)'
    <2>1. CASE u = t
        BY <1>3, <2>1 DEF Admit, Submit, TaskInv, TypeOK
    <2>2. CASE u # t
        <3>1. pc'[u] = pc[u] /\ batch'[u] = batch[u]
            BY <1>3, <2>2 DEF Admit, Submit, TypeOK
        <3>2. QED
            BY <3>1, TaskIsKept DEF DataInv
    <2>3. QED
        BY <2>1, <2>2
<1>4. CASE Restart
    BY <1>4 DEF Restart, TaskInv
<1>5. CASE UNCHANGED <<pc, batch>>
    BY <1>5, TaskIsKept DEF DataInv
<1>6. QED
    BY <1>2, <1>3, <1>4, <1>5 DEF Next, Evict, vars

-----------------------------------------------------------------------------
(* A key enters the cache only after its text is in the table.             *)
LEMMA CacheStep ==
    ASSUME SchedulingInv, DataInv, [Next]_vars
    PROVE  CacheIsTruthful'
<1> USE DEF SchedulingInv
<1>1. \A x \in seen : TextStored(x)'
    <2>1. seen \subseteq Hashes
        BY DEF TypeOK, Hashes
    <2>2. QED
        BY <2>1, RowsAreKept DEF DataInv, CacheIsTruthful
<1>2. ASSUME NEW t \in Tasks, KnownText(t) \/ Mark(t)
      PROVE  CacheIsTruthful'
    <2>1. /\ seen' = seen \cup {TextOf(batch[t])}
          /\ row' = row
          /\ TextStored(TextOf(batch[t]))
        BY <1>2 DEF KnownText, Mark, DataInv, TaskInv
    <2>2. QED
        BY <1>1, <2>1 DEF CacheIsTruthful, TextStored
<1>3. CASE seen' \subseteq seen
    BY <1>1, <1>3 DEF CacheIsTruthful, TextStored
<1>4. QED
    BY <1>2, <1>3
    DEF Next, vars, Submit, Admit, Step, SkipEmpty, BumpEmpty, KnownMessage, NewMessage,
        CheckCache, NewText, Bump, Insert, RaceLost, Rejected, Summarize, Fail, Evict, Restart

(* The insert is refused when another row has the hash.                    *)
LEMMA ContentStep ==
    ASSUME SchedulingInv, DataInv, [Next]_vars
    PROVE  ContentStoredOnce'
<1> USE DEF SchedulingInv
<1>1. ASSUME NEW t \in Tasks, Insert(t)
      PROVE  ContentStoredOnce'
    <2>1. pc[t] # "idle" /\ batch[t] \in Batches
        BY <1>1 DEF Insert, TypeOK
    <2>2. /\ row' = [row EXCEPT ![Key(batch[t])] = ContentHash(batch[t])]
          /\ \A k \in Messages : row[k] # ContentHash(batch[t])
        BY <1>1 DEF Insert, Clash, TextStored
    <2>3. Key(batch[t]) \in Messages
        BY <2>1, PostTypes
    <2>4. \A k \in Messages :
            row'[k] = IF k = Key(batch[t]) THEN ContentHash(batch[t]) ELSE row[k]
        BY <2>2, <2>3 DEF TypeOK
    <2>5. QED
        BY <2>2, <2>4 DEF ContentStoredOnce, DataInv
<1>2. CASE UNCHANGED row
    BY <1>2 DEF ContentStoredOnce, DataInv
<1>3. QED
    BY <1>1, <1>2
    DEF Next, vars, Submit, Admit, Step, SkipEmpty, BumpEmpty, KnownMessage, NewMessage,
        CheckCache, KnownText, NewText, Bump, RaceLost, Rejected, Mark, Summarize, Fail,
        Evict, Restart

(* Whatever moves the watermark of a source moves it to a message of the   *)
(* post at hand, and that post is settled in the state that results.       *)
LEMMA WatermarkMoves ==
    ASSUME SchedulingInv, DataInv, [Next]_vars
    PROVE  \/ lastId' = lastId
           \/ \E b \in Batches, i \in MsgIds :
                 i \in b.ids /\ lastId' = Forward(b.source, i) /\ Settled(b)'
<1> USE DEF SchedulingInv
<1>1. ASSUME NEW t \in Tasks,
             BumpEmpty(t) \/ KnownMessage(t) \/ Bump(t) \/ Insert(t)
      PROVE  \E b \in Batches, i \in MsgIds :
                i \in b.ids /\ lastId' = Forward(b.source, i) /\ Settled(b)'
    <2>1. pc[t] # "idle" /\ batch[t] \in Batches
        BY <1>1 DEF BumpEmpty, KnownMessage, Bump, Insert, TypeOK
    <2>2. /\ HeadId(batch[t]) \in batch[t].ids /\ HeadId(batch[t]) \in MsgIds
          /\ NewestId(batch[t]) \in batch[t].ids /\ NewestId(batch[t]) \in MsgIds
        BY <2>1, HeadIsMember, NewestIsMember
    <2>3. ASSUME NEW b \in Batches, b = batch[t]
          PROVE  Settled(b)'
        <3>1. CASE Insert(t)
            <4>1. row'[Key(b)] = ContentHash(b) /\ ContentHash(b) # NoRow
                BY <2>3, <3>1, PostTypes, PipelineAssumption DEF Insert, TypeOK
            <4>2. QED
                BY <4>1 DEF Settled, Duplicate
        <3>2. CASE BumpEmpty(t) \/ KnownMessage(t) \/ Bump(t)
            <4>1. Settled(b)
                BY <2>3, <3>2 DEF BumpEmpty, KnownMessage, Bump, DataInv, TaskInv, Settled
            <4>2. QED
                BY <4>1, RowsAreKept
        <3>3. QED
            BY <1>1, <3>1, <3>2
    <2>4. \/ lastId' = Forward(batch[t].source, HeadId(batch[t]))
          \/ lastId' = Forward(batch[t].source, NewestId(batch[t]))
        BY <1>1 DEF BumpEmpty, KnownMessage, Bump, Insert
    <2>5. QED
        BY <2>1, <2>2, <2>3, <2>4
<1>2. QED
    BY <1>1
    DEF Next, vars, Submit, Admit, Step, SkipEmpty, NewMessage, CheckCache, KnownText, NewText,
        RaceLost, Rejected, Mark, Summarize, Fail, Evict, Restart

LEMMA WatermarkStep ==
    ASSUME SchedulingInv, DataInv, [Next]_vars
    PROVE  WatermarkIsSettled'
<1> USE DEF SchedulingInv
<1> SUFFICES ASSUME NEW s \in Sources, lastId'[s] # 0
             PROVE  \E b \in Batches : b.source = s /\ lastId'[s] \in b.ids /\ Settled(b)'
    BY DEF WatermarkIsSettled, Settled, Duplicate, TextStored
<1>1. CASE lastId'[s] = lastId[s]
    <2>1. PICK b \in Batches : b.source = s /\ lastId[s] \in b.ids /\ Settled(b)
        BY <1>1 DEF DataInv, WatermarkIsSettled
    <2>2. Settled(b)'
        BY <2>1, RowsAreKept
    <2>3. QED
        BY <1>1, <2>1, <2>2
<1>2. CASE lastId'[s] # lastId[s]
    <2>1. PICK b \in Batches, i \in MsgIds :
            i \in b.ids /\ lastId' = Forward(b.source, i) /\ Settled(b)'
        BY <1>2, WatermarkMoves
    <2>2. b.source = s /\ lastId'[s] = i
        BY <1>2, <2>1, PostTypes DEF Forward, TypeOK
    <2>3. QED
        BY <2>1, <2>2
<1>3. QED
    BY <1>1, <1>2

LEMMA DataStep ==
    ASSUME SchedulingInv, DataInv, [Next]_vars
    PROVE  DataInv'
<1>1. \A u \in Tasks : TaskInv(u)'
    BY TaskStep
<1>2. QED
    BY <1>1, CacheStep, ContentStep, WatermarkStep DEF DataInv

LEMMA DataInit == Init => DataInv
    BY DEF Init, DataInv, TaskInv, CacheIsTruthful, ContentStoredOnce, WatermarkIsSettled

LEMMA AlwaysDataInv == Spec => [](SchedulingInv /\ DataInv)
<1>1. Init => SchedulingInv /\ DataInv
    BY SchedulingInit, DataInit
<1>2. SchedulingInv /\ DataInv /\ [Next]_vars => (SchedulingInv /\ DataInv)'
    BY SchedulingStep, DataStep
<1>3. QED
    BY <1>1, <1>2, PTL DEF Spec

(* A hit of the dedup cache can be trusted in every reachable state: the   *)
(* articles table holds every text the cache claims, through evictions,    *)
(* failed transactions and restarts.                                       *)
THEOREM CacheSafe == Spec => []CacheIsTruthful
<1>1. SchedulingInv /\ DataInv => CacheIsTruthful
    BY DEF DataInv
<1>2. QED
    BY <1>1, AlwaysDataInv, PTL

(* No early return of _process drops a post that is not accounted for.     *)
THEOREM NothingDropped == Spec => []DoneIsSettled
<1>1. SchedulingInv /\ DataInv => DoneIsSettled
    BY DEF DataInv, TaskInv, DoneIsSettled
<1>2. QED
    BY <1>1, AlwaysDataInv, PTL

(* However the tasks race, no content_hash is stored twice.                *)
THEOREM ContentUnique == Spec => []ContentStoredOnce
<1>1. SchedulingInv /\ DataInv => ContentStoredOnce
    BY DEF DataInv
<1>2. QED
    BY <1>1, AlwaysDataInv, PTL

(* Wherever a crash comes, last_message_id of a source stands on a message *)
(* of a post that needs no further work.                                   *)
THEOREM WatermarkSafe == Spec => []WatermarkIsSettled
<1>1. SchedulingInv /\ DataInv => WatermarkIsSettled
    BY DEF DataInv
<1>2. QED
    BY <1>1, AlwaysDataInv, PTL

-----------------------------------------------------------------------------
(* The ledger speaks of posts with operators of its own, which are those   *)
(* of the pipeline.                                                        *)
LEMMA SamePosts ==
    /\ Ledger!Messages = Messages
    /\ \A b : /\ Ledger!Key(b) = Key(b)
              /\ Ledger!TextOf(b) = TextOf(b)
              /\ Ledger!HasText(b) = HasText(b)
              /\ Ledger!HasContent(b) = HasContent(b)
              /\ Ledger!ContentHash(b) = ContentHash(b)
              /\ Ledger!NewestId(b) = NewestId(b)
<1>1. Ledger!Messages = Messages
    BY DEF Ledger!Messages, Messages
<1>2. \A b : Ledger!HeadId(b) = HeadId(b)
    BY DEF Ledger!HeadId, HeadId, Ledger!Outranks, Outranks
<1>3. \A b : Ledger!Key(b) = Key(b) /\ Ledger!TextOf(b) = TextOf(b)
    BY <1>2 DEF Ledger!Key, Key, Ledger!TextOf, TextOf
<1>4. \A b : /\ Ledger!HasText(b) = HasText(b)
             /\ Ledger!HasContent(b) = HasContent(b)
             /\ Ledger!ContentHash(b) = ContentHash(b)
    BY <1>2, <1>3
    DEF Ledger!HasText, HasText, Ledger!HasContent, HasContent, Ledger!ContentHash, ContentHash
<1>5. \A b : Ledger!NewestId(b) = NewestId(b)
    BY DEF Ledger!NewestId, NewestId
<1>6. QED
    BY <1>1, <1>3, <1>4, <1>5

(* Only an insert and the three ways to move the watermark touch the       *)
(* tables; each is a step of the ledger for the batch of its task.         *)
LEMMA TablesMoveByLedger ==
    ASSUME SchedulingInv, DataInv, [Next]_vars, <<row, lastId>>' # <<row, lastId>>
    PROVE  \E b \in InFlight : b \in Batches /\ (Ledger!Store(b) \/ Ledger!Acknowledge(b))
<1> USE DEF SchedulingInv
<1>1. ASSUME NEW t \in Tasks, pc[t] \in Active
      PROVE  batch[t] \in InFlight /\ batch[t] \in Batches
    BY <1>1 DEF InFlight, Busy, Active, Ended, TypeOK
<1>2. ASSUME NEW t \in Tasks, Insert(t)
      PROVE  batch[t] \in InFlight /\ batch[t] \in Batches /\ Ledger!Store(batch[t])
    <2>1. batch[t] \in InFlight /\ batch[t] \in Batches
        BY <1>1, <1>2 DEF Insert, Active
    <2>2. HasContent(batch[t])
        BY <1>2 DEF Insert, DataInv, TaskInv
    <2>3. Ledger!Store(batch[t])
        BY <1>2, <2>2, SamePosts
        DEF Insert, Ledger!Store, Duplicate, Clash, TextStored, Forward,
            Ledger!TextStored, Ledger!Forward
    <2>4. QED
        BY <2>1, <2>3
<1>3. ASSUME NEW t \in Tasks, BumpEmpty(t) \/ KnownMessage(t) \/ Bump(t)
      PROVE  batch[t] \in InFlight /\ batch[t] \in Batches /\ Ledger!Acknowledge(batch[t])
    <2>1. batch[t] \in InFlight /\ batch[t] \in Batches
        BY <1>1, <1>3 DEF BumpEmpty, KnownMessage, Bump, Active
    <2>2. Ledger!Settled(batch[t])
        BY <1>3, SamePosts
        DEF BumpEmpty, KnownMessage, Bump, DataInv, TaskInv, Ledger!Settled,
            Ledger!TextStored, Duplicate, TextStored
    <2>3. UNCHANGED row /\ \E i \in batch[t].ids : lastId' = Forward(batch[t].source, i)
        BY <1>3, <2>1, HeadIsMember, NewestIsMember DEF BumpEmpty, KnownMessage, Bump
    <2>4. Ledger!Acknowledge(batch[t])
        BY <2>2, <2>3 DEF Ledger!Acknowledge, Forward, Ledger!Forward
    <2>5. QED
        BY <2>1, <2>4
<1>4. QED
    BY <1>2, <1>3
    DEF Next, vars, Submit, Admit, Step, SkipEmpty, NewMessage, CheckCache, KnownText, NewText,
        RaceLost, Rejected, Mark, Summarize, Fail, Evict, Restart

(* The detailed pipeline implements the ledger: each insert is a Store,    *)
(* each move of the watermark an Acknowledge, everything else a stutter.   *)
THEOREM Refinement == Spec => ImplementsLedger
<1>1. Init => Ledger!Init
    BY SamePosts DEF Init, Ledger!Init
<1>2. SchedulingInv /\ DataInv /\ [Next]_vars => [Ledger!Next]_(Ledger!ledgerVars)
    BY TablesMoveByLedger DEF Ledger!Next, Ledger!ledgerVars
<1>3. QED
    BY <1>1, <1>2, AlwaysDataInv, PTL DEF Spec, ImplementsLedger, Ledger!Spec

(* A task that comes to its end has settled its post, or was refused       *)
(* because the hash of the post is taken.                                  *)
LEMMA EndsAreSettled ==
    ASSUME SchedulingInv, DataInv, [Next]_vars, NEW t \in Tasks,
           Busy(t), pc'[t] \in {"done", "rejected"}
    PROVE  Settled(batch[t]) \/ TextStored(ContentHash(batch[t]))
<1> USE DEF SchedulingInv
<1>1. CASE Step(t)
    <2>1. CASE BumpEmpty(t) \/ KnownMessage(t) \/ Bump(t) \/ RaceLost(t) \/ Rejected(t)
        BY <2>1 DEF BumpEmpty, KnownMessage, Bump, RaceLost, Rejected, DataInv, TaskInv,
                    Settled, Clash
    <2>2. CASE Summarize(t)
        BY <2>2 DEF Summarize, DataInv, TaskInv
    <2>3. CASE SkipEmpty(t) \/ NewMessage(t) \/ CheckCache(t) \/ KnownText(t) \/ NewText(t)
               \/ Insert(t) \/ Mark(t)
        BY <2>3 DEF SkipEmpty, NewMessage, CheckCache, KnownText, NewText, Insert, Mark, GoTo,
                    TypeOK
    <2>4. QED
        BY <1>1, <2>1, <2>2, <2>3 DEF Step
<1>2. ASSUME NEW u \in Tasks, u # t, Step(u) \/ Fail(u)
      PROVE  FALSE
    BY <1>2, StepShape DEF GoTo, End, TypeOK, Busy, Ended
<1>3. CASE Fail(t)
    BY <1>3 DEF Fail, End, TypeOK
<1>4. CASE (\E u \in Tasks, b \in Batches : Submit(u, b)) \/ (\E u \in Tasks : Admit(u))
    BY <1>4 DEF Submit, Admit, TypeOK, Busy, Ended
<1>5. CASE Restart \/ (\E x \in Texts : Evict(x)) \/ UNCHANGED vars
    BY <1>5 DEF Restart, Evict, vars, Busy, Ended
<1>6. QED
    BY <1>1, <1>2, <1>3, <1>4, <1>5 DEF Next

(* The pipeline keeps what module Reader takes it for, so that what is     *)
(* shown there of the watermark holds of the two together.                 *)
THEOREM ReaderIsServed == Spec => ServesReader
<1>1. SchedulingInv /\ DataInv /\ [Next]_vars => [AsReaderAssumes]_vars
    BY TablesMoveByLedger, EndsAreSettled DEF AsReaderAssumes
<1>2. QED
    BY <1>1, AlwaysDataInv, PTL DEF Spec, ServesReader

-----------------------------------------------------------------------------
(* Rows of articles are for good, and no watermark is ever moved back.     *)
WatermarkMovesForward ==
    [][\A s \in Sources : lastId[s] <= lastId'[s]]_vars
ArticlesAreKept ==
    [][\A m \in Messages : row[m] # NoRow => row'[m] = row[m]]_vars

(* Tasks of one source that end in any order, failures and restarts never  *)
(* move last_message_id back, whatever order they write it in.             *)
THEOREM ForwardOnly == Spec => WatermarkMovesForward
<1>1. ASSUME TypeOK, NEW s \in Sources
      PROVE  lastId[s] \in Nat
    <2>1. lastId[s] \in MsgIds \/ lastId[s] = 0
        BY <1>1 DEF TypeOK
    <2>2. ASSUME NEW i \in MsgIds
          PROVE  i \in Nat
        BY PostsAssumption
    <2>3. QED
        BY <2>1, <2>2
<1>2. ASSUME TypeOK, NEW s \in Sources, NEW i \in MsgIds, NEW r \in Sources
      PROVE  lastId[r] <= Forward(s, i)[r]
    <2>1. i \in Nat /\ lastId[r] \in Nat
        BY <1>1, <1>2, PostsAssumption
    <2>2. Forward(s, i)[r] = IF r = s /\ lastId[r] < i THEN i ELSE lastId[r]
        BY <1>2 DEF TypeOK, Forward
    <2>3. QED
        BY <2>1, <2>2
<1>3. SchedulingInv /\ DataInv /\ [Next]_vars => [\A s \in Sources : lastId[s] <= lastId'[s]]_vars
    <2> SUFFICES ASSUME SchedulingInv, DataInv, [Next]_vars, NEW s \in Sources
                 PROVE  lastId[s] <= lastId'[s]
        OBVIOUS
    <2> USE DEF SchedulingInv
    <2>1. CASE lastId' = lastId
        BY <1>1, <2>1
    <2>2. CASE lastId' # lastId
        <3>1. PICK b \in Batches, i \in MsgIds : lastId' = Forward(b.source, i)
            BY <2>2, WatermarkMoves
        <3>2. QED
            BY <1>2, <3>1, PostTypes
    <2>3. QED
        BY <2>1, <2>2
<1>4. QED
    BY <1>3, AlwaysDataInv, PTL DEF Spec, WatermarkMovesForward

(* An article once stored keeps its row and its hash: nothing a task does  *)
(* later, of its own post or of another, takes it back or overwrites it.   *)
THEOREM RowsForGood == Spec => ArticlesAreKept
<1>1. SchedulingInv /\ [Next]_vars => [\A m \in Messages : row[m] # NoRow => row'[m] = row[m]]_vars
    BY RowsAreKept DEF SchedulingInv
<1>2. QED
    BY <1>1, AlwaysScheduling, PTL DEF Spec, ArticlesAreKept
=============================================================================
