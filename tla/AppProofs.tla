------------------------------ MODULE AppProofs ------------------------------
(***************************************************************************)
(* The safety properties of App, for any batches and albums.               *)
(*                                                                         *)
(* OwnedInv says which tasks may still run at which stage of stop: what is *)
(* released is safe from the loop, the polling and the jobs because they   *)
(* are cancelled or over at every later stage, however it was reached.     *)
(***************************************************************************)
EXTENDS App, TLAPS

Starting == {"storage", "connect", "resolve"}
Draining == {"drain", "disconnect", "close", "dispose"} \cup Ended

OwnedInv ==
    /\ stage \in Starting =>
        /\ ~scheduling /\ ~listening
        /\ \A t \in Tasks : task[t] = "none"
        /\ \A b \in Batches : batch[b] = "none"
    /\ stage \notin Starting \cup {"serving"} =>
        ~scheduling /\ \A t \in Jobs \cup {"publish-loop"} : ~Running(t)
    /\ stage \in Draining \cup {"await_polling"} => ~Running("aiogram-polling")

ReleasedInv ==
    /\ stage = "storage" => open = {}
    /\ ~aborted /\ late = {} =>
        \A r \in {"client", "bot", "engine"} : Released(r) => r \notin open

DrainInv ==
    /\ stage \notin Draining => draining = {}
    /\ \A b \in draining : batch[b] \in {"buffered", "ingesting", "done", "cut"}
    /\ stage \in Draining \ {"drain"} => \A b \in draining : batch[b] # "buffered"

IInv == TypeOK /\ OwnedInv /\ OnlyStragglersAreLate /\ ReleasedInv /\ DrainInv

-----------------------------------------------------------------------------
LEMMA InitInv == Init => IInv
    BY DEF Init, IInv, TypeOK, OwnedInv, OnlyStragglersAreLate, ReleasedInv, DrainInv,
           Buffered, Running, Released, Starting, Draining, Ended, Jobs

LEMMA UsesWhat ==
    ASSUME NEW t, NEW r \in Uses(t)
    PROVE  r \in {"client", "bot", "engine"}
    BY DEF Uses

(* A step of a task or of Telethon leaves the stage of main alone.         *)
LEMMA OwnedStep == TypeOK /\ OwnedInv /\ [Next]_vars => OwnedInv'
<1> SUFFICES ASSUME TypeOK, OwnedInv, [Next]_vars PROVE OwnedInv'
    OBVIOUS
<1> USE DEF OwnedInv, Starting, Draining, Ended, Running, Alive
<1>1. CASE StorageReady \/ Connected \/ Started \/ StartFails
    BY <1>1 DEF StorageReady, Connected, Started, StartFails, TypeOK, Tasks, Jobs
<1>2. CASE StopRequested \/ LoopEnded \/ StopPolling
    BY <1>2 DEF StopRequested, BeginStop, LoopEnded, StopPolling, Cancelled, TypeOK, Tasks, Jobs
<1>3. CASE StopReader \/ Drained \/ Disconnect \/ Close \/ Dispose
    BY <1>3 DEF StopReader, Drained, Disconnect, Close, Dispose, Release
<1>4. CASE Exit
    BY <1>4 DEF Exit, TypeOK, Tasks, Jobs
<1>5. CASE UpdateComes \/ \E t \in Tasks : JobStarts(t) \/ Ends(t)
    BY <1>5 DEF UpdateComes, JobStarts, Ends, mainVars, TypeOK, Tasks, Jobs
<1>6. ASSUME NEW b \in Batches,
             Hear(b) \/ HandleMessage(b) \/ FlushAlbum(b) \/ SweepFinds(b) \/ IngestEnds(b)
      PROVE  OwnedInv'
    <2>1. UNCHANGED <<stage, scheduling, listening, task>> /\ stage \notin Starting
        BY <1>6 DEF Hear, HandleMessage, FlushAlbum, SweepFinds, IngestEnds, Move, mainVars,
                    Sweeps, Tasks, Jobs
    <2>2. QED
        BY <2>1
<1>7. CASE UNCHANGED <<stage, scheduling, listening, task, batch>>
    BY <1>7
<1>8. QED
    BY <1>1, <1>2, <1>3, <1>4, <1>5, <1>6, <1>7
    DEF Next, Main, vars, mainVars, Signal, TaskUses

LEMMA LateStep ==
    TypeOK /\ OwnedInv /\ OnlyStragglersAreLate /\ [Next]_vars => OnlyStragglersAreLate'
<1> SUFFICES ASSUME TypeOK, OwnedInv, OnlyStragglersAreLate, [Next]_vars
             PROVE  OnlyStragglersAreLate'
    OBVIOUS
<1>1. ASSUME NEW t \in Tasks \cup Batches, NEW r \in Uses(t), TaskUses(t, r)
      PROVE  OnlyStragglersAreLate'
    <2>1. CASE t \in Batches \/ ~Released(r)
        BY <1>1, <2>1 DEF TaskUses, OnlyStragglersAreLate
    <2>2. CASE t \notin Batches /\ Released(r)
        <3>1. stage \in Draining \ {"drain"}
            BY <2>2, UsesWhat DEF Released, Draining, Ended
        <3>2. Running(t) /\ t \notin Jobs \cup {"publish-loop", "aiogram-polling"}
            BY <1>1, <2>2, <3>1 DEF TaskUses, OwnedInv, Starting, Draining, Ended
        <3>3. QED
            BY <1>1, <2>2, <3>2 DEF TaskUses, OnlyStragglersAreLate, Tasks
    <2>3. QED
        BY <2>1, <2>2
<1>2. CASE UNCHANGED late
    BY <1>2 DEF OnlyStragglersAreLate
<1>3. QED
    BY <1>1, <1>2
    DEF Next, Main, vars, StorageReady, Connected, Started, StartFails, StopRequested, BeginStop,
        LoopEnded, StopPolling, StopReader, Drained, Disconnect, Close, Dispose, Release, Exit,
        Signal, UpdateComes, JobStarts, Ends, Hear, HandleMessage, FlushAlbum, SweepFinds,
        IngestEnds, Move

LEMMA ReleasedStep == TypeOK /\ OwnedInv /\ ReleasedInv /\ [Next]_vars => ReleasedInv'
<1> SUFFICES ASSUME TypeOK, OwnedInv, ReleasedInv, [Next]_vars PROVE ReleasedInv'
    OBVIOUS
<1> USE DEF ReleasedInv, Released, Ended
<1>1. CASE StorageReady \/ Connected \/ Started \/ StartFails
    BY <1>1 DEF StorageReady, Connected, Started, StartFails
<1>2. CASE StopRequested \/ LoopEnded \/ StopPolling \/ StopReader \/ Drained \/ Exit
    BY <1>2 DEF StopRequested, BeginStop, LoopEnded, StopPolling, StopReader, Drained, Exit
<1>3. CASE Disconnect \/ Close \/ Dispose
    BY <1>3 DEF Disconnect, Close, Dispose, Release
<1>4. ASSUME NEW t \in Tasks \cup Batches, NEW r \in Uses(t), TaskUses(t, r)
      PROVE  ReleasedInv'
    <2>1. /\ stage' = stage /\ aborted' = aborted
          /\ stage # "storage" /\ r \in {"client", "bot", "engine"}
        BY <1>4, UsesWhat DEF TaskUses, mainVars, OwnedInv, Starting, Running
    <2>2. CASE Released(r)
        <3>1. late' # {}
            BY <1>4, <2>2 DEF TaskUses
        <3>2. QED
            BY <2>1, <3>1
    <2>3. CASE ~Released(r)
        <3>1. late' = late /\ open' \subseteq open \cup {r}
            BY <1>4, <2>3 DEF TaskUses, Use
        <3>2. QED
            BY <2>1, <2>3, <3>1
    <2>4. QED
        BY <2>2, <2>3
<1>5. CASE UNCHANGED <<stage, aborted, open, late>>
    BY <1>5
<1>6. QED
    BY <1>1, <1>2, <1>3, <1>4, <1>5
    DEF Next, Main, vars, mainVars, Signal, UpdateComes, JobStarts, Ends, Hear, HandleMessage,
        FlushAlbum, SweepFinds, IngestEnds, Move

LEMMA DrainStep == TypeOK /\ DrainInv /\ [Next]_vars => DrainInv'
<1> SUFFICES ASSUME TypeOK, DrainInv, [Next]_vars PROVE DrainInv'
    OBVIOUS
<1> USE DEF DrainInv, Draining, Ended, Buffered
<1>1. CASE StorageReady \/ Connected \/ Started \/ StartFails
    BY <1>1 DEF StorageReady, Connected, Started, StartFails
<1>0. draining \subseteq Batches
    BY AppAssumption DEF TypeOK
<1>2. CASE StopRequested \/ LoopEnded \/ StopPolling
    BY <1>2 DEF StopRequested, BeginStop, LoopEnded, StopPolling
<1>7. CASE StopReader
    BY <1>7 DEF StopReader
<1>8. CASE Drained
    <2>1. \A b \in draining : batch[b] # "buffered"
        BY <1>0, <1>8 DEF Drained
    <2>2. QED
        BY <1>8, <2>1 DEF Drained
<1>3. CASE Disconnect \/ Close \/ Dispose
    BY <1>3 DEF Disconnect, Close, Dispose, Release
<1>4. CASE Exit
    <2>1. \A b \in draining : batch[b] # "buffered"
        BY <1>4 DEF Exit
    <2>2. \A b \in draining : batch'[b] \in {"ingesting", "done", "cut"}
        BY <1>0, <1>4, <2>1 DEF Exit
    <2>3. QED
        BY <1>4, <2>2 DEF Exit
<1>5. ASSUME NEW b \in Batches,
             Hear(b) \/ HandleMessage(b) \/ FlushAlbum(b) \/ SweepFinds(b) \/ IngestEnds(b)
      PROVE  DrainInv'
    <2>1. /\ UNCHANGED <<stage, draining>>
          /\ \A d \in Batches : d # b => batch'[d] = batch[d]
          /\ b \in draining =>
                batch[b] \in {"buffered", "ingesting"} /\ batch'[b] \in {"ingesting", "done"}
        BY <1>5 DEF Hear, HandleMessage, FlushAlbum, SweepFinds, IngestEnds, Move, mainVars,
                    TypeOK
    <2>2. QED
        BY <1>0, <2>1
<1>6. CASE UNCHANGED <<stage, draining, batch>>
    BY <1>6
<1>9. QED
    BY <1>1, <1>2, <1>3, <1>4, <1>5, <1>6, <1>7, <1>8
    DEF Next, Main, vars, mainVars, Signal, UpdateComes, JobStarts, Ends, TaskUses

LEMMA TypeStep == TypeOK /\ OwnedInv /\ [Next]_vars => TypeOK'
<1> SUFFICES ASSUME TypeOK, OwnedInv, [Next]_vars PROVE TypeOK'
    OBVIOUS
<1> USE DEF TypeOK, Ended
<1>1. CASE StorageReady \/ Connected \/ StartFails \/ Signal
    BY <1>1 DEF StorageReady, Connected, StartFails, Signal, Buffered
<1>2. CASE Started
    BY <1>2 DEF Started, Buffered
<1>3. CASE StopRequested \/ LoopEnded \/ StopPolling \/ StopReader \/ Drained
    BY <1>3 DEF StopRequested, BeginStop, LoopEnded, StopPolling, StopReader, Drained, Cancelled,
                Buffered
<1>4. CASE Disconnect \/ Close \/ Dispose
    BY <1>4 DEF Disconnect, Close, Dispose, Release, Buffered
<1>5. CASE Exit
    BY <1>5 DEF Exit, Buffered
<1>6. CASE UpdateComes \/ \E t \in Tasks : JobStarts(t) \/ Ends(t)
    BY <1>6 DEF UpdateComes, JobStarts, Ends, mainVars, Buffered
<1>7. ASSUME NEW t \in Tasks \cup Batches, NEW r \in Uses(t), TaskUses(t, r)
      PROVE  TypeOK'
    BY <1>7, UsesWhat DEF TaskUses, Use, mainVars, Buffered
<1>8. ASSUME NEW b \in Batches,
             Hear(b) \/ HandleMessage(b) \/ FlushAlbum(b) \/ SweepFinds(b) \/ IngestEnds(b)
      PROVE  TypeOK'
    <2>1. /\ UNCHANGED <<mainVars, listening, scheduling, task, open, late>>
          /\ \E p \in {"heard", "buffered", "ingesting", "done"} :
                batch' = [batch EXCEPT ![b] = p] /\ (p = "buffered" => b \in Albums)
        BY <1>8 DEF Hear, HandleMessage, FlushAlbum, SweepFinds, IngestEnds, Move
    <2>2. QED
        BY <2>1 DEF mainVars, Buffered
<1>9. CASE UNCHANGED vars
    BY <1>9 DEF vars, mainVars, Buffered
<1>10. QED
    BY <1>1, <1>2, <1>3, <1>4, <1>5, <1>6, <1>7, <1>8, <1>9 DEF Next, Main

-----------------------------------------------------------------------------
LEMMA AlwaysIInv == Spec => []IInv
<1>1. IInv /\ [Next]_vars => IInv'
    BY TypeStep, OwnedStep, LateStep, ReleasedStep, DrainStep DEF IInv
<1>2. QED
    BY <1>1, InitInv, PTL DEF Spec

(* Type correctness.                                                       *)
THEOREM AppTypes == Spec => []TypeOK
<1>1. IInv => TypeOK
    BY DEF IInv
<1>2. QED
    BY <1>1, AlwaysIInv, PTL

(* Neither the loop nor the polling nor a job uses what stop has released, *)
(* at whatever point it was asked to stop or cut short itself.             *)
THEOREM StragglersOnly == Spec => []OnlyStragglersAreLate
<1>1. IInv => OnlyStragglersAreLate
    BY DEF IInv
<1>2. QED
    BY <1>1, AlwaysIInv, PTL

(* A stop that is not cut short leaves nothing open, unless a task that it *)
(* does not know of comes after it.                                        *)
THEOREM AllReleased == Spec => []ReleasedForGood
<1>1. IInv => ReleasedForGood
    BY DEF IInv, TypeOK, ReleasedInv, Released, Ended, ReleasedForGood
<1>2. QED
    BY <1>1, AlwaysIInv, PTL

(* Every album whose flush was pending when the handler was removed gets   *)
(* to the pipeline.                                                        *)
THEOREM DrainSafe == Spec => []DrainIsComplete
<1>1. IInv => DrainIsComplete
    BY DEF IInv, DrainInv, DrainIsComplete
<1>2. QED
    BY <1>1, AlwaysIInv, PTL
=============================================================================
