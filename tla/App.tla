-------------------------------- MODULE App --------------------------------
(***************************************************************************)
(* NewsApp.start and NewsApp.stop as main runs them, and the tasks that    *)
(* come and go meanwhile: the publish loop, aiogram's polling, two jobs of *)
(* the scheduler, the first sweep, a handler of an update, and for each    *)
(* batch of messages the event, the album flush and the ingest task in     *)
(* turn.  stop asks some of them to end, waits for a few, and releases     *)
(* what all of them use.  A heartbeat uses nothing and is left out.        *)
(***************************************************************************)
EXTENDS FiniteSets

CONSTANTS
    Batches,     \* what the reader may hand to the pipeline
    Albums       \* those that come through the album buffer

ASSUME AppAssumption == Albums \subseteq Batches /\ IsFiniteSet(Batches)

Jobs == {"catch_up", "retry_failed_summaries"}
Sweeps == {"initial-catch-up", "catch_up"}
Tasks == Jobs \cup {"publish-loop", "aiogram-polling", "initial-catch-up", "update"}

VARIABLES
    stage,       \* the await main is at
    signal,      \* stop_event
    aborted,     \* a step of stop raised, and the rest of it was skipped
    listening,   \* the reader's event handler is registered
    scheduling,  \* scheduler.running
    task,        \* where each task is
    batch,       \* which task holds a batch
    draining,    \* the albums whose flush tasks reader.stop awaits
    open,        \* client, bot session and engine that are open
    late         \* observation: who used one of them after its release

mainVars == <<stage, signal, aborted, draining>>
vars == <<mainVars, listening, scheduling, task, batch, open, late>>

Init ==
    /\ stage = "storage"
    /\ signal = FALSE
    /\ aborted = FALSE
    /\ listening = FALSE
    /\ scheduling = FALSE
    /\ task = [t \in Tasks |-> "none"]
    /\ batch = [b \in Batches |-> "none"]
    /\ draining = {}
    /\ open = {}
    /\ late = {}

Running(t) == task[t] = "running"
Alive(t) == task[t] \in {"running", "cancelled"}
Ended == {"returned", "over"}

(* What a task uses, and the stages of main after its release.             *)
Uses(t) ==
    CASE t \in Sweeps \cup Batches           -> {"client", "engine"}
      [] t = "aiogram-polling"               -> {"bot"}
      [] t \in {"publish-loop", "update"}    -> {"bot", "engine"}
      [] OTHER                               -> {"engine"}

Released(r) ==
    stage \in CASE r = "client" -> {"close", "dispose"} \cup Ended
                [] r = "bot"    -> {"dispose"} \cup Ended
                [] r = "engine" -> Ended

(* cancel() of the running tasks among set.                                *)
Cancelled(set) == [t \in Tasks |-> IF t \in set /\ Running(t) THEN "cancelled" ELSE task[t]]

Buffered == {b \in Batches : batch[b] = "buffered"}

Move(b, from, to) ==
    /\ batch[b] = from
    /\ batch' = [batch EXCEPT ![b] = to]
    /\ UNCHANGED <<mainVars, listening, scheduling, task, open, late>>

-----------------------------------------------------------------------------
(* Faulty variants of definitions below, used only for mutation testing.   *)

(* The scheduler is left running.                                          *)
BeginStopWithoutScheduler ==
    /\ stage' = "stop_loop"
    /\ task' = Cancelled({"publish-loop"})
    /\ UNCHANGED <<signal, aborted, draining, listening, scheduling, batch, open, late>>

(* The loop is awaited, but neither asked to stop nor cancelled.           *)
BeginStopWithoutCancel ==
    /\ stage' = "stop_loop"
    /\ scheduling' = FALSE
    /\ task' = Cancelled(Jobs)
    /\ UNCHANGED <<signal, aborted, draining, listening, batch, open, late>>

(* The engine is not disposed of.                                          *)
DisposeNothing ==
    /\ stage = "dispose"
    /\ stage' = "returned"
    /\ UNCHANGED <<signal, aborted, draining, listening, scheduling, task, batch, open, late>>

(* Every message goes through the album buffer.                            *)
HandleMessageBuffering(b) == stage # "over" /\ Move(b, "heard", "buffered")

(* The flush tasks are not awaited.                                        *)
DrainedAtOnce ==
    /\ stage = "drain"
    /\ stage' = "disconnect"
    /\ UNCHANGED <<signal, aborted, draining, listening, scheduling, task, batch, open, late>>

-----------------------------------------------------------------------------
(* start.                                                                  *)

(* The shutdown of the scheduler cancels the jobs under way, and nobody    *)
(* waits for them; the loop is asked to stop, cancelled and awaited.       *)
BeginStop ==
    /\ stage' = "stop_loop"
    /\ scheduling' = FALSE
    /\ task' = Cancelled(Jobs \cup {"publish-loop"})
    /\ UNCHANGED <<signal, aborted, draining, listening, batch, open, late>>

StorageReady ==
    /\ stage = "storage"
    /\ stage' = "connect"
    /\ UNCHANGED <<signal, aborted, draining, listening, scheduling, task, batch, open, late>>

Connected ==
    /\ stage = "connect"
    /\ stage' = "resolve"
    /\ open' = open \cup {"client"}
    /\ UNCHANGED <<signal, aborted, draining, listening, scheduling, task, batch, late>>

(* reader.start refreshes the sources; from the registration of the        *)
(* handler, without which it goes on when nothing was resolved, to the     *)
(* creation of the last task there is no await.                            *)
Started ==
    /\ stage = "resolve"
    /\ stage' = "serving"
    /\ listening' \in BOOLEAN
    /\ scheduling' = TRUE
    /\ task' = [task EXCEPT !["initial-catch-up"] = "running",
                            !["aiogram-polling"] = "running",
                            !["publish-loop"] = "running"]
    /\ open' = open \cup {"engine"}
    /\ UNCHANGED <<signal, aborted, draining, batch, late>>

(* An exception of start goes through the finally of main.                 *)
StartFails ==
    /\ stage \in {"storage", "connect", "resolve"}
    /\ stage' = IF stage = "storage" THEN "dispose" ELSE "stop_polling"
    /\ open' \in CASE stage = "storage" -> {open}
                  [] stage = "connect" -> {open, open \cup {"client"}}
                  [] stage = "resolve" -> {open, open \cup {"engine"}}
    /\ UNCHANGED <<signal, aborted, draining, listening, scheduling, task, batch, late>>

Signal == signal = FALSE /\ signal' = TRUE
    /\ UNCHANGED <<stage, aborted, draining, listening, scheduling, task, batch, open, late>>

-----------------------------------------------------------------------------
(* stop.                                                                   *)

StopRequested == stage = "serving" /\ signal /\ BeginStop

LoopEnded ==
    /\ stage = "stop_loop" /\ ~Alive("publish-loop")
    /\ stage' = "stop_polling"
    /\ UNCHANGED <<signal, aborted, draining, listening, scheduling, task, batch, open, late>>

(* stop_polling of aiogram raises unless the polling runs.                 *)
StopPolling ==
    /\ stage = "stop_polling"
    /\ \/ Running("aiogram-polling") /\ stage' = "await_polling" /\ UNCHANGED aborted
       \/ ~Running("aiogram-polling") /\ stage' = "returned" /\ aborted' = TRUE
    /\ task' = Cancelled({"aiogram-polling"})
    /\ UNCHANGED <<signal, draining, listening, scheduling, batch, open, late>>

(* reader.stop removes the handler and collects the flush tasks.           *)
StopReader ==
    /\ stage = "await_polling" /\ ~Alive("aiogram-polling")
    /\ stage' = "drain"
    /\ listening' = FALSE
    /\ draining' = Buffered
    /\ UNCHANGED <<signal, aborted, scheduling, task, batch, open, late>>

Drained ==
    /\ stage = "drain" /\ draining \cap Buffered = {}
    /\ stage' = "disconnect"
    /\ UNCHANGED <<signal, aborted, draining, listening, scheduling, task, batch, open, late>>

(* disconnect, session.close and dispose_engine; each of them may raise.   *)
Release(r, next) ==
    /\ \/ stage' = next /\ open' = open \ {r} /\ UNCHANGED aborted
       \/ stage' = "returned" /\ aborted' = TRUE /\ UNCHANGED open
    /\ UNCHANGED <<signal, draining, listening, scheduling, task, batch, late>>

Disconnect == stage = "disconnect" /\ Release("client", "close")
Close == stage = "close" /\ Release("bot", "dispose")
Dispose == stage = "dispose" /\ Release("engine", "returned")

(* asyncio.run cancels every task that is left and waits for it.           *)
Exit ==
    /\ stage = "returned"
    /\ stage' = "over"
    /\ task' = [t \in Tasks |-> IF Alive(t) THEN "over" ELSE task[t]]
    /\ batch' = [b \in Batches |->
                    CASE batch[b] = "buffered"  -> "dropped"
                      [] batch[b] = "ingesting" -> "cut"
                      [] OTHER                  -> batch[b]]
    /\ UNCHANGED <<signal, aborted, draining, listening, scheduling, open, late>>

Main ==
    \/ StorageReady \/ Connected \/ Started \/ StartFails
    \/ StopRequested \/ LoopEnded \/ StopPolling \/ StopReader \/ Drained
    \/ Disconnect \/ Close \/ Dispose \/ Exit

-----------------------------------------------------------------------------
(* The tasks.                                                              *)

(* With max_instances a job starts when the last run of it is over.        *)
JobStarts(t) ==
    /\ scheduling /\ t \in Jobs /\ ~Alive(t)
    /\ task' = [task EXCEPT ![t] = "running"]
    /\ UNCHANGED <<mainVars, listening, scheduling, batch, open, late>>

UpdateComes ==
    /\ Running("aiogram-polling") /\ ~Alive("update")
    /\ task' = [task EXCEPT !["update"] = "running"]
    /\ UNCHANGED <<mainVars, listening, scheduling, batch, open, late>>

(* A cancelled task ends; the loop runs until it is cancelled, the others  *)
(* come to their end or raise.                                             *)
Ends(t) ==
    /\ Alive(t) /\ (Running(t) => t # "publish-loop")
    /\ task' = [task EXCEPT ![t] = "over"]
    /\ UNCHANGED <<mainVars, listening, scheduling, batch, open, late>>

(* get_engine and aiogram build what is not there; Telethon raises.        *)
Use(r) == open' = IF r = "client" THEN open ELSE open \cup {r}

TaskUses(t, r) ==
    /\ IF t \in Batches THEN batch[t] = "ingesting" ELSE Running(t)
    /\ r \in Uses(t)
    /\ Use(r)
    /\ late' = IF Released(r) THEN late \cup {t} ELSE late
    /\ UNCHANGED <<mainVars, listening, scheduling, task, batch>>

(* Telethon has taken the handler for a message; it may be removed before  *)
(* it is called.                                                           *)
Hear(b) == listening /\ "client" \in open /\ stage # "over" /\ Move(b, "none", "heard")

HandleMessage(b) ==
    stage # "over" /\ Move(b, "heard", IF b \in Albums THEN "buffered" ELSE "ingesting")

FlushAlbum(b) == Move(b, "buffered", "ingesting")

SweepFinds(b) ==
    /\ \E t \in Sweeps : Running(t)
    /\ "client" \in open
    /\ Move(b, "none", "ingesting")

IngestEnds(b) == Move(b, "ingesting", "done")

Next ==
    \/ Main \/ Signal \/ UpdateComes
    \/ \E t \in Tasks : JobStarts(t) \/ Ends(t)
    \/ \E t \in Tasks \cup Batches : \E r \in Uses(t) : TaskUses(t, r)
    \/ \E b \in Batches :
        Hear(b) \/ HandleMessage(b) \/ FlushAlbum(b) \/ SweepFinds(b) \/ IngestEnds(b)

(* The event loop runs whatever is ready: the awaits of main come to an    *)
(* end, a cancelled task is resumed, the delay of an album runs out.       *)
Fairness ==
    /\ WF_vars(Main)
    /\ \A t \in Tasks : WF_vars(task[t] = "cancelled" /\ Ends(t))
    /\ \A b \in Batches : WF_vars(FlushAlbum(b))

Spec == Init /\ [][Next]_vars
FairSpec == Spec /\ Fairness

-----------------------------------------------------------------------------
(* Every variable has its type, and only an album is ever in the buffer.   *)
TypeOK ==
    /\ stage \in {"storage", "connect", "resolve", "serving", "stop_loop", "stop_polling",
                  "await_polling", "drain", "disconnect", "close", "dispose"} \cup Ended
    /\ {signal, aborted, listening, scheduling} \subseteq BOOLEAN
    /\ task \in [Tasks -> {"none", "running", "cancelled", "over"}]
    /\ batch \in [Batches -> {"none", "heard", "buffered", "ingesting", "done", "dropped", "cut"}]
    /\ Buffered \subseteq Albums
    /\ draining \subseteq Albums
    /\ open \subseteq {"client", "bot", "engine"}
    /\ late \subseteq Tasks \cup Batches

(* What stop releases is used afterwards only by tasks that it does not    *)
(* know of: the first sweep, the handler of an update, an ingest task.     *)
(* Neither the loop nor the polling nor a job ever meets a closed client,  *)
(* or opens a session or an engine that nobody closes any more.            *)
OnlyStragglersAreLate ==
    late \subseteq {"initial-catch-up", "update"} \cup Batches

(* When stop has come to its end, what it released is open again only if   *)
(* one of those tasks has come after it.                                   *)
ReleasedForGood ==
    stage \in Ended /\ ~aborted /\ late = {} => open = {}

(* An album whose flush is pending when reader.stop removes the handler    *)
(* gets to the pipeline, whatever comes after: it is never dropped from    *)
(* the buffer by the end of the process.                                   *)
DrainIsComplete == \A b \in draining : batch[b] # "dropped"

(* A signal is answered by the end of the process, whatever the loop and   *)
(* the jobs are at and whatever is in the buffer.                          *)
StopEnds == signal ~> stage = "over"
=============================================================================
