--------------------------- MODULE InferenceReload ---------------------------
(***************************************************************************)
(* The inference workers of all channels (src/engine/src/inference) and the *)
(* two threads that stop them: the config monitor, which reloads the models  *)
(* of one channel while the others keep running, and the main thread, which  *)
(* ends the program. Queues and threads are addressed through indices that    *)
(* are counted anew from models_per_chn at every use.                         *)
(*                                                                          *)
(* dispatch_mtx is held for reading by a submission, which is one action, and *)
(* for writing by a whole reload: a submission needs reload.pc = "idle".      *)
(*                                                                          *)
(* A definition marked "Mutant" is a plausible bug in another; no behaviour   *)
(* uses it as such.                                                           *)
(***************************************************************************)
EXTENDS Integers, Sequences, FiniteSets

CONSTANTS
    LastChannel,    \* the channels are 0..LastChannel
    Threads,        \* infer_worker threads of each channel; 0: no model at start-up
    QueueSize,      \* max_queue_size
    MaxFrames,      \* bound on the frames submitted to a channel
    MaxReloads      \* bound on the model reloads

Channels == 0..LastChannel

ASSUME ReloadAssumption ==
    /\ LastChannel \in Nat
    /\ Threads \in [Channels -> Nat]
    /\ QueueSize \in Nat \ {0}
    /\ MaxFrames \in Nat
    /\ MaxReloads \in Nat

VARIABLES
    models_per_chn,    \* one model per worker; a model is the number of the
                       \* configuration it was loaded from, or NoModel
    settings,          \* obj_thresh, nms_thresh and detect_classes of each
                       \* channel: the configuration they were taken from
    task_queues,       \* one per channel that has models
    worker,            \* the worker threads, in the order of worker_tids
    worker_started,
    chn_reload_stop,
    running,
    channel_results,
    active,            \* what model_status reports as running in each channel
    reload,            \* inference_reload_channel_model
    main,              \* inference_request_stop and inference_deinit
    submitted,         \* frames submitted to each channel
    reloads            \* reloads begun

vars == <<models_per_chn, settings, task_queues, worker, worker_started, chn_reload_stop,
          running, channel_results, active, reload, main, submitted, reloads>>

NoModel == 0
NoTask  == [chn |-> -1, seq |-> 0]
Gone    == [pc |-> "exited", chn |-> -1, queue |-> 0, model |-> NoModel, task |-> NoTask]
NoReload == [pc |-> "idle", chn |-> 0, models |-> <<>>, settings |-> 0]

(* get_queue_idx_for_chn: the queues of the channels before it come first.   *)
QueueIdx(c) == Cardinality({i \in 0..c : models_per_chn[i] # <<>>})

(* worker_start: the workers of the channels before it come first.           *)
WorkerRange(models, c) ==
    LET start[n \in Nat] == IF n = 0 THEN 0 ELSE start[n - 1] + Len(models[n - 1])
    IN  start[c] + 1 .. start[c] + Len(models[c])
WorkersOf(c) == WorkerRange(models_per_chn, c)

Starting(c, queue, model) ==
    [pc |-> "loop", chn |-> c, queue |-> queue, model |-> model, task |-> NoTask]

InitialModels == [c \in Channels |-> [i \in 1..Threads[c] |-> 1]]
Workers == UNION {WorkerRange(InitialModels, c) : c \in Channels}

(* inference_init; the creation of any worker may fail.                      *)
Init ==
    /\ models_per_chn = InitialModels
    /\ settings = [c \in Channels |-> 1]
    /\ task_queues = [q \in 1..Cardinality({c \in Channels : Threads[c] > 0}) |-> <<>>]
    /\ \E created \in SUBSET Workers :
         /\ worker_started = [w \in Workers |-> w \in created]
         /\ worker = [w \in Workers |->
                        IF w \in created
                        THEN LET c == CHOOSE c \in Channels : w \in WorkersOf(c)
                             IN  Starting(c, QueueIdx(c), 1)
                        ELSE Gone]
         /\ active = [c \in Channels |->
                        IF WorkersOf(c) \cap created # {} THEN 1 ELSE NoModel]
    /\ chn_reload_stop = [c \in Channels |-> FALSE]
    /\ running = TRUE
    /\ channel_results = [c \in Channels |->
                            [seq |-> 0, has_new |-> FALSE, model |-> NoModel, settings |-> 0]]
    /\ reload = NoReload
    /\ main = [pc |-> "run", queue |-> 1]
    /\ submitted = [c \in Channels |-> 0]
    /\ reloads = 0

Stopping(c) == ~running \/ chn_reload_stop[c]

-----------------------------------------------------------------------------
(* pthread_cond_signal and pthread_cond_broadcast on the variable of a queue. *)
Asleep(q) == {w \in Workers : worker[w].pc = "asleep" /\ worker[w].queue = q}

(* Mutant of WakeOne: a frame that is queued wakes nobody.                    *)
WakeNone(q) == UNCHANGED worker

(* Also the mutant of WakeAll: one of several workers is woken.              *)
WakeOne(q) ==
    IF Asleep(q) = {} THEN UNCHANGED worker
    ELSE \E w \in Asleep(q) : worker' = [worker EXCEPT ![w].pc = "locked"]
WakeAll(q) ==
    worker' = [w \in Workers |-> IF w \in Asleep(q) THEN [worker[w] EXCEPT !.pc = "locked"]
                                 ELSE worker[w]]

(* Mutant of Push: the queue is compared with its limit after the push only.  *)
PushLate(tasks, task) ==
    Append(IF Len(tasks) <= QueueSize THEN tasks
           ELSE SubSeq(tasks, Len(tasks) - QueueSize + 1, Len(tasks)), task)

Push(tasks, task) ==
    Append(IF Len(tasks) < QueueSize THEN tasks
           ELSE SubSeq(tasks, Len(tasks) - QueueSize + 2, Len(tasks)), task)

(* inference_process_source: push the newest frame, evict the oldest, wake   *)
(* one worker that waits on the queue's condition variable.                   *)
Submit(c) ==
    /\ reload.pc = "idle"
    /\ ~Stopping(c)
    /\ models_per_chn[c] # <<>>
    /\ submitted[c] < MaxFrames
    /\ task_queues' = [task_queues EXCEPT
                         ![QueueIdx(c)] = Push(@, [chn |-> c, seq |-> submitted[c] + 1])]
    /\ WakeOne(QueueIdx(c))
    /\ submitted' = [submitted EXCEPT ![c] = @ + 1]
    /\ UNCHANGED <<models_per_chn, settings, worker_started, chn_reload_stop, running,
                   channel_results, active, reload, main, reloads>>

(* inference_take_results.                                                   *)
TakeResult(c) ==
    /\ channel_results[c].has_new
    /\ channel_results' = [channel_results EXCEPT ![c].has_new = FALSE]
    /\ UNCHANGED <<models_per_chn, settings, task_queues, worker, worker_started,
                   chn_reload_stop, running, active, reload, main, submitted, reloads>>

-----------------------------------------------------------------------------
(* inference_worker_thread.                                                  *)

vars_but_worker == <<models_per_chn, settings, worker_started, chn_reload_stop, running,
                     active, reload, main, submitted, reloads>>

WorkerLoop(w) ==
    /\ worker[w].pc = "loop"
    /\ worker' = [worker EXCEPT ![w].pc = IF Stopping(worker[w].chn) THEN "exited" ELSE "locked"]
    /\ UNCHANGED <<vars_but_worker, task_queues, channel_results>>

(* With the queue's mutex: take a task, leave, or wait. A worker that is     *)
(* stopped still takes what is left in the queue.                             *)
WorkerDequeue(w) ==
    LET q == worker[w].queue IN
    /\ worker[w].pc = "locked"
    /\ IF task_queues[q] # <<>>
       THEN /\ worker' = [worker EXCEPT ![w] = [@ EXCEPT !.pc = "took", !.task = Head(task_queues[q])]]
            /\ task_queues' = [task_queues EXCEPT ![q] = Tail(@)]
       ELSE /\ worker' = [worker EXCEPT ![w].pc = IF Stopping(worker[w].chn) THEN "exited" ELSE "asleep"]
            /\ UNCHANGED task_queues
    /\ UNCHANGED <<vars_but_worker, channel_results>>

(* A task is dropped while the program is paused, when the worker is to stop  *)
(* and when the channel has no model.                                         *)
WorkerRun(w) ==
    /\ worker[w].pc = "took"
    /\ \/ worker' = [worker EXCEPT ![w] = [@ EXCEPT !.pc = "loop", !.task = NoTask]]
       \/ /\ Stopping(worker[w].chn)
          /\ worker' = [worker EXCEPT ![w] = [@ EXCEPT !.pc = "exited", !.task = NoTask]]
       \/ /\ ~Stopping(worker[w].chn)
          /\ worker[w].model # NoModel
          /\ worker' = [worker EXCEPT ![w].pc = "run"]
    /\ UNCHANGED <<vars_but_worker, task_queues, channel_results>>

(* The model fails, or its result is filtered with the channel's settings and *)
(* written unless it is older than the last one.                               *)
WorkerFinish(w) ==
    LET c == worker[w].task.chn IN
    /\ worker[w].pc = "run"
    /\ \/ UNCHANGED channel_results
       \/ /\ worker[w].task.seq > channel_results[c].seq
          /\ channel_results' = [channel_results EXCEPT
                ![c] = [seq |-> worker[w].task.seq, has_new |-> TRUE,
                        model |-> worker[w].model, settings |-> settings[c]]]
    /\ worker' = [worker EXCEPT ![w] = [@ EXCEPT !.pc = "loop", !.task = NoTask]]
    /\ UNCHANGED <<vars_but_worker, task_queues>>

-----------------------------------------------------------------------------
(* inference_reload_channel_model, in the config monitor.                    *)

(* A channel without a queue, and a change of the thread count, are refused   *)
(* before anything is touched.                                                 *)
ReloadBegin(c) ==
    /\ reload.pc = "idle"
    /\ running
    /\ models_per_chn[c] # <<>>
    /\ reloads < MaxReloads
    /\ reloads' = reloads + 1
    /\ reload' = [pc |-> "broadcast", chn |-> c, models |-> models_per_chn[c],
                  settings |-> settings[c]]
    /\ chn_reload_stop' = [chn_reload_stop EXCEPT ![c] = TRUE]
    /\ UNCHANGED <<models_per_chn, settings, task_queues, worker, worker_started, running,
                   channel_results, active, main, submitted>>

ReloadBroadcast(from, to) ==
    /\ reload.pc = from
    /\ reload' = [reload EXCEPT !.pc = to]
    /\ WakeAll(QueueIdx(reload.chn))
    /\ UNCHANGED <<models_per_chn, settings, task_queues, worker_started, chn_reload_stop,
                   running, channel_results, active, main, submitted, reloads>>

(* pthread_join of every worker of the channel that was started.             *)
ReloadJoin(from, to) ==
    /\ reload.pc = from
    /\ \A w \in WorkersOf(reload.chn) : worker_started[w] => worker[w].pc = "exited"
    /\ reload' = [reload EXCEPT !.pc = to]
    /\ worker_started' = [w \in Workers |-> worker_started[w] /\ w \notin WorkersOf(reload.chn)]
    /\ UNCHANGED <<models_per_chn, settings, task_queues, worker, chn_reload_stop, running,
                   channel_results, active, main, submitted, reloads>>

ReloadClear ==
    /\ reload.pc = "clear"
    /\ reload' = [reload EXCEPT !.pc = "load"]
    /\ task_queues' = [task_queues EXCEPT ![QueueIdx(reload.chn)] = <<>>]
    /\ UNCHANGED <<models_per_chn, settings, worker, worker_started, chn_reload_stop, running,
                   channel_results, active, main, submitted, reloads>>

(* Mutant of Dropped: a result of the old model stays for the dispatcher.    *)
Kept(result) == result

Dropped(result) == [result EXCEPT !.has_new = FALSE]

(* restart_workers: the result of the old model is dropped, but not the       *)
(* number of the last frame. The models of a channel are all of one           *)
(* configuration.                                                              *)
Restart(models, created) ==
    LET c == reload.chn
        model == IF models = <<>> THEN NoModel ELSE models[1]
    IN  /\ models_per_chn' = [models_per_chn EXCEPT ![c] = models]
        /\ channel_results' = [channel_results EXCEPT ![c] = Dropped(@)]
        /\ chn_reload_stop' = [chn_reload_stop EXCEPT ![c] = FALSE]
        /\ worker_started' = [w \in Workers |-> IF w \in WorkersOf(c) THEN w \in created
                                                ELSE worker_started[w]]
        /\ worker' = [w \in Workers |-> IF w \in created THEN Starting(c, QueueIdx(c), model)
                                        ELSE worker[w]]

(* Mutant of Loaded: a channel without a model has an empty vector of models. *)
LoadedOrNone(version) == IF version = NoModel THEN <<>> ELSE [i \in 1..Len(reload.models) |-> version]

Loaded(version) == [i \in 1..Len(reload.models) |-> version]

(* The new models, or none if inference is disabled. When every worker could  *)
(* be created the reload is applied, else it stops those that were.            *)
ReloadApply ==
    /\ reload.pc = "load"
    /\ \E version \in {NoModel, reloads + 1}, created \in SUBSET WorkersOf(reload.chn) :
         /\ Restart(Loaded(version), created)
         /\ settings' = IF version = NoModel THEN settings
                        ELSE [settings EXCEPT ![reload.chn] = version]
         /\ IF created = WorkersOf(reload.chn)
            THEN /\ reload' = NoReload
                 /\ active' = [active EXCEPT ![reload.chn] = version]
            ELSE /\ reload' = [reload EXCEPT !.pc = "stop_new"]
                 /\ UNCHANGED active
    /\ UNCHANGED <<task_queues, running, main, submitted, reloads>>

(* A model cannot be loaded.                                                  *)
ReloadFail ==
    /\ reload.pc = "load"
    /\ reload' = [reload EXCEPT !.pc = "restore"]
    /\ UNCHANGED <<models_per_chn, settings, task_queues, worker, worker_started,
                   chn_reload_stop, running, channel_results, active, main, submitted, reloads>>

ReloadStopNew ==
    /\ reload.pc = "stop_new"
    /\ chn_reload_stop' = [chn_reload_stop EXCEPT ![reload.chn] = TRUE]
    /\ reload' = [reload EXCEPT !.pc = "broadcast_new"]
    /\ UNCHANGED <<models_per_chn, settings, task_queues, worker, worker_started, running,
                   channel_results, active, main, submitted, reloads>>

(* Mutants of RestoredSettings and RestoredReport: the filters of the rejected *)
(* model stay; a channel whose workers are gone keeps its report.              *)
RejectedSettings == settings
UncheckedReport(created) == active

RestoredSettings == [settings EXCEPT ![reload.chn] = reload.settings]
RestoredReport(created) ==
    IF created = WorkersOf(reload.chn) THEN active
    ELSE [active EXCEPT ![reload.chn] = NoModel]

(* restore_old_workers; if it cannot create them all, no model is reported.  *)
ReloadRestore ==
    /\ reload.pc = "restore"
    /\ \E created \in SUBSET WorkersOf(reload.chn) :
         /\ Restart(reload.models, created)
         /\ active' = RestoredReport(created)
    /\ settings' = RestoredSettings
    /\ reload' = NoReload
    /\ UNCHANGED <<task_queues, running, main, submitted, reloads>>

-----------------------------------------------------------------------------
(* inference_request_stop and inference_deinit; main has joined the config    *)
(* monitor before.                                                            *)
StopRequest ==
    /\ main.pc = "run"
    /\ reload.pc = "idle"
    /\ running' = FALSE
    /\ main' = [main EXCEPT !.pc = "broadcast"]
    /\ UNCHANGED <<models_per_chn, settings, task_queues, worker, worker_started,
                   chn_reload_stop, channel_results, active, reload, submitted, reloads>>

StopBroadcast ==
    /\ main.pc = "broadcast"
    /\ IF main.queue <= Len(task_queues)
       THEN /\ WakeAll(main.queue)
            /\ main' = [main EXCEPT !.queue = @ + 1]
       ELSE /\ main' = [main EXCEPT !.pc = "join"]
            /\ UNCHANGED worker
    /\ UNCHANGED <<models_per_chn, settings, task_queues, worker_started, chn_reload_stop,
                   running, channel_results, active, reload, submitted, reloads>>

(* All workers are joined, then queues, models and results are discarded.    *)
StopJoin ==
    /\ main.pc = "join"
    /\ \A w \in Workers : worker_started[w] => worker[w].pc = "exited"
    /\ main' = [main EXCEPT !.pc = "exited"]
    /\ worker_started' = [w \in Workers |-> FALSE]
    /\ task_queues' = <<>>
    /\ models_per_chn' = [c \in Channels |-> <<>>]
    /\ channel_results' = [c \in Channels |-> [channel_results[c] EXCEPT !.has_new = FALSE]]
    /\ active' = [c \in Channels |-> NoModel]
    /\ UNCHANGED <<settings, worker, chn_reload_stop, running, reload, submitted, reloads>>

Exited == main.pc = "exited" /\ UNCHANGED vars

-----------------------------------------------------------------------------
Worker(w) == WorkerLoop(w) \/ WorkerDequeue(w) \/ WorkerRun(w) \/ WorkerFinish(w)
Reload ==
    \/ ReloadBroadcast("broadcast", "join")
    \/ ReloadJoin("join", "clear")
    \/ ReloadClear
    \/ ReloadApply
    \/ ReloadFail
    \/ ReloadStopNew
    \/ ReloadBroadcast("broadcast_new", "join_new")
    \/ ReloadJoin("join_new", "restore")
    \/ ReloadRestore
Stop == StopBroadcast \/ StopJoin

Next ==
    \/ \E c \in Channels : Submit(c) \/ TakeResult(c) \/ ReloadBegin(c)
    \/ \E w \in Workers : Worker(w)
    \/ Reload
    \/ StopRequest
    \/ Stop
    \/ Exited

Spec == Init /\ [][Next]_vars

(* Threads keep running, and a model finishes with the frame it was given.   *)
FairSpec ==
    /\ Spec
    /\ \A w \in Workers : WF_vars(Worker(w))
    /\ WF_vars(Reload)
    /\ WF_vars(Stop)

-----------------------------------------------------------------------------
Version == 0..MaxReloads + 1
Task    == [chn : Channels \cup {-1}, seq : 0..MaxFrames]

TypeOK ==
    /\ models_per_chn \in [Channels -> Seq(Version)]
    /\ settings \in [Channels -> Version]
    /\ task_queues \in Seq(Seq(Task))
    /\ \A q \in DOMAIN task_queues : Len(task_queues[q]) <= QueueSize
    /\ worker \in [Workers -> [pc : {"loop", "locked", "asleep", "took", "run", "exited"},
                               chn : Channels \cup {-1}, queue : Nat, model : Version, task : Task]]
    /\ worker_started \in [Workers -> BOOLEAN]
    /\ chn_reload_stop \in [Channels -> BOOLEAN]
    /\ running \in BOOLEAN
    /\ channel_results \in [Channels -> [seq : 0..MaxFrames, has_new : BOOLEAN,
                                         model : Version, settings : Version]]
    /\ active \in [Channels -> Version]
    /\ reload \in [pc : {"idle", "broadcast", "join", "clear", "load", "stop_new",
                         "broadcast_new", "join_new", "restore"},
                   chn : Channels, models : Seq(Version), settings : Version]
    /\ main \in [pc : {"run", "broadcast", "join", "exited"}, queue : Nat]
    /\ submitted \in [Channels -> 0..MaxFrames]
    /\ reloads \in 0..MaxReloads

(* A frame is analysed by the workers of its own channel, whatever was        *)
(* reloaded before: the queue and worker indices keep meaning the same          *)
(* channel, also when a channel no longer has a model                           *)
(* (inference_engine.cpp:470-478, 705-709, 809).                                 *)
TasksStayInChannel ==
    \A w \in Workers :
        /\ worker[w].task # NoTask => worker[w].task.chn = worker[w].chn
        /\ worker_started[w] =>
              \A i \in 1..Len(task_queues[worker[w].queue]) :
                  task_queues[worker[w].queue][i].chn = worker[w].chn

(* Outside a reload of its channel, a result that waits to be dispatched was  *)
(* computed by the channel's current model and filtered with the thresholds    *)
(* and classes of that model's configuration (inference_engine.cpp:746-754).    *)
ResultOfCurrentModel ==
    \A c \in Channels :
        channel_results[c].has_new =>
            /\ channel_results[c].settings = channel_results[c].model
            /\ ~chn_reload_stop[c] /\ reload.pc = "idle" =>
                  channel_results[c].model = models_per_chn[c][1]

(* A reload that has ended left all of a channel or nothing of it changed:     *)
(* every worker that runs has the current model, the filters are those of that *)
(* model, and the stop flag is down (inference_engine.cpp:793-805, 888-916).    *)
ReloadIsAtomic ==
    reload.pc = "idle" /\ running =>
        /\ \A c \in Channels :
              /\ ~chn_reload_stop[c]
              /\ Len(models_per_chn[c]) = Threads[c]
              /\ \A i \in 1..Threads[c] : models_per_chn[c][i] \in {NoModel, settings[c]}
        /\ \A w \in Workers :
              worker_started[w] =>
                  /\ worker[w].pc # "exited"
                  /\ worker[w].model = models_per_chn[worker[w].chn][1]

(* The model that the status page reports is the one that runs, in all of the *)
(* channel's workers (docs/business-coordinates.md:70-72); at start-up one is  *)
(* enough to report it (inference_engine.cpp:353-357).                          *)
ReportedModelRuns ==
    reload.pc = "idle" /\ running =>
        \A c \in Channels :
            active[c] # NoModel =>
                /\ active[c] = models_per_chn[c][1]
                /\ \E w \in WorkersOf(c) : worker_started[w]
                /\ active[c] > 1 => \A w \in WorkersOf(c) : worker_started[w]

(* A frame in the queue has a worker that is awake: the wake-up of one worker *)
(* per frame is enough, although workers leave and re-enter the wait            *)
(* (inference_engine.cpp:519, inference_executor.cpp:577-586).                   *)
NoFrameForgotten ==
    running /\ reload.pc = "idle" =>
        \A c \in Channels :
            /\ models_per_chn[c] # <<>>
            /\ task_queues[QueueIdx(c)] # <<>>
            /\ \E w \in WorkersOf(c) : worker_started[w]
            => \E w \in WorkersOf(c) : worker[w].pc \notin {"asleep", "exited"}

(* A reload comes to an end, whatever the workers are doing, so the callbacks  *)
(* of the other channels are not blocked for good.                              *)
ReloadTerminates == reload.pc # "idle" ~> reload.pc = "idle"

(* After a request to stop every worker ends: no wake-up is lost               *)
(* (inference_engine.cpp:372-373).                                               *)
StopTerminates == ~running ~> main.pc = "exited"

=============================================================================
