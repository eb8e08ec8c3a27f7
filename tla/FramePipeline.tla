---------------------------- MODULE FramePipeline ----------------------------
(***************************************************************************)
(* One video channel of the engine (src/engine/src/pipeline and inference):*)
(* the decoder callback submits frames, inference workers turn queued       *)
(* frames into results, the dispatch worker and the traditional-logic       *)
(* worker process them under g_process_mtx and publish, while other threads *)
(* take the channel offline and online, switch inference on and off and     *)
(* publish a new runtime configuration.                                     *)
(*                                                                          *)
(* Critical sections of chn_mtx, queue mutexes and result mutexes are one   *)
(* action each; g_process_mtx is held across actions and has a holder.      *)
(*                                                                          *)
(* A definition marked "Mutant" is a plausible bug in the definition that   *)
(* follows it; no behaviour uses it.                                        *)
(***************************************************************************)
EXTENDS Integers, Sequences, FiniteSets

CONSTANTS
    InferWorkers,     \* the inference worker threads of the channel
    SourceControls,   \* the threads that call pipeline_channel_offline/online
    ColdStart,        \* those that wait for their first connection at start-up
    Operators,        \* which of "infer_toggle" and "pause" an operator may use
    QueueSize,        \* max_queue_size of the channel's inference task queue
    MaxFrames,        \* bound on input_frame_seq
    MaxClock,         \* bound on the millisecond clock
    MaxEpochs,        \* bound on the online transitions of the channel
    MaxGenerations    \* bound on the runtime configuration generation

ASSUME PipelineAssumption ==
    /\ ColdStart \subseteq SourceControls
    /\ QueueSize \in Nat \ {0}
    /\ MaxFrames \in Nat
    /\ MaxClock \in Nat \ {0}
    /\ MaxEpochs \in Nat
    /\ MaxGenerations \in Nat \ {0}

VARIABLES
    clock,                     \* steady_now_ms(); several events may share a value
    paused,                    \* pause_ctrl::is_paused()
    generation,                \* generation of the published runtime snapshot
    input_frame_seq,           \* ChannelState, guarded by chn_mtx
    accept_results_after_seq,
    online_state,
    online_ts_ms,
    infer_runtime_enable,
    published,                 \* what the channel's observers see: the last frame
                               \* committed by a worker, or NoPublication
    inlet,                     \* the decoder callback inside pipeline_submit_frame
    task_queue,                \* InferenceTaskQueue::q
    infer_worker,              \* each inference worker's position and task
    channel_result,            \* InferenceChannelResult
    result_dispatch_pending,
    dispatch,                  \* pipeline_dispatch_worker
    logic_slot,                \* TraditionalLogicQueue: a single overwritten slot
    logic_worker,              \* pipeline_logic_worker
    process_mtx,               \* holder of g_process_mtx, or NoOne
    tracker,                   \* epochs of the frames the tracker has absorbed
    source,                    \* position of each source-controlling thread
    epoch,                     \* history: number of online transitions so far
    newest                     \* history: newest sequence number each path published

vars == <<clock, paused, generation, input_frame_seq, accept_results_after_seq,
          online_state, online_ts_ms, infer_runtime_enable, published,
          inlet, task_queue, infer_worker, channel_result,
          result_dispatch_pending, dispatch, logic_slot, logic_worker,
          process_mtx, tracker, source, epoch, newest>>

-----------------------------------------------------------------------------
(* A frame carries the sequence number given by pipeline_submit_frame, the  *)
(* steady clock read at its entry and, for the properties only, the epoch   *)
(* in which it was captured.                                                *)

Frame == [seq : 0..MaxFrames, ts : 0..MaxClock, epoch : 0..MaxEpochs]

NoFrame == [seq |-> 0, ts |-> 0, epoch |-> 0]
NoTask  == [frame |-> NoFrame, generation |-> 0]
NoOne   == "none"
IdleInlet  == [pc |-> "idle", ts |-> 0, epoch |-> 0, seq |-> 0, infer |-> FALSE]
IdleWorker == [pc |-> "idle", frame |-> NoFrame]
NoPublication == [path |-> "none", frame |-> NoFrame]

(* Mutant: a frame as old as the reconnect counts as new.                   *)
StaleAfterReconnectStrict(frame) == online_ts_ms # 0 /\ frame.ts < online_ts_ms

(* ChannelState::online_ts_ms starts at 0, which both workers read as       *)
(* "never came online": no frame is stale then.                             *)
StaleAfterReconnect(frame) == online_ts_ms # 0 /\ frame.ts <= online_ts_ms

Init ==
    /\ clock = 1
    /\ paused = FALSE
    /\ generation = 1
    /\ input_frame_seq = 0
    /\ accept_results_after_seq = 0
    /\ online_state = "online"
    /\ online_ts_ms = 0
    /\ infer_runtime_enable = TRUE
    /\ published = NoPublication
    /\ inlet = IdleInlet
    /\ task_queue = <<>>
    /\ infer_worker = [w \in InferWorkers |-> IdleWorker]
    /\ channel_result = [frame |-> NoFrame, latest_seq |-> 0, has_new |-> FALSE]
    /\ result_dispatch_pending = FALSE
    /\ dispatch = [pc |-> "wait", frame |-> NoFrame]
    /\ logic_slot = NoTask
    /\ logic_worker = [pc |-> "wait", task |-> NoTask]
    /\ process_mtx = NoOne
    /\ tracker = {}
    /\ source = [c \in SourceControls |-> IF c \in ColdStart THEN "down" ELSE "up"]
    /\ epoch = 0
    /\ newest = [infer |-> 0, logic |-> 0]

-----------------------------------------------------------------------------
(* pipeline_submit_frame: the entry of the decoder callback.                *)

vars_channel == <<accept_results_after_seq, online_state, online_ts_ms,
                  published, newest>>
vars_infer   == <<task_queue, infer_worker, channel_result, result_dispatch_pending>>
vars_logic   == <<logic_slot, logic_worker>>
vars_ctl     == <<clock, paused, generation, infer_runtime_enable, source, epoch>>

(* The clocks are read at the entry; the runtime inference switch is read   *)
(* before the sequence number is assigned.                                  *)
SubmitBegin ==
    /\ inlet.pc = "idle"
    /\ ~paused
    /\ inlet' = [pc |-> "seq", ts |-> clock, epoch |-> epoch, seq |-> 0,
                 infer |-> infer_runtime_enable]
    /\ UNCHANGED <<input_frame_seq, vars_channel, vars_infer, dispatch, vars_logic,
                   process_mtx, tracker, vars_ctl>>

(* ++input_frame_seq. The FPS throttle skips the analysis of some frames:   *)
(* they use up a number and go no further than the preview.                 *)
SubmitSeq ==
    /\ inlet.pc = "seq"
    /\ input_frame_seq < MaxFrames
    /\ input_frame_seq' = input_frame_seq + 1
    /\ \/ inlet' = [inlet EXCEPT !.pc = "enqueue", !.seq = input_frame_seq + 1]
       \/ inlet' = IdleInlet
    /\ UNCHANGED <<vars_channel, vars_infer, dispatch, vars_logic, process_mtx,
                   tracker, vars_ctl>>

InletFrame == [seq |-> inlet.seq, ts |-> inlet.ts, epoch |-> inlet.epoch]

(* The oldest pending tasks make room for the newest one.                   *)
EvictOldest(q) ==
    IF Len(q) < QueueSize THEN q ELSE SubSeq(q, Len(q) - QueueSize + 2, Len(q))

(* inference_process_source: enqueue, or fail (no buffer, model reload).    *)
SubmitInfer ==
    /\ inlet.pc = "enqueue"
    /\ inlet.infer
    /\ \/ task_queue' = Append(EvictOldest(task_queue), InletFrame)
       \/ UNCHANGED task_queue
    /\ inlet' = IdleInlet
    /\ UNCHANGED <<input_frame_seq, vars_channel, infer_worker, channel_result,
                   result_dispatch_pending, dispatch, vars_logic, process_mtx,
                   tracker, vars_ctl>>

(* traditional_logic_publish: overwrite the slot, stamped with the current  *)
(* generation; a frame whose source could not be retained is dropped.       *)
SubmitLogic ==
    /\ inlet.pc = "enqueue"
    /\ ~inlet.infer
    /\ \/ logic_slot' = [frame |-> InletFrame, generation |-> generation]
       \/ UNCHANGED logic_slot
    /\ inlet' = IdleInlet
    /\ UNCHANGED <<input_frame_seq, vars_channel, vars_infer, dispatch, logic_worker,
                   process_mtx, tracker, vars_ctl>>

-----------------------------------------------------------------------------
(* inference_worker_thread.                                                 *)

InferTake(w) ==
    /\ infer_worker[w].pc = "idle"
    /\ task_queue # <<>>
    /\ infer_worker' = [infer_worker EXCEPT ![w] = [pc |-> "took", frame |-> Head(task_queue)]]
    /\ task_queue' = Tail(task_queue)
    /\ UNCHANGED <<input_frame_seq, vars_channel, inlet, channel_result,
                   result_dispatch_pending, dispatch, vars_logic, process_mtx,
                   tracker, vars_ctl>>

(* A task taken while the program is paused is dropped.                     *)
InferStart(w) ==
    /\ infer_worker[w].pc = "took"
    /\ infer_worker' = [infer_worker EXCEPT ![w] = IF paused THEN IdleWorker ELSE [@ EXCEPT !.pc = "run"]]
    /\ UNCHANGED <<input_frame_seq, vars_channel, inlet, task_queue, channel_result,
                   result_dispatch_pending, dispatch, vars_logic, process_mtx,
                   tracker, vars_ctl>>

InferFail(w) ==
    /\ infer_worker[w].pc = "run"
    /\ infer_worker' = [infer_worker EXCEPT ![w] = IdleWorker]
    /\ UNCHANGED <<input_frame_seq, vars_channel, inlet, task_queue, channel_result,
                   result_dispatch_pending, dispatch, vars_logic, process_mtx,
                   tracker, vars_ctl>>

(* Mutant: the last worker to finish wins.                                  *)
InferWriteAlways(w) ==
    LET frame == infer_worker[w].frame IN
    /\ infer_worker[w].pc = "run"
    /\ channel_result' = [frame |-> frame, latest_seq |-> frame.seq, has_new |-> TRUE]
    /\ infer_worker' = [infer_worker EXCEPT ![w].pc = "signal"]
    /\ UNCHANGED <<input_frame_seq, vars_channel, inlet, task_queue,
                   result_dispatch_pending, dispatch, vars_logic, process_mtx,
                   tracker, vars_ctl>>

(* A result older than the newest one written is discarded.                 *)
InferWrite(w) ==
    LET frame == infer_worker[w].frame IN
    /\ infer_worker[w].pc = "run"
    /\ IF frame.seq > channel_result.latest_seq
       THEN /\ channel_result' = [frame |-> frame, latest_seq |-> frame.seq, has_new |-> TRUE]
            /\ infer_worker' = [infer_worker EXCEPT ![w].pc = "signal"]
       ELSE /\ infer_worker' = [infer_worker EXCEPT ![w] = IdleWorker]
            /\ UNCHANGED channel_result
    /\ UNCHANGED <<input_frame_seq, vars_channel, inlet, task_queue,
                   result_dispatch_pending, dispatch, vars_logic, process_mtx,
                   tracker, vars_ctl>>

(* Mutant: the flag is not kept for a dispatcher that is busy.              *)
InferSignalIfWaiting(w) ==
    /\ infer_worker[w].pc = "signal"
    /\ infer_worker' = [infer_worker EXCEPT ![w] = IdleWorker]
    /\ result_dispatch_pending' = (result_dispatch_pending \/ dispatch.pc = "wait")
    /\ UNCHANGED <<input_frame_seq, vars_channel, inlet, task_queue, channel_result,
                   dispatch, vars_logic, process_mtx, tracker, vars_ctl>>

(* The result is announced in a critical section of its own.                *)
InferSignal(w) ==
    /\ infer_worker[w].pc = "signal"
    /\ infer_worker' = [infer_worker EXCEPT ![w] = IdleWorker]
    /\ result_dispatch_pending' = TRUE
    /\ UNCHANGED <<input_frame_seq, vars_channel, inlet, task_queue, channel_result,
                   dispatch, vars_logic, process_mtx, tracker, vars_ctl>>

-----------------------------------------------------------------------------
(* process_channel_results and invoke_channel_logic, entered with            *)
(* g_process_mtx held: the checks and the tracker first, then the logic      *)
(* outside chn_mtx, then the commit. Only the inference switch can change in *)
(* between: every other writer of the channel state takes g_process_mtx.     *)

ProcessBegin(holder, frame, tracked) ==
    /\ process_mtx' = holder
    /\ tracker' = IF tracked THEN tracker \cup {frame.epoch} ELSE tracker
    /\ UNCHANGED <<accept_results_after_seq, online_state, online_ts_ms, published, newest>>

ProcessCommit(path, frame) ==
    /\ published' = [path |-> path, frame |-> frame]
    /\ newest' = [newest EXCEPT ![path] = frame.seq]
    /\ process_mtx' = NoOne
    /\ UNCHANGED <<accept_results_after_seq, online_state, online_ts_ms, tracker>>

ProcessReject ==
    UNCHANGED <<vars_channel, process_mtx, tracker>>

-----------------------------------------------------------------------------
(* pipeline_dispatch_worker.                                                *)

IdleDispatch == [pc |-> "wait", frame |-> NoFrame]

(* inference_wait_result consumes the flag; without it the timed wait       *)
(* expires and the loop starts over.                                        *)
DispatchWait ==
    /\ dispatch.pc = "wait"
    /\ result_dispatch_pending
    /\ result_dispatch_pending' = FALSE
    /\ dispatch' = [dispatch EXCEPT !.pc = "take"]
    /\ UNCHANGED <<input_frame_seq, vars_channel, inlet, task_queue, infer_worker,
                   channel_result, vars_logic, process_mtx, tracker, vars_ctl>>

(* inference_take_results.                                                  *)
DispatchTake ==
    /\ dispatch.pc = "take"
    /\ IF channel_result.has_new
       THEN /\ dispatch' = [pc |-> "check", frame |-> channel_result.frame]
            /\ channel_result' = [channel_result EXCEPT !.frame = NoFrame, !.has_new = FALSE]
       ELSE /\ dispatch' = IdleDispatch
            /\ UNCHANGED channel_result
    /\ UNCHANGED <<input_frame_seq, vars_channel, inlet, task_queue, infer_worker,
                   result_dispatch_pending, vars_logic, process_mtx, tracker, vars_ctl>>

(* The sequence barrier is read under chn_mtx, before g_process_mtx.        *)
DispatchCheck ==
    /\ dispatch.pc = "check"
    /\ dispatch' = IF dispatch.frame.seq <= accept_results_after_seq
                   THEN IdleDispatch
                   ELSE [dispatch EXCEPT !.pc = "lock"]
    /\ UNCHANGED <<input_frame_seq, vars_channel, inlet, vars_infer, vars_logic,
                   process_mtx, tracker, vars_ctl>>

(* A result is refused while the channel is offline, when its frame is not  *)
(* younger than the last online transition, and while inference is off.     *)
AcceptResult(frame) ==
    /\ online_state = "online"
    /\ ~StaleAfterReconnect(frame)
    /\ infer_runtime_enable

(* Mutant: the dispatcher does not wait for g_process_mtx.                  *)
DispatchProcessUnlocked ==
    /\ dispatch.pc = "lock"
    /\ IF AcceptResult(dispatch.frame)
       THEN /\ ProcessBegin("dispatch", dispatch.frame, TRUE)
            /\ dispatch' = [dispatch EXCEPT !.pc = "commit"]
       ELSE /\ ProcessReject
            /\ dispatch' = IdleDispatch
    /\ UNCHANGED <<input_frame_seq, inlet, vars_infer, vars_logic, vars_ctl>>

(* The dispatcher waits for g_process_mtx and enters process_channel_results. *)
DispatchProcess ==
    /\ dispatch.pc = "lock"
    /\ process_mtx = NoOne
    /\ IF AcceptResult(dispatch.frame)
       THEN /\ ProcessBegin("dispatch", dispatch.frame, TRUE)
            /\ dispatch' = [dispatch EXCEPT !.pc = "commit"]
       ELSE /\ ProcessReject
            /\ dispatch' = IdleDispatch
    /\ UNCHANGED <<input_frame_seq, inlet, vars_infer, vars_logic, vars_ctl>>

DispatchCommit ==
    /\ dispatch.pc = "commit"
    /\ ProcessCommit("infer", dispatch.frame)
    /\ dispatch' = IdleDispatch
    /\ UNCHANGED <<input_frame_seq, inlet, vars_infer, vars_logic, vars_ctl>>

-----------------------------------------------------------------------------
(* pipeline_logic_worker.                                                   *)

IdleLogicWorker == [pc |-> "wait", task |-> NoTask]

LogicTake ==
    /\ logic_worker.pc = "wait"
    /\ logic_slot # NoTask
    /\ logic_worker' = [pc |-> "took", task |-> logic_slot]
    /\ logic_slot' = NoTask
    /\ UNCHANGED <<input_frame_seq, vars_channel, inlet, vars_infer, dispatch,
                   process_mtx, tracker, vars_ctl>>

LogicStart ==
    /\ logic_worker.pc = "took"
    /\ logic_worker' = IF paused THEN IdleLogicWorker ELSE [logic_worker EXCEPT !.pc = "lock"]
    /\ UNCHANGED <<input_frame_seq, vars_channel, inlet, vars_infer, dispatch, logic_slot,
                   process_mtx, tracker, vars_ctl>>

(* channel_should_run_traditional_logic, evaluated under g_process_mtx.     *)
ShouldRunTraditionalLogic(task) ==
    /\ task.generation = generation
    /\ online_state = "online"
    /\ ~StaleAfterReconnect(task.frame)
    /\ ~infer_runtime_enable

LogicProcess ==
    /\ logic_worker.pc = "lock"
    /\ process_mtx = NoOne
    /\ IF ShouldRunTraditionalLogic(logic_worker.task)
       THEN /\ ProcessBegin("logic", logic_worker.task.frame, FALSE)
            /\ logic_worker' = [logic_worker EXCEPT !.pc = "commit"]
       ELSE /\ ProcessReject
            /\ logic_worker' = IdleLogicWorker
    /\ UNCHANGED <<input_frame_seq, inlet, vars_infer, dispatch, logic_slot, vars_ctl>>

LogicCommit ==
    /\ logic_worker.pc = "commit"
    /\ ProcessCommit("logic", logic_worker.task.frame)
    /\ logic_worker' = IdleLogicWorker
    /\ UNCHANGED <<input_frame_seq, inlet, vars_infer, dispatch, logic_slot, vars_ctl>>

-----------------------------------------------------------------------------
(* pipeline_channel_offline and pipeline_channel_online, called by the bus  *)
(* thread, a seek or the configuration monitor: empty the traditional slot, *)
(* reset the channel state under g_process_mtx, and reset the tracker in a   *)
(* second critical section.                                                  *)

ClearLogicSlot(c, from, to) ==
    /\ source[c] \in from
    /\ source' = [source EXCEPT ![c] = to]
    /\ logic_slot' = NoTask
    /\ UNCHANGED <<input_frame_seq, vars_channel, inlet, vars_infer, dispatch,
                   logic_worker, process_mtx, tracker, clock, paused, generation,
                   infer_runtime_enable, epoch>>

(* Results, logic state, outputs and the published frame are all cleared,   *)
(* and results of frames already submitted are barred.                      *)
ResetChannel ==
    /\ process_mtx = NoOne
    /\ published' = NoPublication
    /\ accept_results_after_seq' = input_frame_seq
    /\ UNCHANGED <<input_frame_seq, inlet, vars_infer, dispatch, vars_logic, process_mtx,
                   tracker, clock, paused, generation, infer_runtime_enable, newest>>

(* pipeline_reset_tracker_ids.                                              *)
ResetTracker(c, from, to) ==
    /\ source[c] = from
    /\ process_mtx = NoOne
    /\ tracker' = {}
    /\ source' = [source EXCEPT ![c] = to]
    /\ UNCHANGED <<input_frame_seq, vars_channel, inlet, vars_infer, dispatch, vars_logic,
                   process_mtx, clock, paused, generation, infer_runtime_enable, epoch>>

OfflineClear(c) == ClearLogicSlot(c, {"up", "down"}, "offline_state")

OfflineState(c) ==
    /\ source[c] = "offline_state"
    /\ ResetChannel
    /\ online_state' = "offline"
    /\ source' = [source EXCEPT ![c] = "offline_tracker"]
    /\ UNCHANGED <<online_ts_ms, epoch>>


OfflineTracker(c) == ResetTracker(c, "offline_tracker", "down")

OnlineClear(c) == ClearLogicSlot(c, {"down"}, "online_state")

(* Mutant: only the first connection is dated.                              *)
OnlineStateDatedOnce(c) ==
    /\ source[c] = "online_state"
    /\ epoch < MaxEpochs
    /\ ResetChannel
    /\ online_state' = "online"
    /\ online_ts_ms' = IF online_ts_ms = 0 THEN clock ELSE online_ts_ms
    /\ epoch' = epoch + 1
    /\ source' = [source EXCEPT ![c] = "online_tracker"]

OnlineState(c) ==
    /\ source[c] = "online_state"
    /\ epoch < MaxEpochs
    /\ ResetChannel
    /\ online_state' = "online"
    /\ online_ts_ms' = clock
    /\ epoch' = epoch + 1
    /\ source' = [source EXCEPT ![c] = "online_tracker"]

OnlineTracker(c) == ResetTracker(c, "online_tracker", "up")

-----------------------------------------------------------------------------
(* The rest of the program.                                                 *)

(* infer_toggle and logic_control_set_channel_inference, under chn_mtx only.*)
InferToggle ==
    /\ "infer_toggle" \in Operators
    /\ infer_runtime_enable' = ~infer_runtime_enable
    /\ UNCHANGED <<clock, paused, generation, input_frame_seq, vars_channel, inlet,
                   vars_infer, dispatch, vars_logic, process_mtx, tracker, source, epoch>>

(* Mutant: the snapshot is swapped while a frame's logic is running.        *)
PublishRuntimeSnapshotUnlocked ==
    /\ generation < MaxGenerations
    /\ generation' = generation + 1
    /\ UNCHANGED <<clock, paused, input_frame_seq, accept_results_after_seq, online_state,
                   online_ts_ms, newest, infer_runtime_enable, inlet, vars_infer, dispatch,
                   vars_logic, process_mtx, source, epoch, tracker, published>>

(* pipeline_publish_runtime_snapshot: a new generation, and for a channel   *)
(* whose logic changed a fresh logic state and tracker.                     *)
PublishRuntimeSnapshot ==
    /\ process_mtx = NoOne
    /\ generation < MaxGenerations
    /\ generation' = generation + 1
    /\ \E logic_changed, tracker_reset \in BOOLEAN :
          /\ tracker' = IF tracker_reset \/ logic_changed THEN {} ELSE tracker
          /\ published' = IF logic_changed THEN NoPublication ELSE published
    /\ UNCHANGED <<clock, paused, input_frame_seq, accept_results_after_seq, online_state,
                   online_ts_ms, newest, infer_runtime_enable, inlet, vars_infer, dispatch,
                   vars_logic, process_mtx, source, epoch>>

PauseToggle ==
    /\ "pause" \in Operators
    /\ paused' = ~paused
    /\ UNCHANGED <<clock, generation, input_frame_seq, vars_channel, infer_runtime_enable,
                   inlet, vars_infer, dispatch, vars_logic, process_mtx, tracker, source,
                   epoch>>

Tick ==
    /\ clock < MaxClock
    /\ clock' = clock + 1
    /\ UNCHANGED <<paused, generation, input_frame_seq, vars_channel, infer_runtime_enable,
                   inlet, vars_infer, dispatch, vars_logic, process_mtx, tracker, source,
                   epoch>>

-----------------------------------------------------------------------------
Submit   == SubmitBegin \/ SubmitSeq \/ SubmitInfer \/ SubmitLogic
Infer(w) == InferTake(w) \/ InferStart(w) \/ InferFail(w) \/ InferWrite(w) \/ InferSignal(w)
Dispatch == DispatchWait \/ DispatchTake \/ DispatchCheck \/ DispatchProcess \/ DispatchCommit
Logic    == LogicTake \/ LogicStart \/ LogicProcess \/ LogicCommit
Offline(c) == OfflineClear(c) \/ OfflineState(c) \/ OfflineTracker(c)
Online(c)  == OnlineClear(c) \/ OnlineState(c) \/ OnlineTracker(c)

Next ==
    \/ Submit
    \/ \E w \in InferWorkers : Infer(w)
    \/ Dispatch
    \/ Logic
    \/ \E c \in SourceControls : Offline(c) \/ Online(c)
    \/ InferToggle
    \/ PublishRuntimeSnapshot
    \/ PauseToggle
    \/ Tick

Spec == Init /\ [][Next]_vars

(* Every worker loop keeps running and a thread inside the pipeline leaves   *)
(* it. Nothing obliges frames to arrive, the source to change or an operator *)
(* to act.                                                                    *)
Fairness ==
    /\ \A w \in InferWorkers : WF_vars(InferStart(w) \/ InferFail(w) \/ InferWrite(w))
    /\ \A w \in InferWorkers : WF_vars(InferSignal(w))
    /\ WF_vars(Dispatch)
    /\ WF_vars(Logic)

FairSpec == Spec /\ Fairness

-----------------------------------------------------------------------------
Task == [frame : Frame, generation : 0..MaxGenerations]
Inlet == [pc : {"idle", "seq", "enqueue"}, ts : 0..MaxClock, epoch : 0..MaxEpochs,
          seq : 0..MaxFrames, infer : BOOLEAN]
InferWorker   == [pc : {"idle", "took", "run", "signal"}, frame : Frame]
ChannelResult == [frame : Frame, latest_seq : 0..MaxFrames, has_new : BOOLEAN]
DispatchState == [pc : {"wait", "take", "check", "lock", "commit"}, frame : Frame]
LogicState    == [pc : {"wait", "took", "lock", "commit"}, task : Task]
Publication   == [path : {"none", "infer", "logic"}, frame : Frame]
SourceStep    == {"up", "offline_state", "offline_tracker", "down", "online_state",
                  "online_tracker"}

(* Types, and the bound of the inference queue.                              *)
TypeOK ==
    /\ clock \in 1..MaxClock
    /\ paused \in BOOLEAN
    /\ generation \in 1..MaxGenerations
    /\ input_frame_seq \in 0..MaxFrames
    /\ accept_results_after_seq \in 0..MaxFrames
    /\ online_state \in {"online", "offline"}
    /\ online_ts_ms \in 0..MaxClock
    /\ infer_runtime_enable \in BOOLEAN
    /\ published \in Publication
    /\ inlet \in Inlet
    /\ task_queue \in Seq(Frame) /\ Len(task_queue) <= QueueSize
    /\ infer_worker \in [InferWorkers -> InferWorker]
    /\ channel_result \in ChannelResult
    /\ result_dispatch_pending \in BOOLEAN
    /\ dispatch \in DispatchState
    /\ logic_slot \in Task
    /\ logic_worker \in LogicState
    /\ process_mtx \in {NoOne, "dispatch", "logic"}
    /\ tracker \subseteq 0..MaxEpochs
    /\ source \in [SourceControls -> SourceStep]
    /\ epoch \in 0..MaxEpochs
    /\ newest \in [{"infer", "logic"} -> 0..MaxFrames]

(* Frames captured before a channel last came online never become its       *)
(* published state, and nothing is published while it is offline: results    *)
(* that were in the NPU, in the queues or in a worker during an offline, a    *)
(* seek or a reconnect do not come back after the reset                       *)
(* (result_dispatch.cpp:80-83, pipeline_runtime.cpp:213-214).                 *)
NoStalePublication ==
    published # NoPublication =>
        /\ online_state = "online"
        /\ published.frame.epoch = epoch

(* What a worker checked when it entered process_channel_results still       *)
(* holds when it commits, although the logic runs outside chn_mtx: the        *)
(* channel is online, the frame is of its current epoch and, for the          *)
(* traditional path, of the current configuration                             *)
(* (traditional_logic_worker.cpp:89-94, pipeline_runtime.cpp:229-250).        *)
CheckedStateHeld ==
    /\ process_mtx = "dispatch" =>
          /\ online_state = "online"
          /\ dispatch.frame.epoch = epoch
    /\ process_mtx = "logic" =>
          /\ online_state = "online"
          /\ logic_worker.task.frame.epoch = epoch
          /\ logic_worker.task.generation = generation

(* A result waiting in channel_results is always announced or about to be:   *)
(* the flag is set, a worker is on its way to set it, or the dispatcher has    *)
(* consumed it and not yet looked (inference_executor.cpp:665-687 against      *)
(* inference_wait_result and inference_take_results).                          *)
ResultAnnounced ==
    channel_result.has_new =>
        \/ result_dispatch_pending
        \/ \E w \in InferWorkers : infer_worker[w].pc = "signal"
        \/ dispatch.pc = "take"


(* Every result is eventually taken by the dispatcher: no wake-up is lost.    *)
ResultTaken == channel_result.has_new ~> ~channel_result.has_new


(* Why a frame of an earlier epoch cannot pass the reconnect test: frames are *)
(* never younger than the clock, and those of an earlier epoch are not younger *)
(* than the online transition that ended it.                                   *)
Dated(frame) ==
    /\ frame.epoch <= epoch
    /\ frame.ts <= clock
    /\ frame.epoch < epoch => online_ts_ms # 0 /\ frame.ts <= online_ts_ms

FramesDated ==
    /\ online_ts_ms <= clock
    /\ epoch > 0 => online_ts_ms # 0
    /\ Dated(inlet)
    /\ \A i \in 1..Len(task_queue) : Dated(task_queue[i])
    /\ \A w \in InferWorkers : Dated(infer_worker[w].frame)
    /\ Dated(channel_result.frame)
    /\ Dated(dispatch.frame)
    /\ Dated(logic_slot.frame)
    /\ Dated(logic_worker.task.frame)

(* g_process_mtx is held exactly by the worker that is between its checks and *)
(* its commit.                                                                 *)
ProcessMutex ==
    /\ process_mtx = "dispatch" <=> dispatch.pc = "commit"
    /\ process_mtx = "logic" <=> logic_worker.pc = "commit"

(* The positions at which the two paths hold a frame are ordered by age:       *)
(* published, being processed, waiting to be taken, being submitted.           *)
InferOrder ==
    /\ newest.infer <= channel_result.latest_seq
    /\ dispatch.pc \in {"check", "lock", "commit"} =>
          newest.infer < dispatch.frame.seq /\ dispatch.frame.seq <= channel_result.latest_seq
    /\ channel_result.has_new =>
          /\ channel_result.frame.seq = channel_result.latest_seq
          /\ newest.infer < channel_result.latest_seq
          /\ dispatch.pc \in {"check", "lock", "commit"} =>
                dispatch.frame.seq < channel_result.latest_seq

LogicOrder ==
    LET bound == IF inlet.pc = "enqueue" THEN input_frame_seq - 1 ELSE input_frame_seq IN
    /\ inlet.pc = "enqueue" => inlet.seq = input_frame_seq
    /\ newest.logic <= bound
    /\ logic_worker.pc # "wait" =>
          newest.logic < logic_worker.task.frame.seq /\ logic_worker.task.frame.seq <= bound
    /\ logic_slot # NoTask =>
          /\ newest.logic < logic_slot.frame.seq
          /\ logic_slot.frame.seq <= bound
          /\ logic_worker.pc # "wait" => logic_worker.task.frame.seq < logic_slot.frame.seq

PipelineInv ==
    /\ TypeOK
    /\ FramesDated
    /\ ProcessMutex
    /\ CheckedStateHeld
    /\ InferOrder
    /\ LogicOrder
    /\ NoStalePublication

(* What the observers of a channel see is a ChannelFeed.                      *)
Feed == INSTANCE ChannelFeed WITH
    online <- (online_state = "online"),
    shown  <- [path |-> published.path, seq |-> published.frame.seq]
FeedSpec == Feed!Spec

=============================================================================
