------------------------- MODULE FramePipelineProofs -------------------------
(* Proofs of the safety properties of FramePipeline, for any number of        *)
(* inference workers and source-controlling threads and any queue size.       *)
EXTENDS FramePipeline, TLAPS

USE DEF vars_channel, vars_infer, vars_logic, vars_ctl

(* The record types, one lemma for each place that builds a record.            *)
LEMMA FrameTypes ==
    /\ NoFrame \in Frame
    /\ NoTask \in Task
    /\ NoPublication \in Publication
    /\ IdleInlet \in Inlet
    /\ IdleWorker \in InferWorker
    /\ IdleDispatch \in DispatchState
    /\ IdleLogicWorker \in LogicState
  BY PipelineAssumption
     DEF NoFrame, NoTask, NoPublication, IdleInlet, IdleWorker, IdleDispatch, IdleLogicWorker,
         Frame, Task, Publication, Inlet, InferWorker, DispatchState, LogicState

LEMMA InletFrameType == inlet \in Inlet => InletFrame \in Frame
  BY DEF Inlet, InletFrame, Frame

(* EvictOldest returns a suffix of the queue.                                 *)
LEMMA EvictOldestType ==
    ASSUME NEW S, NEW q \in Seq(S)
    PROVE  /\ EvictOldest(q) \in Seq(S)
           /\ Len(q) <= QueueSize => Len(EvictOldest(q)) < QueueSize
           /\ \A i \in 1..Len(EvictOldest(q)) :
                 \E j \in 1..Len(q) : EvictOldest(q)[i] = q[j]
  BY PipelineAssumption DEF EvictOldest

(* Every variable stays within its type.                                       *)
LEMMA TypeStep == TypeOK /\ [Next]_vars => TypeOK'
  <1> SUFFICES ASSUME TypeOK, [Next]_vars PROVE TypeOK'
    OBVIOUS
  <1> USE PipelineAssumption, FrameTypes DEF TypeOK
  <1>1. CASE SubmitBegin
    BY <1>1 DEF SubmitBegin, Inlet
  <1>2. CASE SubmitSeq
    <2>1. /\ inlet' \in {[inlet EXCEPT !.pc = "enqueue", !.seq = input_frame_seq + 1], IdleInlet}
          /\ input_frame_seq' \in 0..MaxFrames
      BY <1>2 DEF SubmitSeq
    <2>2. [inlet EXCEPT !.pc = "enqueue", !.seq = input_frame_seq + 1] \in Inlet
      <3>1. input_frame_seq + 1 \in 0..MaxFrames
        BY <1>2 DEF SubmitSeq
      <3>2. QED
        BY <3>1 DEF Inlet
    <2>3. QED
      BY <1>2, <2>1, <2>2 DEF SubmitSeq
  <1>3. CASE SubmitInfer
    <2>1. /\ Append(EvictOldest(task_queue), InletFrame) \in Seq(Frame)
          /\ Len(Append(EvictOldest(task_queue), InletFrame)) <= QueueSize
      <3>1. EvictOldest(task_queue) \in Seq(Frame) /\ Len(EvictOldest(task_queue)) < QueueSize
        BY EvictOldestType
      <3>2. QED
        BY <3>1, InletFrameType
    <2>2. task_queue' \in Seq(Frame) /\ Len(task_queue') <= QueueSize
      BY <1>3, <2>1 DEF SubmitInfer
    <2>3. QED
      BY <1>3, <2>2 DEF SubmitInfer
  <1>4. CASE SubmitLogic
    BY <1>4, InletFrameType DEF SubmitLogic, Task
  <1>5. CASE \E w \in InferWorkers : InferTake(w)
    BY <1>5 DEF InferTake, InferWorker
  <1>6. CASE \E w \in InferWorkers : InferStart(w)
    <2>1. PICK w \in InferWorkers : InferStart(w)
      BY <1>6
    <2>2. [infer_worker[w] EXCEPT !.pc = "run"] \in InferWorker
      BY DEF InferWorker
    <2>3. infer_worker' \in [InferWorkers -> InferWorker]
      BY <2>1, <2>2 DEF InferStart
    <2>4. QED
      BY <2>1, <2>3 DEF InferStart
  <1>7. CASE \E w \in InferWorkers : InferFail(w)
    BY <1>7 DEF InferFail
  <1>8. CASE \E w \in InferWorkers : InferWrite(w)
    <2>1. PICK w \in InferWorkers : InferWrite(w)
      BY <1>8
    <2>2. /\ infer_worker[w] \in InferWorker
          /\ infer_worker[w].frame \in Frame
          /\ infer_worker[w].frame.seq \in 0..MaxFrames
      BY DEF InferWorker, Frame
    <2>3. channel_result' \in ChannelResult
      <3>1. channel_result' \in {channel_result, [frame |-> infer_worker[w].frame,
                                  latest_seq |-> infer_worker[w].frame.seq, has_new |-> TRUE]}
        BY <2>1 DEF InferWrite
      <3>2. [frame |-> infer_worker[w].frame, latest_seq |-> infer_worker[w].frame.seq,
             has_new |-> TRUE] \in ChannelResult
        BY <2>2 DEF ChannelResult
      <3>3. QED
        BY <3>1, <3>2
    <2>4. [infer_worker[w] EXCEPT !.pc = "signal"] \in InferWorker
      BY <2>2 DEF InferWorker
    <2>5. infer_worker' \in [InferWorkers -> InferWorker]
      BY <2>1, <2>4 DEF InferWrite
    <2>6. QED
      BY <2>1, <2>3, <2>5 DEF InferWrite
  <1>9. CASE \E w \in InferWorkers : InferSignal(w)
    BY <1>9 DEF InferSignal
  <1>10. CASE DispatchWait
    BY <1>10 DEF DispatchWait, DispatchState
  <1>11. CASE DispatchTake
    <2>1. channel_result' \in ChannelResult
      BY <1>11 DEF DispatchTake, ChannelResult
    <2>2. dispatch' \in DispatchState
      BY <1>11 DEF DispatchTake, DispatchState, ChannelResult
    <2>3. QED
      BY <1>11, <2>1, <2>2 DEF DispatchTake
  <1>12. CASE DispatchCheck
    BY <1>12 DEF DispatchCheck, DispatchState
  <1>13. CASE DispatchProcess
    BY <1>13 DEF DispatchProcess, ProcessBegin, ProcessReject, DispatchState, Frame
  <1>14. CASE DispatchCommit
    BY <1>14 DEF DispatchCommit, ProcessCommit, DispatchState, Publication, Frame
  <1>15. CASE LogicTake
    BY <1>15 DEF LogicTake, LogicState
  <1>16. CASE LogicStart
    BY <1>16 DEF LogicStart, LogicState
  <1>17. CASE LogicProcess
    BY <1>17 DEF LogicProcess, ProcessBegin, ProcessReject, LogicState
  <1>18. CASE LogicCommit
    BY <1>18 DEF LogicCommit, ProcessCommit, LogicState, Publication, Task, Frame
  <1>19. CASE \E c \in SourceControls : OfflineClear(c) \/ OnlineClear(c)
    BY <1>19 DEF OfflineClear, OnlineClear, ClearLogicSlot, SourceStep
  <1>20. CASE \E c \in SourceControls : OfflineTracker(c) \/ OnlineTracker(c)
    BY <1>20 DEF OfflineTracker, OnlineTracker, ResetTracker, SourceStep
  <1>21. CASE \E c \in SourceControls : OfflineState(c)
    BY <1>21 DEF OfflineState, ResetChannel, SourceStep
  <1>22. CASE \E c \in SourceControls : OnlineState(c)
    BY <1>22 DEF OnlineState, ResetChannel, SourceStep
  <1>23. CASE InferToggle \/ PauseToggle \/ Tick
    <2>1. CASE InferToggle
      <3>1. infer_runtime_enable' \in BOOLEAN
        BY <2>1, Zenon DEF InferToggle
      <3>2. QED
        BY <2>1, <3>1 DEF InferToggle
    <2>2. CASE PauseToggle
      <3>1. paused' \in BOOLEAN
        BY <2>2, Zenon DEF PauseToggle
      <3>2. QED
        BY <2>2, <3>1 DEF PauseToggle
    <2>3. CASE Tick
      BY <2>3 DEF Tick
    <2>4. QED
      BY <1>23, <2>1, <2>2, <2>3
  <1>24. CASE PublishRuntimeSnapshot
    <2>1. tracker' \in {{}, tracker} /\ published' \in {NoPublication, published}
      BY <1>24 DEF PublishRuntimeSnapshot
    <2>2. generation' \in 1..MaxGenerations
      BY <1>24 DEF PublishRuntimeSnapshot
    <2>3. QED
      BY <1>24, <2>1, <2>2 DEF PublishRuntimeSnapshot
  <1>25. CASE UNCHANGED vars
    BY <1>25 DEF vars
  <1>26. QED
    BY <1>1, <1>2, <1>3, <1>4, <1>5, <1>6, <1>7, <1>8, <1>9, <1>10, <1>11, <1>12, <1>13,
       <1>14, <1>15, <1>16, <1>17, <1>18, <1>19, <1>20, <1>21, <1>22, <1>23, <1>24, <1>25
       DEF Next, Submit, Infer, Dispatch, Logic, Offline, Online

(* The reconnect test of both workers lets only frames of the current epoch  *)
(* through.                                                                   *)
LEMMA FreshFrameIsOfThisEpoch ==
    ASSUME TypeOK, NEW frame \in Frame, Dated(frame), ~StaleAfterReconnect(frame)
    PROVE  frame.epoch = epoch
  BY DEF TypeOK, Frame, Dated, StaleAfterReconnect

(* Every place that holds a frame holds one whose clock and epoch are numbers. *)
Datable(frame) == frame.epoch \in Nat /\ frame.ts \in Nat

LEMMA FramesDatable ==
    ASSUME TypeOK
    PROVE  /\ Datable(inlet) /\ Datable(channel_result.frame) /\ Datable(dispatch.frame)
           /\ Datable(logic_slot.frame) /\ Datable(logic_worker.task.frame)
           /\ \A i \in 1..Len(task_queue) : Datable(task_queue[i])
           /\ \A w \in InferWorkers : Datable(infer_worker[w].frame)
  <1>1. \A frame \in Frame : Datable(frame)
    BY PipelineAssumption DEF Frame, Datable
  <1>2. Datable(inlet)
    BY PipelineAssumption DEF TypeOK, Inlet, Datable
  <1>3. /\ channel_result.frame \in Frame /\ dispatch.frame \in Frame
        /\ logic_slot.frame \in Frame /\ logic_worker.task.frame \in Frame
    BY DEF TypeOK, ChannelResult, DispatchState, LogicState, Task
  <1>4. \A w \in InferWorkers : infer_worker[w].frame \in Frame
    BY DEF TypeOK, InferWorker
  <1>5. \A i \in 1..Len(task_queue) : task_queue[i] \in Frame
    BY DEF TypeOK
  <1>6. QED
    BY <1>1, <1>2, <1>3, <1>4, <1>5

(* Frames stay dated by the clock and by the online transitions.              *)
LEMMA FramesDatedStep == TypeOK /\ FramesDated /\ [Next]_vars => FramesDated'
  <1> SUFFICES ASSUME TypeOK, FramesDated, [Next]_vars PROVE FramesDated'
    OBVIOUS
  <1>0. NoFrame.epoch = 0 /\ NoFrame.ts = 0 /\ NoTask.frame = NoFrame
    BY DEF NoFrame, NoTask
  <1>a. Dated(NoFrame) /\ Dated(IdleInlet)
    BY <1>0 DEF Dated, FramesDated, IdleInlet, TypeOK
  <1>k. ASSUME UNCHANGED <<clock, epoch, online_ts_ms>>, Dated(inlet'),
               \A i \in 1..Len(task_queue') : Dated(task_queue'[i]),
               \A w \in InferWorkers : Dated(infer_worker'[w].frame),
               Dated(channel_result'.frame), Dated(dispatch'.frame),
               Dated(logic_slot'.frame), Dated(logic_worker'.task.frame)
        PROVE  FramesDated'
    BY <1>k DEF Dated, FramesDated
  <1> USE PipelineAssumption DEF TypeOK, FramesDated
  <1>1. CASE SubmitBegin
    BY <1>1 DEF SubmitBegin, Dated
  <1>2. CASE SubmitSeq
    <2>1. (inlet'.epoch = inlet.epoch /\ inlet'.ts = inlet.ts) \/ inlet' = IdleInlet
      BY <1>2 DEF SubmitSeq, Inlet
    <2>2. QED
      BY <1>2, <1>a, <2>1 DEF SubmitSeq, Dated
  <1>3. CASE SubmitInfer
    <2> DEFINE kept == EvictOldest(task_queue)
    <2>1. kept \in Seq(Frame) /\ InletFrame \in Frame
      BY EvictOldestType, InletFrameType
    <2>2. \A i \in 1..Len(kept) : Dated(kept[i])
      BY EvictOldestType
    <2>3. Dated(InletFrame)
      BY DEF Dated, InletFrame
    <2> DEFINE longer == Append(kept, InletFrame)
    <2>4. \A i \in 1..Len(longer) : Dated(longer[i])
      <3> HIDE DEF kept
      <3>1. /\ Len(longer) = Len(kept) + 1
            /\ longer[Len(kept) + 1] = InletFrame
            /\ \A i \in 1..Len(kept) : longer[i] = kept[i]
        BY <2>1
      <3>2. ASSUME NEW i \in 1..Len(longer) PROVE i \in 1..Len(kept) \/ i = Len(kept) + 1
        BY <2>1, <3>1
      <3> HIDE DEF longer
      <3>3. QED
        BY <2>2, <2>3, <3>1, <3>2
    <2>5. \A i \in 1..Len(task_queue') : Dated(task_queue'[i])
      <3> HIDE DEF longer
      <3>1. task_queue' \in {longer, task_queue}
        BY <1>3 DEF SubmitInfer, longer
      <3>2. QED
        BY <2>4, <3>1
    <2>6. QED
      BY <1>3, <1>a, <2>5, <1>k DEF SubmitInfer
  <1>4. CASE SubmitLogic
    BY <1>4 DEF SubmitLogic, Dated, InletFrame, IdleInlet
  <1>5. CASE \E w \in InferWorkers : InferTake(w)
    BY <1>5 DEF InferTake, Dated
  <1>6. CASE \E w \in InferWorkers : InferStart(w) \/ InferFail(w) \/ InferSignal(w)
    <2>1. PICK w \in InferWorkers : InferStart(w) \/ InferFail(w) \/ InferSignal(w)
      BY <1>6
    <2>2. [infer_worker[w] EXCEPT !.pc = "run"].frame = infer_worker[w].frame
      BY DEF InferWorker
    <2>3. IdleWorker.frame = NoFrame
      BY DEF IdleWorker
    <2>4. infer_worker'[w].frame \in {infer_worker[w].frame, NoFrame}
      BY <2>1, <2>2, <2>3 DEF InferStart, InferFail, InferSignal
    <2>5. \A v \in InferWorkers \ {w} : infer_worker'[v] = infer_worker[v]
      BY <2>1 DEF InferStart, InferFail, InferSignal
    <2>6. QED
      BY <2>1, <2>4, <2>5, <1>a, <1>k DEF InferStart, InferFail, InferSignal
  <1>8. CASE \E w \in InferWorkers : InferWrite(w)
    <2>1. PICK w \in InferWorkers : InferWrite(w)
      BY <1>8
    <2>2. [infer_worker[w] EXCEPT !.pc = "signal"].frame = infer_worker[w].frame
      BY DEF InferWorker
    <2>3. IdleWorker.frame = NoFrame
      BY DEF IdleWorker
    <2>4. infer_worker'[w].frame \in {infer_worker[w].frame, NoFrame}
      BY <2>1, <2>2, <2>3 DEF InferWrite
    <2>5. \A v \in InferWorkers \ {w} : infer_worker'[v] = infer_worker[v]
      BY <2>1 DEF InferWrite
    <2>6. channel_result'.frame \in {channel_result.frame, infer_worker[w].frame}
      BY <2>1 DEF InferWrite
    <2>7. QED
      BY <2>1, <2>4, <2>5, <2>6, <1>a, <1>k DEF InferWrite
  <1>10. CASE DispatchWait \/ DispatchCheck
    <2>1. dispatch'.frame \in {dispatch.frame, NoFrame}
      BY <1>10 DEF DispatchWait, DispatchCheck, IdleDispatch, DispatchState
    <2>2. QED
      BY <1>10, <2>1, <1>a, <1>k DEF DispatchWait, DispatchCheck
  <1>11. CASE DispatchTake
    <2>1. dispatch'.frame \in {channel_result.frame, NoFrame}
      BY <1>11 DEF DispatchTake, IdleDispatch
    <2>2. channel_result'.frame \in {channel_result.frame, NoFrame}
      BY <1>11 DEF DispatchTake, ChannelResult
    <2>3. QED
      BY <1>11, <2>1, <2>2, <1>a, <1>k DEF DispatchTake
  <1>13. CASE DispatchProcess \/ DispatchCommit
    <2>1. dispatch'.frame \in {dispatch.frame, NoFrame}
      <3>1. [dispatch EXCEPT !.pc = "commit"].frame = dispatch.frame
        BY DEF DispatchState
      <3>2. IdleDispatch.frame = NoFrame
        BY DEF IdleDispatch
      <3>3. QED
        BY <1>13, <3>1, <3>2 DEF DispatchProcess, DispatchCommit
    <2>2. QED
      BY <1>13, <2>1, <1>a, <1>k DEF DispatchProcess, ProcessBegin, ProcessReject,
                                     DispatchCommit, ProcessCommit
  <1>15. CASE LogicTake \/ LogicStart
    <2>1. /\ logic_worker'.task.frame \in {logic_worker.task.frame, logic_slot.frame, NoFrame}
          /\ logic_slot'.frame \in {logic_slot.frame, NoFrame}
      BY <1>15, <1>0 DEF LogicTake, LogicStart, IdleLogicWorker, LogicState
    <2>2. QED
      BY <1>15, <2>1, <1>a, <1>k DEF LogicTake, LogicStart
  <1>17. CASE LogicProcess \/ LogicCommit
    <2>1. logic_worker'.task.frame \in {logic_worker.task.frame, NoFrame}
      <3>1. [logic_worker EXCEPT !.pc = "commit"].task = logic_worker.task
        BY DEF LogicState
      <3>2. IdleLogicWorker.task = NoTask
        BY DEF IdleLogicWorker
      <3>3. QED
        BY <1>17, <1>0, <3>1, <3>2 DEF LogicProcess, LogicCommit
    <2>2. QED
      BY <1>17, <2>1, <1>a, <1>k DEF LogicProcess, ProcessBegin, ProcessReject, LogicCommit,
                                     ProcessCommit
  <1>19. CASE \E c \in SourceControls : OfflineClear(c) \/ OnlineClear(c)
    BY <1>19, <1>0, <1>a, <1>k DEF OfflineClear, OnlineClear, ClearLogicSlot
  <1>20. CASE \E c \in SourceControls : OfflineTracker(c) \/ OnlineTracker(c)
    BY <1>20, <1>k DEF OfflineTracker, OnlineTracker, ResetTracker
  <1>21. CASE \E c \in SourceControls : OfflineState(c)
    BY <1>21, <1>k DEF OfflineState, ResetChannel
  <1>22. CASE \E c \in SourceControls : OnlineState(c)
    <2> DEFINE Old(frame) == frame.epoch <= epoch /\ frame.ts <= clock
    <2>1. /\ Old(inlet) /\ Old(channel_result.frame) /\ Old(dispatch.frame)
          /\ Old(logic_slot.frame) /\ Old(logic_worker.task.frame)
          /\ \A i \in 1..Len(task_queue) : Old(task_queue[i])
          /\ \A w \in InferWorkers : Old(infer_worker[w].frame)
      BY DEF Dated
    <2>2. online_ts_ms' = clock /\ clock' = clock /\ epoch' = epoch + 1 /\ clock \in 1..MaxClock
      BY <1>22 DEF OnlineState, ResetChannel
    <2>3. ASSUME NEW frame, Old(frame), Datable(frame)
          PROVE  /\ frame.epoch <= epoch'
                 /\ frame.ts <= clock'
                 /\ frame.epoch < epoch' => online_ts_ms' # 0 /\ frame.ts <= online_ts_ms'
      BY <2>2, <2>3 DEF Datable
    <2>4. online_ts_ms' <= clock' /\ (epoch' > 0 => online_ts_ms' # 0)
      BY <2>2
    <2>5. UNCHANGED <<inlet, vars_infer, dispatch, vars_logic>>
      BY <1>22 DEF OnlineState, ResetChannel
    <2>6. QED
      BY <2>1, <2>3, <2>4, <2>5, FramesDatable DEF Dated
  <1>23. CASE InferToggle \/ PauseToggle \/ Tick
    <2>1. CASE InferToggle \/ PauseToggle
      BY <2>1, <1>k DEF InferToggle, PauseToggle
    <2>2. CASE Tick
      <3>1. /\ clock' = clock + 1 /\ clock \in 1..MaxClock
            /\ epoch' = epoch /\ online_ts_ms' = online_ts_ms /\ online_ts_ms \in 0..MaxClock
        BY <2>2 DEF Tick
      <3>2. ASSUME NEW frame, Dated(frame), Datable(frame)
            PROVE  /\ frame.epoch <= epoch'
                   /\ frame.ts <= clock'
                   /\ frame.epoch < epoch' => online_ts_ms' # 0 /\ frame.ts <= online_ts_ms'
        BY <3>1, <3>2 DEF Dated, Datable
      <3>3. online_ts_ms' <= clock' /\ (epoch' > 0 => online_ts_ms' # 0)
        BY <3>1
      <3>4. QED
        BY <2>2, <3>2, <3>3, FramesDatable DEF Tick, Dated
    <2>3. QED
      BY <1>23, <2>1, <2>2
  <1>24. CASE PublishRuntimeSnapshot
    BY <1>24, <1>k DEF PublishRuntimeSnapshot
  <1>25. CASE UNCHANGED vars
    BY <1>25, <1>k DEF vars
  <1>26. QED
    BY <1>1, <1>2, <1>3, <1>4, <1>5, <1>6, <1>8, <1>10, <1>11, <1>13, <1>15, <1>17, <1>19,
       <1>20, <1>21, <1>22, <1>23, <1>24, <1>25
       DEF Next, Submit, Infer, Dispatch, Logic, Offline, Online

(* The frame a worker took passed the reconnect test, and the reset that would *)
(* invalidate it waits for g_process_mtx.                                       *)
MutexInv == ProcessMutex /\ CheckedStateHeld /\ NoStalePublication

LEMMA MutexStep == TypeOK /\ FramesDated /\ MutexInv /\ [Next]_vars => MutexInv'
  <1> SUFFICES ASSUME TypeOK, FramesDated, MutexInv, [Next]_vars PROVE MutexInv'
    OBVIOUS
  <1>0. /\ dispatch.frame \in Frame /\ logic_worker.task.frame \in Frame
        /\ Dated(dispatch.frame) /\ Dated(logic_worker.task.frame)
    BY DEF TypeOK, FramesDated, DispatchState, LogicState, Task
  <1>t. dispatch \in DispatchState /\ logic_worker \in LogicState
    BY DEF TypeOK
  <1> USE DEF MutexInv, ProcessMutex, CheckedStateHeld, NoStalePublication
  <1>1. CASE Submit
    BY <1>1 DEF Submit, SubmitBegin, SubmitSeq, SubmitInfer, SubmitLogic
  <1>2. CASE \E w \in InferWorkers : Infer(w)
    BY <1>2 DEF Infer, InferTake, InferStart, InferFail, InferWrite, InferSignal
  <1>3. CASE DispatchWait \/ DispatchTake \/ DispatchCheck
    <2>1. dispatch.pc # "commit" /\ dispatch'.pc # "commit"
      BY <1>3, <1>t DEF DispatchWait, DispatchTake, DispatchCheck, IdleDispatch, DispatchState
    <2>2. QED
      BY <1>3, <2>1 DEF DispatchWait, DispatchTake, DispatchCheck
  <1>4. CASE DispatchProcess
    <2>1. CASE AcceptResult(dispatch.frame)
      <3>1. online_state = "online" /\ dispatch.frame.epoch = epoch
        BY <2>1, <1>0, FreshFrameIsOfThisEpoch DEF AcceptResult
      <3>2. dispatch'.pc = "commit" /\ dispatch'.frame = dispatch.frame
        BY <1>4, <2>1, <1>t DEF DispatchProcess, DispatchState
      <3>3. QED
        BY <1>4, <2>1, <3>1, <3>2 DEF DispatchProcess, ProcessBegin, NoOne
    <2>2. CASE ~AcceptResult(dispatch.frame)
      BY <1>4, <2>2 DEF DispatchProcess, ProcessReject, IdleDispatch
    <2>3. QED
      BY <2>1, <2>2
  <1>5. CASE DispatchCommit
    BY <1>5 DEF DispatchCommit, ProcessCommit, IdleDispatch, NoOne
  <1>6. CASE LogicTake \/ LogicStart
    <2>1. logic_worker.pc # "commit" /\ logic_worker'.pc # "commit"
      BY <1>6, <1>t DEF LogicTake, LogicStart, IdleLogicWorker, LogicState
    <2>2. QED
      BY <1>6, <2>1 DEF LogicTake, LogicStart
  <1>7. CASE LogicProcess
    <2>1. CASE ShouldRunTraditionalLogic(logic_worker.task)
      <3>1. /\ online_state = "online"
            /\ logic_worker.task.frame.epoch = epoch
            /\ logic_worker.task.generation = generation
        BY <2>1, <1>0, FreshFrameIsOfThisEpoch DEF ShouldRunTraditionalLogic
      <3>2. logic_worker'.pc = "commit" /\ logic_worker'.task = logic_worker.task
        BY <1>7, <2>1, <1>t DEF LogicProcess, LogicState
      <3>3. QED
        BY <1>7, <2>1, <3>1, <3>2 DEF LogicProcess, ProcessBegin, NoOne, vars_ctl
    <2>2. CASE ~ShouldRunTraditionalLogic(logic_worker.task)
      BY <1>7, <2>2 DEF LogicProcess, ProcessReject, IdleLogicWorker
    <2>3. QED
      BY <2>1, <2>2
  <1>8. CASE LogicCommit
    BY <1>8 DEF LogicCommit, ProcessCommit, IdleLogicWorker, NoOne
  <1>9. CASE \E c \in SourceControls : OfflineClear(c) \/ OnlineClear(c)
    BY <1>9 DEF OfflineClear, OnlineClear, ClearLogicSlot
  <1>10. CASE \E c \in SourceControls : OfflineTracker(c) \/ OnlineTracker(c)
    BY <1>10 DEF OfflineTracker, OnlineTracker, ResetTracker
  <1>11. CASE \E c \in SourceControls : OfflineState(c) \/ OnlineState(c)
    BY <1>11 DEF OfflineState, OnlineState, ResetChannel, NoOne
  <1>12. CASE InferToggle \/ PauseToggle \/ Tick
    BY <1>12 DEF InferToggle, PauseToggle, Tick
  <1>13. CASE PublishRuntimeSnapshot
    BY <1>13 DEF PublishRuntimeSnapshot, NoOne
  <1>14. CASE UNCHANGED vars
    BY <1>14 DEF vars
  <1>15. QED
    BY <1>1, <1>2, <1>3, <1>4, <1>5, <1>6, <1>7, <1>8, <1>9, <1>10, <1>11, <1>12, <1>13, <1>14
       DEF Next, Dispatch, Logic, Offline, Online

(* A result is never left behind without a signal.                             *)
LEMMA AnnounceStep == TypeOK /\ ResultAnnounced /\ [Next]_vars => ResultAnnounced'
  <1> SUFFICES ASSUME TypeOK, ResultAnnounced, [Next]_vars PROVE ResultAnnounced'
    OBVIOUS
  <1>t. /\ dispatch \in DispatchState /\ channel_result \in ChannelResult
        /\ infer_worker \in [InferWorkers -> InferWorker]
    BY DEF TypeOK
  <1> USE DEF ResultAnnounced
  <1>1. CASE Submit
    BY <1>1 DEF Submit, SubmitBegin, SubmitSeq, SubmitInfer, SubmitLogic
  <1>2. CASE \E w \in InferWorkers : InferTake(w) \/ InferStart(w) \/ InferFail(w)
    <2>1. PICK w \in InferWorkers : InferTake(w) \/ InferStart(w) \/ InferFail(w)
      BY <1>2
    <2>2. /\ infer_worker[w].pc # "signal"
          /\ \A v \in InferWorkers \ {w} : infer_worker'[v] = infer_worker[v]
      BY <2>1, <1>t DEF InferTake, InferStart, InferFail
    <2>3. QED
      BY <2>1, <2>2 DEF InferTake, InferStart, InferFail
  <1>3. CASE \E w \in InferWorkers : InferWrite(w)
    <2>1. PICK w \in InferWorkers : InferWrite(w)
      BY <1>3
    <2>2. /\ infer_worker[w].pc # "signal"
          /\ \A v \in InferWorkers \ {w} : infer_worker'[v] = infer_worker[v]
      BY <2>1, <1>t DEF InferWrite
    <2>3. infer_worker'[w].pc = "signal" \/ UNCHANGED channel_result
      BY <2>1, <1>t DEF InferWrite, InferWorker
    <2>4. QED
      BY <2>1, <2>2, <2>3 DEF InferWrite
  <1>4. CASE \E w \in InferWorkers : InferSignal(w)
    BY <1>4 DEF InferSignal
  <1>5. CASE DispatchWait
    <2>1. dispatch'.pc = "take"
      BY <1>5, <1>t DEF DispatchWait, DispatchState
    <2>2. QED
      BY <2>1
  <1>6. CASE DispatchTake
    <2>1. channel_result'.has_new = FALSE
      BY <1>6, <1>t DEF DispatchTake, ChannelResult
    <2>2. QED
      BY <2>1
  <1>7. CASE DispatchCheck \/ DispatchProcess \/ DispatchCommit
    BY <1>7 DEF DispatchCheck, DispatchProcess, DispatchCommit
  <1>8. CASE Logic
    BY <1>8 DEF Logic, LogicTake, LogicStart, LogicProcess, LogicCommit
  <1>9. CASE \E c \in SourceControls : Offline(c) \/ Online(c)
    BY <1>9 DEF Offline, Online, OfflineClear, OnlineClear, ClearLogicSlot, OfflineTracker,
                OnlineTracker, ResetTracker, OfflineState, OnlineState, ResetChannel
  <1>12. CASE InferToggle \/ PauseToggle \/ Tick \/ PublishRuntimeSnapshot
    BY <1>12 DEF InferToggle, PauseToggle, Tick, PublishRuntimeSnapshot
  <1>14. CASE UNCHANGED vars
    BY <1>14 DEF vars
  <1>15. QED
    BY <1>1, <1>2, <1>3, <1>4, <1>5, <1>6, <1>7, <1>8, <1>9, <1>12, <1>14
       DEF Next, Infer, Dispatch

(* Sequence numbers are numbers wherever a frame is.                           *)
LEMMA SeqTypes ==
    ASSUME TypeOK
    PROVE  /\ input_frame_seq \in Nat /\ inlet.seq \in Nat /\ channel_result.latest_seq \in Nat
           /\ newest.infer \in Nat /\ newest.logic \in Nat
           /\ channel_result.frame.seq \in Nat /\ dispatch.frame.seq \in 0..MaxFrames
           /\ logic_slot.frame.seq \in Nat /\ logic_worker.task.frame.seq \in 0..MaxFrames
           /\ \A w \in InferWorkers : infer_worker[w].frame.seq \in Nat
  <1>1. \A frame \in Frame : frame.seq \in 0..MaxFrames
    BY DEF Frame
  <1>2. /\ channel_result.frame \in Frame /\ channel_result.latest_seq \in 0..MaxFrames
        /\ dispatch.frame \in Frame /\ logic_slot.frame \in Frame
        /\ logic_worker.task.frame \in Frame /\ inlet.seq \in 0..MaxFrames
    BY DEF TypeOK, ChannelResult, DispatchState, LogicState, Task, Inlet
  <1>3. \A w \in InferWorkers : infer_worker[w].frame \in Frame
    BY DEF TypeOK, InferWorker
  <1>4. /\ newest["infer"] \in 0..MaxFrames /\ newest["logic"] \in 0..MaxFrames
        /\ input_frame_seq \in 0..MaxFrames
    BY DEF TypeOK
  <1>5. QED
    BY <1>1, <1>2, <1>3, <1>4, PipelineAssumption

(* Results reach the dispatcher in the order of their frames.                  *)
LEMMA InferOrderStep == TypeOK /\ InferOrder /\ [Next]_vars => InferOrder'
  <1> SUFFICES ASSUME TypeOK, InferOrder, [Next]_vars PROVE InferOrder'
    OBVIOUS
  <1>t. /\ dispatch \in DispatchState /\ channel_result \in ChannelResult
        /\ newest \in [{"infer", "logic"} -> 0..MaxFrames]
    BY DEF TypeOK
  <1> USE SeqTypes DEF InferOrder
  <1>1. CASE Submit
    BY <1>1 DEF Submit, SubmitBegin, SubmitSeq, SubmitInfer, SubmitLogic
  <1>2. CASE \E w \in InferWorkers : InferTake(w) \/ InferStart(w) \/ InferFail(w) \/ InferSignal(w)
    BY <1>2 DEF InferTake, InferStart, InferFail, InferSignal
  <1>3. CASE \E w \in InferWorkers : InferWrite(w)
    <2>1. PICK w \in InferWorkers : InferWrite(w)
      BY <1>3
    <2>2. CASE infer_worker[w].frame.seq > channel_result.latest_seq
      <3>1. /\ channel_result'.frame = infer_worker[w].frame
            /\ channel_result'.latest_seq = infer_worker[w].frame.seq
            /\ UNCHANGED <<dispatch, newest>>
        BY <2>1, <2>2 DEF InferWrite
      <3>2. QED
        BY <2>2, <3>1
    <2>3. CASE ~(infer_worker[w].frame.seq > channel_result.latest_seq)
      BY <2>1, <2>3 DEF InferWrite
    <2>4. QED
      BY <2>2, <2>3
  <1>5. CASE DispatchWait
    <2>1. dispatch'.pc = "take"
      BY <1>5, <1>t DEF DispatchWait, DispatchState
    <2>2. QED
      BY <1>5, <2>1 DEF DispatchWait
  <1>6. CASE DispatchTake
    <2>1. CASE channel_result.has_new
      <3>1. /\ dispatch'.frame = channel_result.frame
            /\ channel_result'.has_new = FALSE
            /\ channel_result'.latest_seq = channel_result.latest_seq
            /\ UNCHANGED newest
        <4> DEFINE taken == [channel_result EXCEPT !.frame = NoFrame, !.has_new = FALSE]
        <4>1. taken.has_new = FALSE /\ taken.latest_seq = channel_result.latest_seq
          BY <1>t DEF ChannelResult
        <4>2. /\ dispatch' = [pc |-> "check", frame |-> channel_result.frame]
              /\ channel_result' = taken
              /\ UNCHANGED newest
          BY <1>6, <2>1 DEF DispatchTake
        <4>3. QED
          BY <4>1, <4>2
      <3>2. QED
        BY <2>1, <3>1
    <2>2. CASE ~channel_result.has_new
      BY <1>6, <2>2 DEF DispatchTake, IdleDispatch
    <2>3. QED
      BY <2>1, <2>2
  <1>7. CASE DispatchCheck \/ DispatchProcess
    <2>1. /\ dispatch'.pc \in {"check", "lock", "commit"} =>
                /\ dispatch.pc \in {"check", "lock", "commit"}
                /\ dispatch'.frame = dispatch.frame
          /\ UNCHANGED <<channel_result, newest>>
      BY <1>7, <1>t DEF DispatchCheck, DispatchProcess, ProcessBegin, ProcessReject,
                        IdleDispatch, DispatchState
    <2>2. QED
      BY <2>1
  <1>8. CASE DispatchCommit
    <2>1. newest'.infer = dispatch.frame.seq /\ dispatch'.pc = "wait" /\ UNCHANGED channel_result
      BY <1>8, <1>t DEF DispatchCommit, ProcessCommit, IdleDispatch
    <2>2. QED
      BY <1>8, <2>1 DEF DispatchCommit
  <1>9. CASE LogicTake \/ LogicStart \/ LogicProcess
    BY <1>9 DEF LogicTake, LogicStart, LogicProcess, ProcessBegin, ProcessReject
  <1>10. CASE LogicCommit
    <2>1. newest'.infer = newest.infer
      BY <1>10, <1>t DEF LogicCommit, ProcessCommit
    <2>2. QED
      BY <1>10, <2>1 DEF LogicCommit
  <1>11. CASE \E c \in SourceControls : Offline(c) \/ Online(c)
    BY <1>11 DEF Offline, Online, OfflineClear, OnlineClear, ClearLogicSlot, OfflineTracker,
                 OnlineTracker, ResetTracker, OfflineState, OnlineState, ResetChannel
  <1>12. CASE InferToggle \/ PauseToggle \/ Tick \/ PublishRuntimeSnapshot
    BY <1>12 DEF InferToggle, PauseToggle, Tick, PublishRuntimeSnapshot
  <1>14. CASE UNCHANGED vars
    BY <1>14 DEF vars
  <1>15. QED
    BY <1>1, <1>2, <1>3, <1>5, <1>6, <1>7, <1>8, <1>9, <1>10, <1>11, <1>12, <1>14
       DEF Next, Infer, Dispatch, Logic

(* Frames reach the traditional-logic worker in the order of their numbers.    *)
LEMMA LogicOrderStep == TypeOK /\ LogicOrder /\ [Next]_vars => LogicOrder'
  <1> SUFFICES ASSUME TypeOK, LogicOrder, [Next]_vars PROVE LogicOrder'
    OBVIOUS
  <1>t. /\ logic_worker \in LogicState /\ inlet \in Inlet /\ logic_slot \in Task
        /\ newest \in [{"infer", "logic"} -> 0..MaxFrames]
    BY DEF TypeOK
  <1> USE SeqTypes DEF LogicOrder
  <1>1. CASE SubmitBegin
    <2>1. inlet.pc = "idle" /\ inlet'.pc = "seq"
      BY <1>1 DEF SubmitBegin
    <2>2. QED
      BY <1>1, <2>1 DEF SubmitBegin
  <1>2. CASE SubmitSeq
    <2>1. /\ inlet.pc = "seq"
          /\ input_frame_seq' = input_frame_seq + 1
          /\ inlet'.pc = "enqueue" => inlet'.seq = input_frame_seq + 1
      <3>1. [inlet EXCEPT !.pc = "enqueue", !.seq = input_frame_seq + 1].seq = input_frame_seq + 1
        BY <1>t DEF Inlet
      <3>2. IdleInlet.pc = "idle"
        BY DEF IdleInlet
      <3>3. QED
        BY <1>2, <3>1, <3>2 DEF SubmitSeq
    <2>2. UNCHANGED <<logic_slot, logic_worker, newest>>
      BY <1>2 DEF SubmitSeq
    <2>3. QED
      BY <2>1, <2>2
  <1>3. CASE SubmitInfer
    <2>1. inlet.pc = "enqueue" /\ inlet'.pc = "idle"
      BY <1>3 DEF SubmitInfer, IdleInlet
    <2>2. UNCHANGED <<logic_slot, logic_worker, newest, input_frame_seq>>
      BY <1>3 DEF SubmitInfer
    <2>3. QED
      BY <2>1, <2>2
  <1>4. CASE SubmitLogic
    <2>1. inlet.pc = "enqueue" /\ inlet'.pc = "idle"
      BY <1>4 DEF SubmitLogic, IdleInlet
    <2>2. UNCHANGED <<logic_worker, newest, input_frame_seq>>
      BY <1>4 DEF SubmitLogic
    <2>3. logic_slot'.frame.seq = inlet.seq \/ UNCHANGED logic_slot
      BY <1>4 DEF SubmitLogic, InletFrame
    <2>4. QED
      BY <2>1, <2>2, <2>3
  <1>5. CASE LogicTake
    <2>1. /\ logic_worker'.task = logic_slot
          /\ logic_slot # NoTask
          /\ logic_slot' = NoTask
          /\ UNCHANGED <<inlet, newest, input_frame_seq>>
      BY <1>5 DEF LogicTake
    <2>2. QED
      BY <2>1
  <1>6. CASE LogicStart \/ LogicProcess
    <2>1. /\ logic_worker'.pc # "wait" =>
                logic_worker.pc # "wait" /\ logic_worker'.task = logic_worker.task
          /\ UNCHANGED <<inlet, newest, input_frame_seq, logic_slot>>
      BY <1>6, <1>t DEF LogicStart, LogicProcess, ProcessBegin, ProcessReject, IdleLogicWorker,
                        LogicState
    <2>2. QED
      BY <2>1
  <1>7. CASE LogicCommit
    <2>1. /\ logic_worker.pc = "commit" /\ logic_worker'.pc = "wait"
          /\ newest'.logic = logic_worker.task.frame.seq
          /\ UNCHANGED <<inlet, input_frame_seq, logic_slot>>
      BY <1>7, <1>t DEF LogicCommit, ProcessCommit, IdleLogicWorker
    <2>2. QED
      BY <2>1
  <1>8. CASE Dispatch
    <2>1. newest'.logic = newest.logic
      BY <1>8, <1>t DEF Dispatch, DispatchWait, DispatchTake, DispatchCheck, DispatchProcess,
                        ProcessBegin, ProcessReject, DispatchCommit, ProcessCommit
    <2>2. UNCHANGED <<inlet, input_frame_seq, logic_slot, logic_worker>>
      BY <1>8 DEF Dispatch, DispatchWait, DispatchTake, DispatchCheck, DispatchProcess,
                  DispatchCommit
    <2>3. QED
      BY <2>1, <2>2
  <1>9. CASE \E w \in InferWorkers : Infer(w)
    BY <1>9 DEF Infer, InferTake, InferStart, InferFail, InferWrite, InferSignal
  <1>10. CASE \E c \in SourceControls : Offline(c) \/ Online(c)
    BY <1>10 DEF Offline, Online, OfflineClear, OnlineClear, ClearLogicSlot, OfflineTracker,
                 OnlineTracker, ResetTracker, OfflineState, OnlineState, ResetChannel
  <1>12. CASE InferToggle \/ PauseToggle \/ Tick \/ PublishRuntimeSnapshot
    BY <1>12 DEF InferToggle, PauseToggle, Tick, PublishRuntimeSnapshot
  <1>14. CASE UNCHANGED vars
    BY <1>14 DEF vars
  <1>15. QED
    BY <1>1, <1>2, <1>3, <1>4, <1>5, <1>6, <1>7, <1>8, <1>9, <1>10, <1>12, <1>14
       DEF Next, Submit, Logic

-----------------------------------------------------------------------------
LEMMA PipelineInit == Init => PipelineInv /\ ResultAnnounced
  <1> SUFFICES ASSUME Init PROVE PipelineInv /\ ResultAnnounced
    OBVIOUS
  <1>1. TypeOK
    <2>1. channel_result \in ChannelResult
      BY FrameTypes, PipelineAssumption DEF Init, ChannelResult
    <2>2. newest \in [{"infer", "logic"} -> 0..MaxFrames]
      BY PipelineAssumption DEF Init
    <2>3. source \in [SourceControls -> SourceStep]
      BY DEF Init, SourceStep
    <2>4. dispatch \in DispatchState /\ logic_worker \in LogicState
      BY FrameTypes DEF Init, IdleDispatch, IdleLogicWorker
    <2>5. infer_worker \in [InferWorkers -> InferWorker]
      BY FrameTypes DEF Init
    <2>6. task_queue \in Seq(Frame) /\ Len(task_queue) <= QueueSize
      BY PipelineAssumption DEF Init
    <2>7. /\ clock \in 1..MaxClock /\ generation \in 1..MaxGenerations
          /\ input_frame_seq \in 0..MaxFrames /\ accept_results_after_seq \in 0..MaxFrames
          /\ online_ts_ms \in 0..MaxClock /\ epoch \in 0..MaxEpochs
          /\ process_mtx = NoOne /\ tracker = {} /\ online_state = "online"
          /\ paused = FALSE /\ infer_runtime_enable = TRUE /\ result_dispatch_pending = FALSE
      BY PipelineAssumption DEF Init
    <2>8. published \in Publication /\ inlet \in Inlet /\ logic_slot \in Task
      BY FrameTypes DEF Init
    <2>9. QED
      BY <2>1, <2>2, <2>3, <2>4, <2>5, <2>6, <2>7, <2>8 DEF TypeOK
  <1>2. Dated(NoFrame) /\ Dated(IdleInlet)
    BY DEF Init, Dated, NoFrame, IdleInlet
  <1>3. FramesDated
    BY <1>2 DEF Init, FramesDated, NoTask, IdleWorker
  <1>4. MutexInv
    BY DEF Init, MutexInv, ProcessMutex, CheckedStateHeld, NoStalePublication, NoOne
  <1>5. InferOrder /\ LogicOrder
    BY DEF Init, InferOrder, LogicOrder, IdleInlet
  <1>6. QED
    BY <1>1, <1>3, <1>4, <1>5 DEF PipelineInv, MutexInv, ResultAnnounced, Init

LEMMA PipelineStep ==
    PipelineInv /\ ResultAnnounced /\ [Next]_vars => PipelineInv' /\ ResultAnnounced'
  BY TypeStep, FramesDatedStep, MutexStep, AnnounceStep, InferOrderStep, LogicOrderStep
     DEF PipelineInv, MutexInv

LEMMA PipelineInvariant == Spec => [](PipelineInv /\ ResultAnnounced)
  BY PipelineInit, PipelineStep, PTL DEF Spec

(* Every reachable state is well typed.                                        *)
THEOREM TypeCorrect == Spec => []TypeOK
  <1>1. PipelineInv => TypeOK
    BY DEF PipelineInv
  <1>2. QED
    BY <1>1, PipelineInvariant, PTL

(* No frame of an earlier epoch is ever the published state of a channel, and  *)
(* an offline channel has none, however late the frame's result arrives.       *)
THEOREM NothingStaleIsPublished == Spec => []NoStalePublication
  <1>1. PipelineInv => NoStalePublication
    BY DEF PipelineInv
  <1>2. QED
    BY <1>1, PipelineInvariant, PTL

(* What process_channel_results checked still holds when its logic returns,    *)
(* although the logic runs without chn_mtx.                                     *)
THEOREM ChecksHoldUntilCommit == Spec => []CheckedStateHeld
  <1>1. PipelineInv => CheckedStateHeld
    BY DEF PipelineInv
  <1>2. QED
    BY <1>1, PipelineInvariant, PTL

(* A result never waits in channel_results without a signal on its way, for    *)
(* any number of inference workers.                                            *)
THEOREM NoResultIsLost == Spec => []ResultAnnounced
  BY PipelineInvariant, PTL

-----------------------------------------------------------------------------
(* Each step of a channel is a step of its feed or none that can be seen.      *)
LEMMA FeedInit == Init => Feed!Init
  BY DEF Init, Feed!Init, NoPublication, NoFrame, Feed!Nothing

LEMMA FeedStep == PipelineInv /\ [Next]_vars => [Feed!Next]_(Feed!feed_vars)
  <1> SUFFICES ASSUME PipelineInv, [Next]_vars PROVE [Feed!Next]_(Feed!feed_vars)
    OBVIOUS
  <1> DEFINE still == UNCHANGED <<online_state, published, newest, epoch>>
  <1>0. still => UNCHANGED Feed!feed_vars
    BY DEF Feed!feed_vars
  <1>n. NoPublication.path = "none" /\ NoPublication.frame.seq = 0
    BY DEF NoPublication, NoFrame
  <1>1. CASE Submit
    BY <1>0, <1>1 DEF Submit, SubmitBegin, SubmitSeq, SubmitInfer, SubmitLogic
  <1>2. CASE \E w \in InferWorkers : Infer(w)
    BY <1>0, <1>2 DEF Infer, InferTake, InferStart, InferFail, InferWrite, InferSignal
  <1>3. CASE DispatchWait \/ DispatchTake \/ DispatchCheck \/ DispatchProcess
    BY <1>0, <1>3 DEF DispatchWait, DispatchTake, DispatchCheck, DispatchProcess, ProcessBegin,
                      ProcessReject
  <1>4. CASE DispatchCommit
    <2>1. /\ online_state = "online"
          /\ newest.infer < dispatch.frame.seq
          /\ dispatch.frame.seq \in 1..MaxFrames
      BY <1>4, SeqTypes, PipelineAssumption
         DEF PipelineInv, ProcessMutex, CheckedStateHeld, InferOrder, DispatchCommit
    <2>2. /\ published' = [path |-> "infer", frame |-> dispatch.frame]
          /\ newest' = [newest EXCEPT !["infer"] = dispatch.frame.seq]
          /\ UNCHANGED <<online_state, epoch>>
      BY <1>4 DEF DispatchCommit, ProcessCommit
    <2>3. Feed!Show("infer", dispatch.frame.seq)
      BY <2>1, <2>2 DEF Feed!Show
    <2>4. QED
      BY <2>1, <2>3 DEF Feed!Next, Feed!Paths
  <1>5. CASE LogicTake \/ LogicStart \/ LogicProcess
    BY <1>0, <1>5 DEF LogicTake, LogicStart, LogicProcess, ProcessBegin, ProcessReject
  <1>6. CASE LogicCommit
    <2> DEFINE frame == logic_worker.task.frame
    <2>1. /\ online_state = "online"
          /\ newest.logic < frame.seq
          /\ frame.seq \in 1..MaxFrames
      BY <1>6, SeqTypes, PipelineAssumption
         DEF PipelineInv, ProcessMutex, CheckedStateHeld, LogicOrder, LogicCommit
    <2>2. /\ published' = [path |-> "logic", frame |-> frame]
          /\ newest' = [newest EXCEPT !["logic"] = frame.seq]
          /\ UNCHANGED <<online_state, epoch>>
      BY <1>6 DEF LogicCommit, ProcessCommit
    <2>3. Feed!Show("logic", frame.seq)
      BY <2>1, <2>2 DEF Feed!Show
    <2>4. QED
      BY <2>1, <2>3 DEF Feed!Next, Feed!Paths
  <1>7. CASE \E c \in SourceControls : OfflineClear(c) \/ OnlineClear(c)
    BY <1>0, <1>7 DEF OfflineClear, OnlineClear, ClearLogicSlot
  <1>8. CASE \E c \in SourceControls : OfflineTracker(c) \/ OnlineTracker(c)
    BY <1>0, <1>8 DEF OfflineTracker, OnlineTracker, ResetTracker
  <1>9. CASE \E c \in SourceControls : OfflineState(c)
    <2>1. Feed!GoOffline
      BY <1>9, <1>n DEF OfflineState, ResetChannel, Feed!GoOffline, Feed!Nothing
    <2>2. QED
      BY <2>1 DEF Feed!Next
  <1>10. CASE \E c \in SourceControls : OnlineState(c)
    <2>1. Feed!GoOnline
      BY <1>10, <1>n DEF OnlineState, ResetChannel, Feed!GoOnline, Feed!Nothing
    <2>2. QED
      BY <2>1 DEF Feed!Next
  <1>11. CASE InferToggle \/ PauseToggle \/ Tick
    BY <1>0, <1>11 DEF InferToggle, PauseToggle, Tick
  <1>12. CASE PublishRuntimeSnapshot
    <2>1. still \/ Feed!Clear
      BY <1>12, <1>n DEF PublishRuntimeSnapshot, Feed!Clear, Feed!Nothing
    <2>2. QED
      BY <1>0, <2>1 DEF Feed!Next
  <1>13. CASE UNCHANGED vars
    BY <1>0, <1>13 DEF vars
  <1>14. QED
    BY <1>1, <1>2, <1>3, <1>4, <1>5, <1>6, <1>7, <1>8, <1>9, <1>10, <1>11, <1>12, <1>13
       DEF Next, Dispatch, Logic, Offline, Online

(* A channel's published state is a feed: each path publishes newer and newer  *)
(* frames, whatever the number of workers and the order in which they finish.   *)
THEOREM ChannelImplementsFeed == Spec => FeedSpec
  <1>1. Spec => []PipelineInv
    BY PipelineInvariant, PTL
  <1>2. QED
    BY FeedInit, FeedStep, <1>1, PTL DEF Spec, FeedSpec, Feed!Spec

=============================================================================
