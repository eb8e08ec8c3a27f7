--------------------------- MODULE DisplayFramePool ---------------------------
(***************************************************************************)
(* The display queue of one channel (src/engine/src/pipeline and display):  *)
(* the decoder callback copies a frame into the back slot of a triple       *)
(* buffer without a lock and exchanges slot numbers under DisplayQueue::mtx; *)
(* the display worker exchanges them back and draws from the front slot,     *)
(* again without a lock.                                                     *)
(*                                                                          *)
(* A definition marked "Mutant" is a plausible bug in the definition that   *)
(* follows it; no behaviour uses it.                                        *)
(***************************************************************************)
EXTENDS Naturals

CONSTANTS
    MaxFrames,     \* bound on the frames handed to the preview
    Sizes,         \* frame sizes that occur: the source resolution may change
    InitBytes      \* DisplayFramePool::INIT_BYTES

ASSUME PoolAssumption ==
    /\ MaxFrames \in Nat
    /\ Sizes \subseteq Nat \ {0}
    /\ InitBytes \in Nat \ {0}

Slots == 0..2

VARIABLES
    slots,               \* capacity of each slot and the frame whose pixels it
                         \* holds; no frame while it is being written
    back_idx,            \* DisplayFramePool, guarded by DisplayQueue::mtx
    mid_idx,
    front_idx,
    mid_dirty,
    has_task,            \* DisplayQueue
    task,
    reset_fps_pending,
    producer,            \* the decoder callback inside pipeline_submit_frame
    consumer,            \* display_worker_thread
    submitted            \* number of frames handed to the preview so far

pool_vars == <<slots, back_idx, mid_idx, front_idx, mid_dirty>>
vars == <<pool_vars, has_task, task, reset_fps_pending, producer, consumer, submitted>>

(* A frame is known by its number and its size in bytes.                    *)
Frame   == [seq : 0..MaxFrames, size : Sizes \cup {0}]
NoFrame == [seq |-> 0, size |-> 0]

(* init: the three buffers are allocated, each of which may fail.           *)
Init ==
    /\ slots \in [Slots -> {[capacity |-> n, frame |-> NoFrame] : n \in {0, InitBytes}}]
    /\ back_idx = 0
    /\ mid_idx = 1
    /\ front_idx = 2
    /\ mid_dirty = FALSE
    /\ has_task = FALSE
    /\ task = NoFrame
    /\ reset_fps_pending = TRUE
    /\ producer = [pc |-> "idle", frame |-> NoFrame]
    /\ consumer = [pc |-> "wait", frame |-> NoFrame]
    /\ submitted = 0

-----------------------------------------------------------------------------
(* Producer.                                                                *)

(* A preview that starts again asks the worker for a new rate window.       *)
RestartPreview ==
    /\ producer.pc = "idle"
    /\ reset_fps_pending' = TRUE
    /\ UNCHANGED <<pool_vars, has_task, task, producer, consumer, submitted>>

(* Mutant: a slot that is too small is used as it is.                       *)
BackBufKeepsSlot ==
    /\ producer.pc = "idle"
    /\ submitted < MaxFrames
    /\ submitted' = submitted + 1
    /\ \E size \in Sizes :
         /\ slots[back_idx].capacity > 0
         /\ slots' = [slots EXCEPT ![back_idx].frame = NoFrame]
         /\ producer' = [pc |-> "copy", frame |-> [seq |-> submitted + 1, size |-> size]]
    /\ UNCHANGED <<back_idx, mid_idx, front_idx, mid_dirty, has_task, task,
                   reset_fps_pending, consumer>>

(* back_buf and the start of the copy. A slot that is too small is freed    *)
(* and allocated anew; if that fails the frame is not shown.                *)
BackBuf ==
    /\ producer.pc = "idle"
    /\ submitted < MaxFrames
    /\ submitted' = submitted + 1
    /\ \E size \in Sizes :
         \/ /\ size <= slots[back_idx].capacity
            /\ slots' = [slots EXCEPT ![back_idx].frame = NoFrame]
            /\ producer' = [pc |-> "copy", frame |-> [seq |-> submitted + 1, size |-> size]]
         \/ /\ size > slots[back_idx].capacity
            /\ slots' = [slots EXCEPT ![back_idx] = [capacity |-> size, frame |-> NoFrame]]
            /\ producer' = [pc |-> "copy", frame |-> [seq |-> submitted + 1, size |-> size]]
         \/ /\ size > slots[back_idx].capacity
            /\ slots' = [slots EXCEPT ![back_idx] = [capacity |-> 0, frame |-> NoFrame]]
            /\ UNCHANGED producer
    /\ UNCHANGED <<back_idx, mid_idx, front_idx, mid_dirty, has_task, task,
                   reset_fps_pending, consumer>>

(* The copy is complete.                                                    *)
Copied ==
    /\ producer.pc = "copy"
    /\ slots' = [slots EXCEPT ![back_idx].frame = producer.frame]
    /\ producer' = [producer EXCEPT !.pc = "publish"]
    /\ UNCHANGED <<back_idx, mid_idx, front_idx, mid_dirty, has_task, task,
                   reset_fps_pending, consumer, submitted>>

(* Mutant: the new frame goes straight to the front slot.                   *)
PublishToFront ==
    /\ producer.pc = "publish"
    /\ back_idx' = front_idx
    /\ front_idx' = back_idx
    /\ mid_dirty' = TRUE
    /\ has_task' = TRUE
    /\ task' = producer.frame
    /\ producer' = [producer EXCEPT !.pc = "idle"]
    /\ UNCHANGED <<slots, mid_idx, reset_fps_pending, consumer, submitted>>

(* Under DisplayQueue::mtx: record the metadata, exchange back and middle.  *)
Publish ==
    /\ producer.pc = "publish"
    /\ back_idx' = mid_idx
    /\ mid_idx' = back_idx
    /\ mid_dirty' = TRUE
    /\ has_task' = TRUE
    /\ task' = producer.frame
    /\ producer' = [producer EXCEPT !.pc = "idle"]
    /\ UNCHANGED <<slots, front_idx, reset_fps_pending, consumer, submitted>>

-----------------------------------------------------------------------------
(* Consumer.                                                                *)

(* Mutant: the task is left for the next round.                             *)
TakeWithoutClearing ==
    /\ consumer.pc = "wait"
    /\ has_task
    /\ consumer' = [pc |-> "commit", frame |-> task]
    /\ reset_fps_pending' = FALSE
    /\ mid_idx' = IF mid_dirty THEN front_idx ELSE mid_idx
    /\ front_idx' = IF mid_dirty THEN mid_idx ELSE front_idx
    /\ mid_dirty' = FALSE
    /\ UNCHANGED <<slots, back_idx, has_task, task, producer, submitted>>

(* Under DisplayQueue::mtx: copy the metadata, swap_front_if_dirty. Without *)
(* a task the timed wait expires and the loop starts over.                  *)
Take ==
    /\ consumer.pc = "wait"
    /\ has_task
    /\ consumer' = [pc |-> "commit", frame |-> task]
    /\ reset_fps_pending' = FALSE
    /\ mid_idx' = IF mid_dirty THEN front_idx ELSE mid_idx
    /\ front_idx' = IF mid_dirty THEN mid_idx ELSE front_idx
    /\ mid_dirty' = FALSE
    /\ has_task' = FALSE
    /\ UNCHANGED <<slots, back_idx, task, producer, submitted>>

(* display_commit_frame has scaled and drawn the front slot.                *)
Committed ==
    /\ consumer.pc = "commit"
    /\ consumer' = [consumer EXCEPT !.pc = "wait"]
    /\ UNCHANGED <<pool_vars, has_task, task, reset_fps_pending, producer, submitted>>

-----------------------------------------------------------------------------
Next == RestartPreview \/ BackBuf \/ Copied \/ Publish \/ Take \/ Committed

Spec == Init /\ [][Next]_vars

(* The display worker polls at least every 250 ms.                          *)
FairSpec == Spec /\ WF_vars(Take \/ Committed)

-----------------------------------------------------------------------------
TypeOK ==
    /\ slots \in [Slots -> [capacity : Nat, frame : Frame]]
    /\ back_idx \in Slots
    /\ mid_idx \in Slots
    /\ front_idx \in Slots
    /\ mid_dirty \in BOOLEAN
    /\ has_task \in BOOLEAN
    /\ task \in Frame
    /\ reset_fps_pending \in BOOLEAN
    /\ producer \in [pc : {"idle", "copy", "publish"}, frame : Frame]
    /\ consumer \in [pc : {"wait", "commit"}, frame : Frame]
    /\ submitted \in 0..MaxFrames

SlotsDistinct ==
    /\ back_idx # mid_idx
    /\ back_idx # front_idx
    /\ mid_idx # front_idx

(* The slot holds the whole of this frame in a large enough buffer.          *)
Holds(slot, frame) ==
    /\ slots[slot].frame = frame
    /\ frame.size <= slots[slot].capacity

(* While the worker draws, without a lock, the front slot holds exactly the  *)
(* frame whose size and format it took from the queue: no tearing, no pixels *)
(* of another frame, no buffer freed under its hands                         *)
(* (pipeline_internal.h:86-94, display_pipeline.cpp:97-104).                  *)
ReaderSeesItsFrame == consumer.pc = "commit" => Holds(front_idx, consumer.frame)

(* The worker never draws a frame twice and never goes back to an older one   *)
(* (pipeline_internal.h:214-216).                                              *)
NeverBackwards ==
    [][consumer.pc = "wait" /\ consumer'.pc = "commit"
          => consumer'.frame.seq > consumer.frame.seq]_vars


(* Each slot index is held by one party, and what waits in the middle slot    *)
(* is the frame of the task.                                                   *)
SlotInv ==
    /\ SlotsDistinct
    /\ has_task = mid_dirty
    /\ has_task => Holds(mid_idx, task)
    /\ producer.pc = "copy" => producer.frame.size <= slots[back_idx].capacity
    /\ producer.pc = "publish" => Holds(back_idx, producer.frame)
    /\ ReaderSeesItsFrame

(* Frame numbers grow from the screen to the decoder.                          *)
OrderInv ==
    /\ consumer.frame.seq <= task.seq
    /\ has_task => consumer.frame.seq < task.seq
    /\ task.seq <= submitted
    /\ producer.pc # "idle" => task.seq < producer.frame.seq /\ producer.frame.seq <= submitted

(* The slots in use are distinct, each one in a stage of its frame's life,    *)
(* and the stages follow each other in frame order; the copy never runs past   *)
(* the end of a slot (pipeline_internal.h:142-152).                            *)
PoolInv ==
    /\ TypeOK
    /\ SlotInv
    /\ OrderInv

=============================================================================
