------------------------ MODULE DisplayFramePoolProofs ------------------------
(***************************************************************************)
(* For every bound on the frames and every set of frame sizes, the display  *)
(* worker draws from a slot that holds exactly the frame it took, and draws  *)
(* newer and newer frames.                                                   *)
(***************************************************************************)
EXTENDS DisplayFramePool, TLAPS

Slot == [capacity : Nat, frame : Frame]

LEMMA NoFrameType == NoFrame \in Frame
  BY PoolAssumption DEF NoFrame, Frame

(* The fields of a record that is rebuilt with other fields changed.        *)
LEMMA SlotUpdate ==
    ASSUME NEW s \in [Slots -> Slot], NEW i \in Slots, NEW f \in Frame
    PROVE  /\ [s EXCEPT ![i].frame = f] \in [Slots -> Slot]
           /\ [s EXCEPT ![i].frame = f][i].frame = f
           /\ [s EXCEPT ![i].frame = f][i].capacity = s[i].capacity
           /\ \A j \in Slots \ {i} : [s EXCEPT ![i].frame = f][j] = s[j]
  BY DEF Slot

LEMMA SlotReplaced ==
    ASSUME NEW s \in [Slots -> Slot], NEW i \in Slots, NEW n \in Nat
    PROVE  /\ [s EXCEPT ![i] = [capacity |-> n, frame |-> NoFrame]] \in [Slots -> Slot]
           /\ \A j \in Slots \ {i} : [s EXCEPT ![i] = [capacity |-> n, frame |-> NoFrame]][j] = s[j]
  BY NoFrameType DEF Slot

(* One named fact per action: what it preserves.                            *)
LEMMA InitPool == Init => PoolInv
  <1> SUFFICES ASSUME Init PROVE PoolInv
    OBVIOUS
  <1>0. /\ back_idx = 0 /\ mid_idx = 1 /\ front_idx = 2
        /\ mid_dirty = FALSE /\ has_task = FALSE /\ reset_fps_pending = TRUE
        /\ producer.pc = "idle" /\ consumer.pc = "wait"
    BY DEF Init
  <1>1. NoFrame \in Frame /\ NoFrame.seq = 0 /\ NoFrame.size = 0
    BY NoFrameType DEF NoFrame
  <1>2. TypeOK
    <2>1. slots \in [Slots -> [capacity : Nat, frame : Frame]]
      BY <1>1, PoolAssumption DEF Init
    <2>2. /\ producer \in [pc : {"idle", "copy", "publish"}, frame : Frame]
          /\ consumer \in [pc : {"wait", "commit"}, frame : Frame]
      BY <1>1 DEF Init
    <2>3. submitted \in 0..MaxFrames /\ task \in Frame
      BY <1>1, PoolAssumption DEF Init
    <2>4. back_idx \in Slots /\ mid_idx \in Slots /\ front_idx \in Slots
      BY <1>0 DEF Slots
    <2>5. mid_dirty \in BOOLEAN /\ has_task \in BOOLEAN /\ reset_fps_pending \in BOOLEAN
      BY <1>0
    <2> QED
      BY <2>1, <2>2, <2>3, <2>4, <2>5 DEF TypeOK
  <1>3. SlotInv
    <2>1. SlotsDistinct
      BY <1>0 DEF SlotsDistinct
    <2>2. producer.pc # "copy" /\ producer.pc # "publish" /\ consumer.pc # "commit"
      BY <1>0
    <2> QED
      BY <2>1, <2>2, <1>0, Zenon DEF SlotInv, ReaderSeesItsFrame
  <1>4. OrderInv
    BY <1>1 DEF Init, OrderInv
  <1> QED
    BY <1>2, <1>3, <1>4 DEF PoolInv

(* Frame numbers and sizes are numbers.                                      *)
LEMMA FrameFields ==
    ASSUME NEW f \in Frame
    PROVE  f.seq \in Nat /\ f.size \in Nat
  <1>1. f.seq \in 0..MaxFrames /\ f.size \in Sizes \cup {0}
    BY DEF Frame
  <1>2. Sizes \cup {0} \subseteq Nat /\ 0..MaxFrames \subseteq Nat
    BY PoolAssumption
  <1> QED
    BY <1>1, <1>2

LEMMA NewFrame ==
    ASSUME NEW n \in 0..MaxFrames, NEW size \in Sizes
    PROVE  /\ [seq |-> n, size |-> size] \in Frame
           /\ [seq |-> n, size |-> size].seq = n
           /\ [seq |-> n, size |-> size].size = size
  BY DEF Frame

LEMMA BackBufStep == PoolInv /\ BackBuf => PoolInv'
  <1> SUFFICES ASSUME PoolInv, BackBuf PROVE PoolInv'
    OBVIOUS
  <1> USE DEF PoolInv
  <1>t. TypeOK /\ SlotInv /\ OrderInv
    OBVIOUS
  <1>u. UNCHANGED <<back_idx, mid_idx, front_idx, mid_dirty, has_task, task,
                    reset_fps_pending, consumer>>
    BY DEF BackBuf
  <1>n. submitted \in Nat /\ submitted + 1 \in 0..MaxFrames /\ submitted' = submitted + 1
    BY <1>t, PoolAssumption DEF TypeOK, BackBuf
  <1>i. /\ back_idx \in Slots
        /\ mid_idx \in Slots \ {back_idx}
        /\ front_idx \in Slots \ {back_idx}
    BY <1>t DEF TypeOK, SlotInv, SlotsDistinct
  <1>s. slots \in [Slots -> Slot]
    BY <1>t DEF TypeOK, Slot
  <1>p. producer.pc = "idle"
    BY DEF BackBuf
  <1>o. OrderInv /\ task.seq \in Nat /\ consumer.frame.seq \in Nat
    BY <1>t, FrameFields DEF TypeOK
  (* The frame slot that changes is the back slot, which nobody else holds.  *)
  <1>k. ASSUME slots' \in [Slots -> Slot],
               \A j \in Slots \ {back_idx} : slots'[j] = slots[j],
               producer' \in [pc : {"idle", "copy", "publish"}, frame : Frame],
               \/ producer' = producer
               \/ /\ producer'.pc = "copy"
                  /\ producer'.frame.size <= slots'[back_idx].capacity
                  /\ producer'.frame.seq = submitted + 1
        PROVE  PoolInv'
    <2>1. TypeOK'
      BY <1>k, <1>t, <1>u, <1>n DEF TypeOK, Slot
    <2>2. slots'[mid_idx'] = slots[mid_idx] /\ slots'[front_idx'] = slots[front_idx]
      BY <1>k, <1>i, <1>u
    <2>3. SlotInv'
      BY <1>k, <1>t, <1>u, <1>p, <2>2 DEF SlotInv, SlotsDistinct, ReaderSeesItsFrame, Holds
    <2>4. OrderInv'
      BY <1>k, <1>o, <1>u, <1>p, <1>n DEF OrderInv
    <2> QED
      BY <2>1, <2>3, <2>4
  <1>1. PICK size \in Sizes :
          \/ /\ size <= slots[back_idx].capacity
             /\ slots' = [slots EXCEPT ![back_idx].frame = NoFrame]
             /\ producer' = [pc |-> "copy", frame |-> [seq |-> submitted + 1, size |-> size]]
          \/ /\ size > slots[back_idx].capacity
             /\ slots' = [slots EXCEPT ![back_idx] = [capacity |-> size, frame |-> NoFrame]]
             /\ producer' = [pc |-> "copy", frame |-> [seq |-> submitted + 1, size |-> size]]
          \/ /\ size > slots[back_idx].capacity
             /\ slots' = [slots EXCEPT ![back_idx] = [capacity |-> 0, frame |-> NoFrame]]
             /\ UNCHANGED producer
    BY DEF BackBuf
  <1>f. /\ [seq |-> submitted + 1, size |-> size] \in Frame
        /\ [seq |-> submitted + 1, size |-> size].seq = submitted + 1
        /\ [seq |-> submitted + 1, size |-> size].size = size
        /\ size \in Nat
    BY <1>n, NewFrame, PoolAssumption
  <1>2. CASE /\ size <= slots[back_idx].capacity
             /\ slots' = [slots EXCEPT ![back_idx].frame = NoFrame]
             /\ producer' = [pc |-> "copy", frame |-> [seq |-> submitted + 1, size |-> size]]
    <2>1. /\ slots' \in [Slots -> Slot]
          /\ slots'[back_idx].capacity = slots[back_idx].capacity
          /\ \A j \in Slots \ {back_idx} : slots'[j] = slots[j]
      BY <1>2, <1>s, <1>i, NoFrameType, SlotUpdate
    <2> QED
      BY <1>2, <2>1, <1>f, <1>k
  <1>3. CASE /\ size > slots[back_idx].capacity
             /\ slots' = [slots EXCEPT ![back_idx] = [capacity |-> size, frame |-> NoFrame]]
             /\ producer' = [pc |-> "copy", frame |-> [seq |-> submitted + 1, size |-> size]]
    <2>1. /\ slots' \in [Slots -> Slot]
          /\ \A j \in Slots \ {back_idx} : slots'[j] = slots[j]
      BY <1>3, <1>s, <1>i, <1>f, SlotReplaced
    <2>2. slots'[back_idx].capacity = size
      BY <1>3, <1>s, <1>i
    <2> QED
      BY <1>3, <2>1, <2>2, <1>f, <1>k
  <1>4. CASE /\ size > slots[back_idx].capacity
             /\ slots' = [slots EXCEPT ![back_idx] = [capacity |-> 0, frame |-> NoFrame]]
             /\ UNCHANGED producer
    <2>1. /\ slots' \in [Slots -> Slot]
          /\ \A j \in Slots \ {back_idx} : slots'[j] = slots[j]
      BY <1>4, <1>s, <1>i, SlotReplaced
    <2> QED
      BY <1>4, <2>1, <1>t, <1>k DEF TypeOK
  <1> QED
    BY <1>1, <1>2, <1>3, <1>4

LEMMA CopiedStep == PoolInv /\ Copied => PoolInv'
  <1> SUFFICES ASSUME PoolInv, Copied PROVE PoolInv'
    OBVIOUS
  <1>t. TypeOK /\ SlotInv /\ OrderInv
    BY DEF PoolInv
  <1>u. /\ UNCHANGED <<back_idx, mid_idx, front_idx, mid_dirty, has_task, task,
                       reset_fps_pending, consumer, submitted>>
        /\ producer.pc = "copy"
        /\ producer' = [producer EXCEPT !.pc = "publish"]
        /\ slots' = [slots EXCEPT ![back_idx].frame = producer.frame]
    BY DEF Copied
  <1>i. /\ back_idx \in Slots
        /\ mid_idx \in Slots \ {back_idx}
        /\ front_idx \in Slots \ {back_idx}
    BY <1>t DEF TypeOK, SlotInv, SlotsDistinct
  <1>p. /\ producer' \in [pc : {"idle", "copy", "publish"}, frame : Frame]
        /\ producer'.pc = "publish"
        /\ producer'.frame = producer.frame
        /\ producer.frame \in Frame
    BY <1>t, <1>u DEF TypeOK
  <1>s. /\ slots' \in [Slots -> Slot]
        /\ slots'[back_idx].frame = producer.frame
        /\ slots'[back_idx].capacity = slots[back_idx].capacity
        /\ \A j \in Slots \ {back_idx} : slots'[j] = slots[j]
    <2>1. slots \in [Slots -> Slot]
      BY <1>t DEF TypeOK, Slot
    <2> QED
      BY <2>1, <1>u, <1>i, <1>p, SlotUpdate
  <1>1. TypeOK'
    BY <1>t, <1>u, <1>p, <1>s DEF TypeOK, Slot
  <1>2. SlotInv'
    <2>1. slots'[mid_idx'] = slots[mid_idx] /\ slots'[front_idx'] = slots[front_idx]
      BY <1>s, <1>i, <1>u
    <2> QED
      BY <2>1, <1>t, <1>u, <1>p, <1>s DEF SlotInv, SlotsDistinct, ReaderSeesItsFrame, Holds
  <1>3. OrderInv'
    BY <1>t, <1>u, <1>p DEF OrderInv
  <1> QED
    BY <1>1, <1>2, <1>3 DEF PoolInv

LEMMA PublishStep == PoolInv /\ Publish => PoolInv'
  <1> SUFFICES ASSUME PoolInv, Publish PROVE PoolInv'
    OBVIOUS
  <1>t. TypeOK /\ SlotInv /\ OrderInv
    BY DEF PoolInv
  <1>u. /\ UNCHANGED <<slots, front_idx, reset_fps_pending, consumer, submitted>>
        /\ producer.pc = "publish"
        /\ back_idx' = mid_idx
        /\ mid_idx' = back_idx
        /\ mid_dirty' = TRUE
        /\ has_task' = TRUE
        /\ task' = producer.frame
        /\ producer' = [producer EXCEPT !.pc = "idle"]
    BY DEF Publish
  <1>p. /\ producer' \in [pc : {"idle", "copy", "publish"}, frame : Frame]
        /\ producer'.pc = "idle"
        /\ producer.frame \in Frame
    BY <1>t, <1>u DEF TypeOK
  <1>1. TypeOK'
    BY <1>t, <1>u, <1>p DEF TypeOK
  <1>2. SlotInv'
    BY <1>t, <1>u, <1>p DEF SlotInv, SlotsDistinct, ReaderSeesItsFrame, Holds
  <1>3. OrderInv'
    <2>1. /\ task.seq \in Nat /\ consumer.frame.seq \in Nat
          /\ producer.frame.seq \in Nat /\ submitted \in Nat
      BY <1>t, <1>p, FrameFields, PoolAssumption DEF TypeOK
    <2> QED
      BY <2>1, <1>t, <1>u, <1>p DEF OrderInv
  <1> QED
    BY <1>1, <1>2, <1>3 DEF PoolInv

LEMMA TakeStep == PoolInv /\ Take => PoolInv'
  <1> SUFFICES ASSUME PoolInv, Take PROVE PoolInv'
    OBVIOUS
  <1>t. TypeOK /\ SlotInv /\ OrderInv
    BY DEF PoolInv
  <1>u. /\ UNCHANGED <<slots, back_idx, task, producer, submitted>>
        /\ has_task /\ mid_dirty
        /\ consumer' = [pc |-> "commit", frame |-> task]
        /\ reset_fps_pending' = FALSE
        /\ mid_idx' = front_idx
        /\ front_idx' = mid_idx
        /\ mid_dirty' = FALSE
        /\ has_task' = FALSE
    BY <1>t DEF Take, SlotInv
  <1>p. /\ consumer' \in [pc : {"wait", "commit"}, frame : Frame]
        /\ consumer'.pc = "commit"
        /\ consumer'.frame = task
    BY <1>t, <1>u DEF TypeOK
  <1>1. TypeOK'
    BY <1>t, <1>u, <1>p DEF TypeOK
  <1>2. SlotInv'
    BY <1>t, <1>u, <1>p DEF SlotInv, SlotsDistinct, ReaderSeesItsFrame, Holds
  <1>3. OrderInv'
    <2>1. task.seq \in Nat
      BY <1>t, FrameFields DEF TypeOK
    <2> QED
      BY <2>1, <1>t, <1>u, <1>p DEF OrderInv
  <1> QED
    BY <1>1, <1>2, <1>3 DEF PoolInv

LEMMA CommittedStep == PoolInv /\ Committed => PoolInv'
  <1> SUFFICES ASSUME PoolInv, Committed PROVE PoolInv'
    OBVIOUS
  <1>t. TypeOK /\ SlotInv /\ OrderInv
    BY DEF PoolInv
  <1>u. /\ UNCHANGED <<slots, back_idx, mid_idx, front_idx, mid_dirty, has_task, task,
                       reset_fps_pending, producer, submitted>>
        /\ consumer' = [consumer EXCEPT !.pc = "wait"]
    BY DEF Committed, pool_vars
  <1>p. /\ consumer' \in [pc : {"wait", "commit"}, frame : Frame]
        /\ consumer'.pc = "wait"
        /\ consumer'.frame = consumer.frame
    BY <1>t, <1>u DEF TypeOK
  <1>1. TypeOK'
    BY <1>t, <1>u, <1>p DEF TypeOK
  <1>2. SlotInv'
    BY <1>t, <1>u, <1>p DEF SlotInv, SlotsDistinct, ReaderSeesItsFrame, Holds
  <1>3. OrderInv'
    BY <1>t, <1>u, <1>p DEF OrderInv
  <1> QED
    BY <1>1, <1>2, <1>3 DEF PoolInv

LEMMA PoolStep == PoolInv /\ [Next]_vars => PoolInv'
  <1> SUFFICES ASSUME PoolInv, [Next]_vars PROVE PoolInv'
    OBVIOUS
  <1>1. CASE RestartPreview
    <2>1. UNCHANGED <<slots, back_idx, mid_idx, front_idx, mid_dirty, has_task, task,
                      producer, consumer, submitted>> /\ reset_fps_pending' = TRUE
      BY <1>1 DEF RestartPreview, pool_vars
    <2> QED
      BY <2>1 DEF PoolInv, TypeOK, SlotInv, SlotsDistinct, OrderInv, ReaderSeesItsFrame, Holds
  <1>2. CASE UNCHANGED vars
    BY <1>2 DEF vars, pool_vars, PoolInv, TypeOK, SlotInv, SlotsDistinct, OrderInv,
                ReaderSeesItsFrame, Holds
  <1> QED
    BY <1>1, <1>2, BackBufStep, CopiedStep, PublishStep, TakeStep, CommittedStep DEF Next

(* The types, the slots and the order of the frames are as they should be in *)
(* every reachable state: publish and swap_front_if_dirty only ever permute   *)
(* the three indices (pipeline_internal.h:86-94).                              *)
THEOREM PoolInvariant == Spec => []PoolInv
  BY InitPool, PoolStep, PTL DEF Spec

(* The display worker reads, without a lock, a slot that holds all of the     *)
(* frame whose metadata it took and that is large enough for it.               *)
THEOREM FrontSlotIsConsistent == Spec => []ReaderSeesItsFrame
  <1>1. PoolInv => ReaderSeesItsFrame
    BY DEF PoolInv, SlotInv
  <1> QED
    BY <1>1, PoolInvariant, PTL

(* Every frame drawn is newer than the one drawn before it.                   *)
THEOREM ShownFramesGrow == Spec => NeverBackwards
  <1>1. PoolInv /\ [Next]_vars
          => [consumer.pc = "wait" /\ consumer'.pc = "commit"
                => consumer'.frame.seq > consumer.frame.seq]_vars
    <2> SUFFICES ASSUME PoolInv, Next, consumer.pc = "wait", consumer'.pc = "commit"
                 PROVE  consumer'.frame.seq > consumer.frame.seq
      OBVIOUS
    <2>1. CASE Take
      <3>1. has_task /\ consumer'.frame = task
        BY <2>1 DEF Take
      <3>2. task.seq \in Nat /\ consumer.frame.seq \in Nat
        BY FrameFields DEF PoolInv, TypeOK
      <3> QED
        BY <3>1, <3>2 DEF PoolInv, OrderInv
    <2>2. CASE ~Take
      BY <2>2 DEF Next, RestartPreview, BackBuf, Copied, Publish, Committed, PoolInv, TypeOK
    <2> QED
      BY <2>1, <2>2
  <1> QED
    BY <1>1, PoolInvariant, PTL DEF Spec, NeverBackwards

=============================================================================
