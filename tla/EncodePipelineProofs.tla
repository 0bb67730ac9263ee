------------------------ MODULE EncodePipelineProofs ------------------------
(* Theorems about the encoder, for any number of frames, slots and         *)
(* references and any periods. *)
EXTENDS EncodePipeline, SequenceTheorems, CommonFacts, TLAPS

Pictures == [display : Displays, shot : Nat]

-----------------------------------------------------------------------------
(* The arithmetic of the slots and of the display order. *)

LEMMA SlotTyped == ASSUME NEW d \in Nat PROVE Slot(d) \in Slots
BY EncoderAssumption DEF Slot, Slots

LEMMA GopPlaceOfZero == GopPlace(0) = 0
<1> DEFINE group == IdrPeriod + IF ip_period = 1 THEN 0 ELSE 1
<1>1. IdrPeriod \in Nat
  BY PeriodsAssumption DEF IdrPeriod
<1>2. CASE IdrPeriod = 0
  BY <1>2 DEF GopPlace
<1>3. CASE IdrPeriod # 0
  <2>1. group \in Nat \ {0}
    BY <1>1, <1>3
  <2>2. \A k \in Nat \ {0} : 0 % k = 0
    OBVIOUS
  <2>3. 0 % group = 0
    BY <2>1, <2>2
  <2> QED
    BY <2>3, <1>3 DEF GopPlace
<1> QED
  BY <1>2, <1>3

(* No picture is shown before the first one, nor more than the Bs between  *)
(* two Ps after the last one. *)
LEMMA DisplayOrderTyped ==
  ASSUME NEW e \in 0..frame_count - 1
  PROVE  DisplayOrder(e) \in Displays
<1>1. ip_period \in Nat \ {0} /\ frame_count \in Nat
  BY PeriodsAssumption, EncoderAssumption
<1>2. IsB(e) => e # 0
  BY GopPlaceOfZero DEF IsB
<1>3. \/ DisplayOrder(e) = e
      \/ DisplayOrder(e) = e + ip_period - 1
      \/ IsB(e) /\ DisplayOrder(e) = e - 1
  <2>1. CASE intra_period = 1 \/ GopPlace(e) = 0
    BY <2>1 DEF DisplayOrder
  <2>2. CASE ~(intra_period = 1 \/ GopPlace(e) = 0) /\ IsB(e)
    BY <2>2 DEF DisplayOrder
  <2>3. CASE ~(intra_period = 1 \/ GopPlace(e) = 0) /\ ~IsB(e)
    BY <2>3 DEF DisplayOrder
  <2> QED
    BY <2>1, <2>2, <2>3
<1> QED
  BY <1>1, <1>2, <1>3 DEF Displays

LEMMA FrameTypeTyped ==
  ASSUME NEW e PROVE FrameType(e) \in {"IDR", "I", "P", "B"}
BY DEF FrameType

-----------------------------------------------------------------------------
(* Type correctness.  The threads count the frames each for itself, and    *)
(* what the storer saves was rendered before.  *)

Counted ==
  /\ enc \in {"slot", "render", "queue"} =>
       current_frame_encoding < frame_count
  /\ sto # "exited" => frame_coded < frame_count

Rendered ==
  /\ \A i \in 1..Len(tasks) : coded_buf[Slot(tasks[i])] \in Pictures
  /\ Storing => coded_buf[Slot(task)] \in Pictures
  /\ enc = "queue" => coded_buf[current_slot] \in Pictures

(* TypeOK by the side that writes the variables. *)
EncoderTyped ==
  /\ enc \in {"begin", "slot", "render", "queue", "done"}
  /\ current_frame_encoding \in 0..frame_count
  /\ current_frame_display \in Displays
  /\ current_frame_type \in {"IDR", "I", "P", "B"}
  /\ current_frame_num \in 0..MaxFrameNum
  /\ ReferenceFrames \in Seq([slot : Slots, display : Displays])
  /\ Len(ReferenceFrames) <= num_ref_frames
  /\ ref_surface \in [Slots -> Displays \cup {-1}]
  /\ coded_buf \in [Slots -> Pictures \cup {NoPicture}]
  /\ encoded \in Seq(Pictures)

StorerTyped ==
  /\ sto \in {"dequeue", "wait", "asleep", "save", "load", "release",
              "exited"}
  /\ src_surface \in [Slots -> Nat]
  /\ shots \in Nat
  /\ srcsurface_status \in [Slots -> {"IN_ENCODING", "IN_STORAGE"}]
  /\ tasks \in Seq(Displays)
  /\ task \in Displays
  /\ frame_coded \in 0..frame_count
  /\ coded_fp \in Seq(Pictures)

Typed == EncoderTyped /\ StorerTyped /\ Counted /\ Rendered

LEMMA TypedImpliesTypeOK == Typed => TypeOK
BY DEF Typed, TypeOK, EncoderTyped, StorerTyped, Pictures

LEMMA DisplaysNat == Displays \subseteq Nat
BY EncoderAssumption, PeriodsAssumption DEF Displays

LEMMA TypedInit == Init => Typed
<1> SUFFICES ASSUME Init PROVE Typed
  OBVIOUS
<1> USE EncoderAssumption, PeriodsAssumption
<1>1. EncoderTyped
  BY DEF Init, EncoderTyped, Displays
<1>2. StorerTyped
  BY DEF Init, StorerTyped, Displays, Slots
<1>3. Counted /\ Rendered
  BY DEF Init, Counted, Rendered, Storing
<1> QED
  BY <1>1, <1>2, <1>3 DEF Typed

(* A list of references gets no longer than it may.  *)
LEMMA ReferencesTyped ==
  ASSUME Typed, update_ReferenceFrames
  PROVE  /\ ReferenceFrames' \in Seq([slot : Slots, display : Displays])
         /\ Len(ReferenceFrames') <= num_ref_frames
         /\ current_frame_num' \in 0..MaxFrameNum
<1> DEFINE Refs == [slot : Slots, display : Displays]
           newest == [slot |-> current_slot, display |-> current_frame_display]
           all == <<newest>> \o ReferenceFrames
<1>1. ReferenceFrames \in Seq(Refs) /\ current_frame_display \in Displays
      /\ current_frame_num \in 0..MaxFrameNum
      /\ Len(ReferenceFrames) <= num_ref_frames
  BY DEF Typed, EncoderTyped
<1>2. newest \in Refs
  BY <1>1, SlotTyped, DisplaysNat DEF current_slot
<1>3. <<newest>> \in Seq(Refs) /\ Len(<<newest>>) = 1
  BY <1>2
<1>4. all \in Seq(Refs) /\ Len(all) = 1 + Len(ReferenceFrames)
  <2> HIDE DEF newest, Refs
  <2> QED
    BY <1>1, <1>3, ConcatProperties
<1>5. CASE current_frame_type = "B"
  BY <1>5, <1>1 DEF update_ReferenceFrames
<1>6. CASE current_frame_type # "B"
  <2>1. current_frame_num' \in 0..MaxFrameNum
    BY <1>1, <1>6, EncoderAssumption DEF update_ReferenceFrames
  <2>2. ReferenceFrames' = IF Len(all) > num_ref_frames
                             THEN SubSeq(all, 1, num_ref_frames) ELSE all
    BY <1>6 DEF update_ReferenceFrames
  <2>3. CASE Len(all) > num_ref_frames
    <3> HIDE DEF all, Refs
    <3>1. \A i \in 1..num_ref_frames : all[i] \in Refs
      BY <1>4, <2>3, ElementOfSeq, EncoderAssumption
    <3>2. /\ SubSeq(all, 1, num_ref_frames) \in Seq(Refs)
          /\ Len(SubSeq(all, 1, num_ref_frames)) = num_ref_frames
      BY <3>1, SubSeqProperties, EncoderAssumption
    <3> QED
      BY <3>2, <2>1, <2>2, <2>3, EncoderAssumption DEF Refs
  <2>4. CASE ~(Len(all) > num_ref_frames)
    <3> HIDE DEF all
    <3> QED
      BY <2>1, <2>2, <2>4, <1>4, EncoderAssumption
  <2> QED
    BY <2>3, <2>4
<1> QED
  BY <1>5, <1>6

LEMMA TypedStep == Typed /\ [Next]_vars => Typed'
<1> SUFFICES ASSUME Typed, [Next]_vars PROVE Typed'
  OBVIOUS
<1> USE EncoderAssumption
<1>0. /\ EncoderTyped /\ StorerTyped /\ Counted /\ Rendered
      /\ current_frame_display \in Nat /\ current_slot \in Slots
      /\ task \in Nat /\ Slot(task) \in Slots
      /\ \A i \in 1..Len(tasks) : tasks[i] \in Displays
                                    /\ Slot(tasks[i]) \in Slots
  <2>1. EncoderTyped /\ StorerTyped /\ Counted /\ Rendered
    BY DEF Typed
  <2>2. \A i \in 1..Len(tasks) : tasks[i] \in Displays
    BY <2>1, ElementOfSeq DEF StorerTyped
  <2>3. current_frame_display \in Nat /\ task \in Nat
    BY <2>1, DisplaysNat DEF EncoderTyped, StorerTyped
  <2>4. \A i \in 1..Len(tasks) : tasks[i] \in Nat
    BY <2>2, DisplaysNat
  <2> QED
    BY <2>1, <2>2, <2>3, <2>4, SlotTyped DEF current_slot
<1>1. CASE BeginFrame
  <2>1. /\ DisplayOrder(current_frame_encoding) \in Displays
        /\ FrameType(current_frame_encoding) \in {"IDR", "I", "P", "B"}
    BY <1>1, <1>0, DisplayOrderTyped, FrameTypeTyped
    DEF BeginFrame, EncoderTyped
  <2>2. EncoderTyped'
    <3>1. /\ current_frame_num' \in 0..MaxFrameNum
          /\ ReferenceFrames' \in Seq([slot : Slots, display : Displays])
          /\ Len(ReferenceFrames') <= num_ref_frames
      <4>1. CASE current_frame_type' = "IDR"
        BY <1>1, <4>1, EmptySeq DEF BeginFrame
      <4>2. CASE current_frame_type' # "IDR"
        BY <1>1, <4>2, <1>0 DEF BeginFrame, EncoderTyped
      <4> QED
        BY <4>1, <4>2
    <3> QED
      BY <1>1, <2>1, <3>1, <1>0 DEF BeginFrame, EncoderTyped, surfaces
  <2>3. StorerTyped'
    BY <1>1, <1>0 DEF BeginFrame, StorerTyped, surfaces, storerVars
  <2>4. Counted' /\ Rendered'
    BY <1>1, <1>0
    DEF BeginFrame, Counted, Rendered, Storing, surfaces, storerVars
  <2> QED
    BY <2>2, <2>3, <2>4 DEF Typed
<1>2. CASE SlotReady \/ Join
  <2>1. EncoderTyped'
    BY <1>2, <1>0 DEF SlotReady, Join, EncoderTyped, encoderVars, surfaces
  <2>2. StorerTyped'
    BY <1>2, <1>0
    DEF SlotReady, Join, StorerTyped, surfaces, storerVars
  <2>3. Counted' /\ Rendered'
    BY <1>2, <1>0
    DEF SlotReady, Join, Counted, Rendered, Storing, encoderVars, surfaces,
        storerVars, current_slot
  <2> QED
    BY <2>1, <2>2, <2>3 DEF Typed
<1>3. CASE RenderPicture
  <2> DEFINE picture == [display |-> current_frame_display,
                         shot |-> src_surface[current_slot]]
  <2>1. picture \in Pictures
    BY <1>0 DEF EncoderTyped, StorerTyped, Pictures
  <2>2. /\ coded_buf' = [coded_buf EXCEPT ![current_slot] = picture]
        /\ encoded' = Append(encoded, picture)
    BY <1>3 DEF RenderPicture
  <2> HIDE DEF picture
  <2>3. encoded' \in Seq(Pictures)
    BY <2>1, <2>2, <1>0, AppendProperties DEF EncoderTyped
  <2>4. EncoderTyped'
    BY <1>3, <2>1, <2>2, <2>3, <1>0
    DEF RenderPicture, EncoderTyped, encoderVars
  <2>5. StorerTyped'
    BY <1>3, <1>0 DEF RenderPicture, StorerTyped, storerVars
  <2>6. Counted'
    BY <1>3, <1>0 DEF RenderPicture, Counted, encoderVars, storerVars
  <2>7. Rendered'
    BY <1>3, <2>1, <2>2, <1>0
    DEF RenderPicture, Rendered, EncoderTyped, Storing, encoderVars,
        storerVars, current_slot
  <2> QED
    BY <2>4, <2>5, <2>6, <2>7 DEF Typed
<1>4. CASE QueueFrame
  <2>0. storage_task_queue(current_frame_display) /\ update_ReferenceFrames
    BY <1>4 DEF QueueFrame
  <2>1. EncoderTyped'
    BY <1>4, <2>0, <1>0, ReferencesTyped
    DEF QueueFrame, EncoderTyped, Counted, surfaces
  <2>2. /\ tasks' = Append(tasks, current_frame_display)
        /\ tasks' \in Seq(Displays) /\ Len(tasks') = Len(tasks) + 1
        /\ \A i \in 1..Len(tasks') :
             tasks'[i] = IF i <= Len(tasks) THEN tasks[i]
                                            ELSE current_frame_display
    <3>1. tasks \in Seq(Displays) /\ current_frame_display \in Displays
      BY <1>0 DEF EncoderTyped, StorerTyped
    <3> QED
      BY <3>1, <2>0, AppendProperties DEF storage_task_queue
  <2>3. StorerTyped'
    BY <1>4, <2>0, <2>2, <1>0
    DEF QueueFrame, storage_task_queue, StorerTyped, surfaces, storerVars
  <2>4. Counted'
    BY <1>4, <2>0, <1>0
    DEF QueueFrame, storage_task_queue, Counted, EncoderTyped, storerVars
  <2>5. Rendered'
    BY <1>4, <2>0, <2>2, <1>0
    DEF QueueFrame, storage_task_queue, Rendered, Storing, surfaces,
        storerVars, current_slot, StorerTyped
  <2> QED
    BY <2>1, <2>3, <2>4, <2>5 DEF Typed
<1>5. CASE Dequeue
  <2>1. EncoderTyped'
    BY <1>5, <1>0 DEF Dequeue, StorerUnchanged, EncoderTyped, encoderVars
  <2>2. CASE tasks = <<>>
    BY <1>5, <2>1, <2>2, <1>0
    DEF Dequeue, StorerUnchanged, Typed, StorerTyped, Counted, Rendered,
        Storing, encoderVars, current_slot
  <2>3. CASE tasks # <<>>
    <3>1. /\ Head(tasks) = tasks[1] /\ Head(tasks) \in Displays
          /\ Tail(tasks) \in Seq(Displays)
          /\ Len(Tail(tasks)) = Len(tasks) - 1 /\ Len(tasks) \in Nat \ {0}
          /\ \A i \in 1..Len(Tail(tasks)) : Tail(tasks)[i] = tasks[i + 1]
      BY <1>0, <2>3, HeadTailProperties, EmptySeq DEF StorerTyped
    <3>2. StorerTyped'
      BY <1>5, <2>3, <3>1, <1>0 DEF Dequeue, StorerTyped
    <3>3. Counted'
      BY <1>5, <2>3, <1>0
      DEF Dequeue, StorerUnchanged, Counted, encoderVars
    <3>4. Rendered'
      BY <1>5, <2>3, <3>1, <1>0
      DEF Dequeue, StorerUnchanged, Rendered, Storing, encoderVars,
          current_slot
    <3> QED
      BY <2>1, <3>2, <3>3, <3>4 DEF Typed
  <2> QED
    BY <2>2, <2>3
<1>6. CASE Wait \/ SpuriousWake
  <2>1. EncoderTyped'
    BY <1>6, <1>0
    DEF Wait, SpuriousWake, StorerUnchanged, EncoderTyped, encoderVars
  <2>2. StorerTyped'
    BY <1>6, <1>0 DEF Wait, SpuriousWake, StorerTyped, storerVars
  <2>3. Counted' /\ Rendered'
    BY <1>6, <1>0
    DEF Wait, SpuriousWake, StorerUnchanged, Counted, Rendered, Storing,
        encoderVars, storerVars, current_slot
  <2> QED
    BY <2>1, <2>2, <2>3 DEF Typed
<1>7. CASE Save
  <2>1. coded_buf[Slot(task)] \in Pictures
    BY <1>7, <1>0 DEF Save, Rendered, Storing
  <2>2. coded_fp' \in Seq(Pictures)
    BY <1>7, <2>1, <1>0, AppendProperties DEF Save, StorerTyped
  <2>3. EncoderTyped'
    BY <1>7, <1>0 DEF Save, StorerUnchanged, EncoderTyped, encoderVars
  <2>4. StorerTyped'
    BY <1>7, <2>2, <1>0 DEF Save, StorerTyped
  <2>5. Counted' /\ Rendered'
    BY <1>7, <1>0
    DEF Save, StorerUnchanged, Counted, Rendered, Storing, encoderVars,
        current_slot
  <2> QED
    BY <2>3, <2>4, <2>5 DEF Typed
<1>8. CASE Load
  <2>1. EncoderTyped'
    BY <1>8, <1>0 DEF Load, StorerUnchanged, EncoderTyped, encoderVars
  <2>2. StorerTyped'
    BY <1>8, <1>0 DEF Load, StorerTyped, storerVars
  <2>3. Counted' /\ Rendered'
    BY <1>8, <1>0
    DEF Load, StorerUnchanged, Counted, Rendered, Storing, encoderVars,
        storerVars, current_slot
  <2> QED
    BY <2>1, <2>2, <2>3 DEF Typed
<1>9. CASE Release
  <2>1. EncoderTyped'
    BY <1>9, <1>0 DEF Release, StorerUnchanged, EncoderTyped, encoderVars
  <2>2. StorerTyped'
    BY <1>9, <1>0 DEF Release, StorerTyped, Counted
  <2>3. Counted'
    BY <1>9, <1>0
    DEF Release, StorerUnchanged, Counted, StorerTyped, encoderVars
  <2>4. Rendered'
    BY <1>9, <1>0
    DEF Release, StorerUnchanged, Rendered, Storing, encoderVars,
        current_slot
  <2> QED
    BY <2>1, <2>2, <2>3, <2>4 DEF Typed
<1>10. CASE UNCHANGED vars
  BY <1>10, <1>0
  DEF vars, encoderVars, surfaces, storerVars, Typed, EncoderTyped,
      StorerTyped, Counted, Rendered, Storing, current_slot
<1> QED
  BY <1>1, <1>2, <1>3, <1>4, <1>5, <1>6, <1>7, <1>8, <1>9, <1>10
  DEF Next, Encoder, Storer, Stopped

LEMMA AlwaysTyped == Spec => []Typed
BY TypedInit, TypedStep, PTL DEF Spec

(* Every variable has its type: the storer counts no frame twice, the list *)
(* of references keeps its bound, and only what was rendered is written to *)
(* the file. *)
THEOREM TypeCorrect == Spec => []TypeOK
BY AlwaysTyped, TypedImpliesTypeOK, PTL

-----------------------------------------------------------------------------
(* The slots.  A task that waits or is being stored marks its slot, so the *)
(* encoder, which took a slot that is not marked, shares it with none of   *)
(* them. *)

Marked ==
  /\ \A i \in 1..Len(tasks) :
       srcsurface_status[Slot(tasks[i])] = "IN_STORAGE"
  /\ Storing => srcsurface_status[Slot(task)] = "IN_STORAGE"
  /\ enc \in {"render", "queue"} =>
       srcsurface_status[current_slot] = "IN_ENCODING"

(* The parts of SlotExclusive about the tasks. *)
Apart ==
  /\ \A i, j \in 1..Len(tasks) : i # j => Slot(tasks[i]) # Slot(tasks[j])
  /\ Storing => \A i \in 1..Len(tasks) : Slot(tasks[i]) # Slot(task)

Owned == Marked /\ Apart

LEMMA OwnedImpliesExclusive == Typed /\ Owned => SlotExclusive
<1> SUFFICES ASSUME Typed, Owned PROVE SlotExclusive
  OBVIOUS
<1>1. DOMAIN tasks = 1..Len(tasks)
  BY LenProperties DEF Typed, StorerTyped
<1>2. ASSUME enc \in {"render", "queue"} PROVE current_slot \notin PendingSlots
  BY <1>1, <1>2 DEF Owned, Marked, PendingSlots
<1> QED
  BY <1>1, <1>2 DEF Owned, Apart, SlotExclusive

LEMMA OwnedInit == Init => Owned
BY DEF Init, Owned, Marked, Apart, Storing

(* What the two ends of the list of tasks do to it.  *)
LEMMA TaskAppended ==
  ASSUME Typed, QueueFrame
  PROVE  /\ Len(tasks') = Len(tasks) + 1 /\ Len(tasks) \in Nat
         /\ \A i \in 1..Len(tasks') :
              tasks'[i] = IF i <= Len(tasks) THEN tasks[i]
                                             ELSE current_frame_display
BY AppendProperties
DEF QueueFrame, storage_task_queue, Typed, EncoderTyped, StorerTyped

LEMMA TaskTaken ==
  ASSUME Typed, tasks # <<>>
  PROVE  /\ Head(tasks) = tasks[1] /\ Len(tasks) \in Nat \ {0}
         /\ Len(Tail(tasks)) = Len(tasks) - 1
         /\ \A i \in 1..Len(Tail(tasks)) : Tail(tasks)[i] = tasks[i + 1]
BY HeadTailProperties, EmptySeq DEF Typed, StorerTyped

LEMMA SlotsTyped ==
  ASSUME Typed
  PROVE  /\ current_slot \in Slots /\ Slot(task) \in Slots
         /\ \A i \in 1..Len(tasks) : Slot(tasks[i]) \in Slots
         /\ srcsurface_status \in [Slots -> {"IN_ENCODING", "IN_STORAGE"}]
         /\ coded_buf \in [Slots -> Pictures \cup {NoPicture}]
<1>1. \A i \in 1..Len(tasks) : tasks[i] \in Nat
  BY ElementOfSeq, DisplaysNat DEF Typed, StorerTyped
<1>2. current_frame_display \in Nat /\ task \in Nat
  BY DisplaysNat DEF Typed, EncoderTyped, StorerTyped
<1> QED
  BY <1>1, <1>2, SlotTyped DEF current_slot, Typed, EncoderTyped, StorerTyped

LEMMA OwnedStep == Typed /\ Owned /\ [Next]_vars => Owned'
<1> SUFFICES ASSUME Typed, Owned, [Next]_vars PROVE Owned'
  OBVIOUS
<1>0. Marked /\ Apart
  BY DEF Owned
<1>1. CASE BeginFrame \/ RenderPicture \/ Join
  BY <1>1, <1>0
  DEF BeginFrame, RenderPicture, Join, Owned, Marked, Apart, Storing,
      encoderVars, surfaces, storerVars, current_slot
<1>2. CASE SlotReady
  BY <1>2, <1>0
  DEF SlotReady, Owned, Marked, Apart, Storing, encoderVars, storerVars,
      current_slot
<1>3. CASE QueueFrame
  <2>1. /\ srcsurface_status' = [srcsurface_status EXCEPT
                                   ![current_slot] = "IN_STORAGE"]
        /\ srcsurface_status[current_slot] = "IN_ENCODING"
        /\ enc' = "begin" /\ task' = task /\ Storing' = Storing
    BY <1>3, <1>0
    DEF QueueFrame, storage_task_queue, Marked, storerVars, current_slot,
        Storing
  <2>2. \A i \in 1..Len(tasks') :
          Slot(tasks'[i]) = IF i <= Len(tasks) THEN Slot(tasks[i])
                                               ELSE current_slot
    BY <1>3, TaskAppended DEF current_slot
  <2>3. Marked'
    BY <1>3, <2>1, <2>2, <1>0, TaskAppended, SlotsTyped DEF Marked
  <2>4. Apart'
    BY <1>3, <2>1, <2>2, <1>0, TaskAppended, SlotsTyped DEF Marked, Apart
  <2> QED
    BY <2>3, <2>4 DEF Owned
<1>4. CASE Dequeue
  <2>1. CASE tasks = <<>>
    BY <1>4, <2>1, <1>0
    DEF Dequeue, StorerUnchanged, Owned, Marked, Apart, Storing, encoderVars,
        current_slot
  <2>2. CASE tasks # <<>>
    <3>1. /\ sto' = "save" /\ task' = tasks[1] /\ Len(tasks) \in Nat \ {0}
          /\ Len(tasks') = Len(tasks) - 1
          /\ \A i \in 1..Len(tasks') : tasks'[i] = tasks[i + 1]
          /\ UNCHANGED <<srcsurface_status, enc, current_slot>>
      BY <1>4, <2>2, TaskTaken
      DEF Dequeue, StorerUnchanged, encoderVars, current_slot
    <3>2. \A i \in 1..Len(tasks') :
            i + 1 \in 1..Len(tasks) /\ i + 1 # 1 /\ 1 \in 1..Len(tasks)
      BY <3>1
    <3>3. Marked'
      BY <3>1, <3>2, <1>0 DEF Marked, Storing
    <3>4. ASSUME NEW i \in 1..Len(tasks'), NEW j \in 1..Len(tasks'), i # j
          PROVE  Slot(tasks'[i]) # Slot(tasks'[j])
      BY <3>1, <3>2, <3>4, <1>0 DEF Apart
    <3>5. ASSUME NEW i \in 1..Len(tasks')
          PROVE  Slot(tasks'[i]) # Slot(task')
      BY <3>1, <3>2, <1>0 DEF Apart
    <3> QED
      BY <3>3, <3>4, <3>5 DEF Owned, Apart
  <2> QED
    BY <2>1, <2>2
<1>5. CASE Wait \/ SpuriousWake \/ Save \/ Load
  BY <1>5, <1>0
  DEF Wait, SpuriousWake, Save, Load, StorerUnchanged, Owned, Marked, Apart,
      Storing, encoderVars, storerVars, current_slot
<1>6. CASE Release
  <2>1. /\ srcsurface_status' = [srcsurface_status EXCEPT
                                   ![Slot(task)] = "IN_ENCODING"]
        /\ UNCHANGED <<tasks, enc, current_slot>> /\ ~Storing'
        /\ \A i \in 1..Len(tasks) : Slot(tasks[i]) # Slot(task)
    BY <1>6, <1>0
    DEF Release, StorerUnchanged, Apart, Storing, encoderVars, current_slot
  <2> QED
    BY <2>1, <1>0, SlotsTyped DEF Owned, Marked, Apart
<1>7. CASE UNCHANGED vars
  BY <1>7, <1>0
  DEF vars, encoderVars, storerVars, Owned, Marked, Apart, Storing,
      current_slot
<1> QED
  BY <1>1, <1>2, <1>3, <1>4, <1>5, <1>6, <1>7
  DEF Next, Encoder, Storer, Stopped

LEMMA AlwaysOwned == Spec => []Owned
<1>1. Typed /\ Typed' /\ Owned /\ [Next]_vars => Owned'
  BY OwnedStep
<1> QED
  BY AlwaysTyped, OwnedInit, <1>1, PTL DEF Spec

(* No slot is used by both threads, for any number of slots, although the  *)
(* status that keeps them apart is read without the mutex. *)
THEOREM SlotsExclusive == Spec => []SlotExclusive
BY AlwaysTyped, AlwaysOwned, OwnedImpliesExclusive, PTL

-----------------------------------------------------------------------------
(* The file.  What was given to the driver is what was saved, then what    *)
(* the tasks not yet saved find in their coded buffers, then the picture   *)
(* that is not yet a task. *)

(* The tasks not yet saved, the one that the storer took first.  *)
Unsaved(i) == IF sto = "save" THEN IF i = 1 THEN task ELSE tasks[i - 1]
                              ELSE tasks[i]
UnsavedLen == Len(tasks) + IF sto = "save" THEN 1 ELSE 0

Ledger ==
  /\ Len(encoded) = Len(coded_fp) + UnsavedLen
                      + IF enc = "queue" THEN 1 ELSE 0
  /\ \A i \in 1..Len(coded_fp) : coded_fp[i] = encoded[i]
  /\ \A i \in 1..UnsavedLen :
       encoded[Len(coded_fp) + i] = coded_buf[Slot(Unsaved(i))]
  /\ enc = "queue" => encoded[Len(encoded)] = coded_buf[current_slot]

(* While a picture is rendered its slot is none of an unsaved task's. *)
LEMMA UnsavedSlots ==
  ASSUME Typed, Owned, enc = "render"
  PROVE  \A i \in 1..UnsavedLen : /\ Slot(Unsaved(i)) \in Slots
                                  /\ Slot(Unsaved(i)) # current_slot
<1>1. Len(tasks) \in Nat
  BY LenProperties DEF Typed, StorerTyped
<1> QED
  BY <1>1, SlotsTyped DEF UnsavedLen, Unsaved, Owned, Marked, Storing

LEMMA LedgerInit == Init => Ledger
BY DEF Init, Ledger, UnsavedLen

LEMMA LedgerStep == Typed /\ Owned /\ Ledger /\ [Next]_vars => Ledger'
<1> SUFFICES ASSUME Typed, Owned, Ledger, [Next]_vars PROVE Ledger'
  OBVIOUS
<1>0. /\ encoded \in Seq(Pictures) /\ Len(encoded) \in Nat
      /\ coded_fp \in Seq(Pictures) /\ Len(coded_fp) \in Nat
      /\ Len(tasks) \in Nat /\ UnsavedLen \in Nat
  BY LenProperties DEF Typed, EncoderTyped, StorerTyped, UnsavedLen
<1>1. CASE BeginFrame \/ SlotReady \/ Join
  BY <1>1, <1>0
  DEF BeginFrame, SlotReady, Join, Ledger, UnsavedLen, Unsaved, encoderVars,
      surfaces, storerVars, current_slot
<1>2. CASE RenderPicture
  <2> DEFINE picture == [display |-> current_frame_display,
                         shot |-> src_surface[current_slot]]
  <2>1. /\ coded_buf' = [coded_buf EXCEPT ![current_slot] = picture]
        /\ encoded' = Append(encoded, picture)
        /\ enc = "render" /\ enc' = "queue"
        /\ UNCHANGED <<sto, tasks, task, coded_fp, current_slot>>
    BY <1>2 DEF RenderPicture, encoderVars, storerVars, current_slot
  <2>2. picture \in Pictures
    BY SlotsTyped DEF Typed, EncoderTyped, StorerTyped, Pictures
  <2> HIDE DEF picture
  <2>3. /\ Len(encoded') = Len(encoded) + 1
        /\ encoded'[Len(encoded) + 1] = picture
        /\ \A i \in 1..Len(encoded) : encoded'[i] = encoded[i]
    BY <2>1, <2>2, <1>0, AppendProperties
  <2>4. \A i \in 1..UnsavedLen : /\ Slot(Unsaved(i)) \in Slots
                                 /\ Slot(Unsaved(i)) # current_slot
    BY <2>1, <1>0, UnsavedSlots
  <2>5. UnsavedLen' = UnsavedLen /\ \A i : Unsaved(i)' = Unsaved(i)
    BY <2>1 DEF UnsavedLen, Unsaved
  <2>6. coded_buf'[current_slot] = picture
          /\ \A s \in Slots \ {current_slot} : coded_buf'[s] = coded_buf[s]
    BY <2>1, SlotsTyped
  <2>7. \A i \in 1..UnsavedLen :
          encoded'[Len(coded_fp) + i] = coded_buf'[Slot(Unsaved(i))]
    BY <2>1, <2>3, <2>4, <2>6, <1>0 DEF Ledger
  <2>8. \A i \in 1..Len(coded_fp) : coded_fp[i] = encoded'[i]
    BY <2>1, <2>3, <1>0 DEF Ledger
  <2> QED
    BY <2>1, <2>3, <2>5, <2>6, <2>7, <2>8, <1>0 DEF Ledger
<1>3. CASE QueueFrame
  <2>1. /\ enc = "queue" /\ enc' = "begin"
        /\ (sto' = "save") = (sto = "save")
        /\ UNCHANGED <<encoded, coded_fp, coded_buf, task>>
    BY <1>3 DEF QueueFrame, storage_task_queue, storerVars, surfaces
  <2>2. /\ UnsavedLen' = UnsavedLen + 1
        /\ \A i \in 1..UnsavedLen' :
             Unsaved(i)' = IF i <= UnsavedLen THEN Unsaved(i)
                                              ELSE current_frame_display
    BY <1>3, <2>1, TaskAppended, <1>0 DEF UnsavedLen, Unsaved
  <2>3. /\ Len(encoded) = Len(coded_fp) + UnsavedLen + 1
        /\ encoded[Len(encoded)] = coded_buf[current_slot]
    BY <2>1, <1>0 DEF Ledger
  <2>4. ASSUME NEW i \in 1..UnsavedLen'
        PROVE  encoded'[Len(coded_fp') + i] = coded_buf'[Slot(Unsaved(i)')]
    <3>1. CASE i <= UnsavedLen
      <4>1. i \in 1..UnsavedLen /\ Unsaved(i)' = Unsaved(i)
        BY <2>2, <3>1, <1>0
      <4>2. encoded[Len(coded_fp) + i] = coded_buf[Slot(Unsaved(i))]
        BY <4>1 DEF Ledger
      <4> QED
        BY <2>1, <4>1, <4>2
    <3>2. CASE ~(i <= UnsavedLen)
      <4>1. i = UnsavedLen + 1 /\ Unsaved(i)' = current_frame_display
        BY <2>2, <3>2, <1>0
      <4>2. Len(coded_fp) + i = Len(encoded)
        BY <2>3, <4>1, <1>0
      <4> QED
        BY <2>1, <2>3, <4>1, <4>2 DEF current_slot
    <3> QED
      BY <3>1, <3>2
  <2> QED
    BY <2>1, <2>2, <2>3, <2>4, <1>0 DEF Ledger
<1>4. CASE Dequeue
  <2>1. /\ sto = "dequeue"
        /\ UNCHANGED <<encoded, coded_fp, coded_buf, enc, current_slot>>
    BY <1>4 DEF Dequeue, StorerUnchanged, encoderVars, current_slot
  <2>2. UnsavedLen' = UnsavedLen
        /\ \A i \in 1..UnsavedLen : Unsaved(i)' = Unsaved(i)
    <3>1. CASE tasks = <<>>
      BY <1>4, <2>1, <3>1, <1>0 DEF Dequeue, UnsavedLen, Unsaved
    <3>2. CASE tasks # <<>>
      <4>1. /\ sto' = "save" /\ task' = tasks[1]
            /\ Len(tasks') = Len(tasks) - 1
            /\ \A i \in 1..Len(tasks') : tasks'[i] = tasks[i + 1]
        BY <1>4, <3>2, TaskTaken DEF Dequeue
      <4>2. UnsavedLen = Len(tasks) /\ UnsavedLen' = Len(tasks)
        BY <2>1, <4>1, <1>0 DEF UnsavedLen
      <4>3. ASSUME NEW i \in 1..Len(tasks) PROVE Unsaved(i)' = Unsaved(i)
        <5>1. Unsaved(i) = tasks[i]
          BY <2>1 DEF Unsaved
        <5>2. CASE i = 1
          BY <4>1, <5>1, <5>2 DEF Unsaved
        <5>3. CASE i # 1
          <6>1. i - 1 \in 1..Len(tasks') /\ (i - 1) + 1 = i
            BY <4>1, <5>3, <1>0
          <6>2. tasks'[i - 1] = tasks[i]
            BY <4>1, <6>1
          <6> QED
            BY <4>1, <5>1, <5>3, <6>2 DEF Unsaved
        <5> QED
          BY <5>2, <5>3
      <4> QED
        BY <4>2, <4>3
    <3> QED
      BY <3>1, <3>2
  <2> QED
    BY <2>1, <2>2, <1>0 DEF Ledger
<1>5. CASE Wait \/ SpuriousWake \/ Load \/ Release
  BY <1>5, <1>0
  DEF Wait, SpuriousWake, Load, Release, StorerUnchanged, Ledger, UnsavedLen,
      Unsaved, encoderVars, surfaces, storerVars, current_slot
<1>6. CASE Save
  <2>1. /\ sto = "save" /\ sto' = "load"
        /\ coded_fp' = Append(coded_fp, coded_buf[Slot(task)])
        /\ UNCHANGED <<encoded, coded_buf, enc, tasks, current_slot>>
    BY <1>6 DEF Save, StorerUnchanged, encoderVars, current_slot
  <2>2. coded_buf[Slot(task)] \in Pictures
    BY <2>1 DEF Typed, Rendered, Storing
  <2>3. /\ Len(coded_fp') = Len(coded_fp) + 1
        /\ coded_fp'[Len(coded_fp) + 1] = coded_buf[Slot(task)]
        /\ \A i \in 1..Len(coded_fp) : coded_fp'[i] = coded_fp[i]
    BY <2>1, <2>2, <1>0, AppendProperties
  <2>4. /\ UnsavedLen = Len(tasks) + 1 /\ UnsavedLen' = Len(tasks)
        /\ Unsaved(1) = task
        /\ \A i \in 1..Len(tasks) : Unsaved(i)' = Unsaved(i + 1)
    BY <2>1, <1>0 DEF UnsavedLen, Unsaved
  <2>5. encoded[Len(coded_fp) + 1] = coded_buf[Slot(task)]
    BY <2>4, <1>0 DEF Ledger
  <2>6. \A i \in 1..Len(coded_fp') : coded_fp'[i] = encoded'[i]
    BY <2>1, <2>3, <2>5, <1>0 DEF Ledger
  <2>7. ASSUME NEW i \in 1..UnsavedLen'
        PROVE  encoded'[Len(coded_fp') + i] = coded_buf'[Slot(Unsaved(i)')]
    <3>1. i + 1 \in 1..UnsavedLen
            /\ Len(coded_fp') + i = Len(coded_fp) + (i + 1)
      BY <2>3, <2>4, <1>0
    <3> QED
      BY <3>1, <2>1, <2>4, <1>0 DEF Ledger
  <2>8. Len(encoded') = Len(coded_fp') + UnsavedLen'
                          + IF enc' = "queue" THEN 1 ELSE 0
    BY <2>1, <2>3, <2>4, <1>0 DEF Ledger
  <2>9. enc' = "queue" => encoded'[Len(encoded')] = coded_buf'[current_slot']
    BY <2>1, <1>0 DEF Ledger
  <2> QED
    BY <2>6, <2>7, <2>8, <2>9 DEF Ledger
<1>7. CASE UNCHANGED vars
  BY <1>7, <1>0
  DEF vars, encoderVars, surfaces, storerVars, Ledger, UnsavedLen, Unsaved,
      current_slot
<1> QED
  BY <1>1, <1>2, <1>3, <1>4, <1>5, <1>6, <1>7
  DEF Next, Encoder, Storer, Stopped

(* Both threads count the pictures. *)
Tally ==
  /\ Len(encoded) = current_frame_encoding + IF enc = "queue" THEN 1 ELSE 0
  /\ Len(coded_fp) = frame_coded + IF sto \in {"load", "release"} THEN 1 ELSE 0
  /\ sto = "exited" => frame_coded = frame_count

LEMMA TallyInit == Init => Tally
BY DEF Init, Tally

LEMMA TallyStep == Typed /\ Tally /\ [Next]_vars => Tally'
<1> SUFFICES ASSUME Typed, Tally, [Next]_vars PROVE Tally'
  OBVIOUS
<1>0. /\ encoded \in Seq(Pictures) /\ Len(encoded) \in Nat
      /\ coded_fp \in Seq(Pictures) /\ Len(coded_fp) \in Nat
      /\ current_frame_encoding \in Nat /\ frame_coded \in Nat
      /\ frame_count \in Nat /\ frame_coded <= frame_count
  BY LenProperties, EncoderAssumption DEF Typed, EncoderTyped, StorerTyped
<1>1. CASE BeginFrame \/ SlotReady \/ Join
  BY <1>1, <1>0
  DEF BeginFrame, SlotReady, Join, Tally, encoderVars, storerVars
<1>2. CASE RenderPicture
  <2>1. /\ enc = "render" /\ enc' = "queue"
        /\ UNCHANGED <<current_frame_encoding, sto, coded_fp, frame_coded>>
        /\ Len(encoded') = Len(encoded) + 1
    BY <1>2, <1>0, AppendProperties DEF RenderPicture, encoderVars, storerVars
  <2> QED
    BY <2>1, <1>0 DEF Tally
<1>3. CASE QueueFrame
  BY <1>3, <1>0 DEF QueueFrame, storage_task_queue, Tally, storerVars
<1>4. CASE Dequeue \/ Wait \/ SpuriousWake \/ Load
  BY <1>4, <1>0
  DEF Dequeue, Wait, SpuriousWake, Load, StorerUnchanged, Tally, encoderVars,
      storerVars
<1>5. CASE Save
  <2>1. coded_buf[Slot(task)] \in Pictures
    BY <1>5 DEF Save, Typed, Rendered, Storing
  <2>2. Len(coded_fp') = Len(coded_fp) + 1
    BY <1>5, <2>1, <1>0, AppendProperties DEF Save
  <2> QED
    BY <1>5, <2>2, <1>0 DEF Save, StorerUnchanged, Tally, encoderVars
<1>6. CASE Release
  <2>1. frame_coded < frame_count
    BY <1>6 DEF Release, Typed, Counted
  <2> QED
    BY <1>6, <2>1, <1>0 DEF Release, StorerUnchanged, Tally, encoderVars
<1>7. CASE UNCHANGED vars
  BY <1>7, <1>0 DEF vars, encoderVars, storerVars, Tally
<1> QED
  BY <1>1, <1>2, <1>3, <1>4, <1>5, <1>6, <1>7
  DEF Next, Encoder, Storer, Stopped

LEMMA BooksImplyInOrder == Typed /\ Ledger /\ Tally => FileInOrder
<1> SUFFICES ASSUME Typed, Ledger, Tally PROVE FileInOrder
  OBVIOUS
<1>0. /\ encoded \in Seq(Pictures) /\ Len(encoded) \in Nat
      /\ coded_fp \in Seq(Pictures) /\ Len(coded_fp) \in Nat
      /\ UnsavedLen \in Nat /\ frame_count \in Nat
      /\ current_frame_encoding \in 0..frame_count
  BY LenProperties, EncoderAssumption
  DEF Typed, EncoderTyped, StorerTyped, UnsavedLen
<1>1. Len(coded_fp) <= Len(encoded)
        /\ \A i \in 1..Len(coded_fp) : coded_fp[i] = encoded[i]
  BY <1>0 DEF Ledger
<1>2. SubSeq(coded_fp, 1, Len(coded_fp)) = SubSeq(encoded, 1, Len(coded_fp))
  <2> DEFINE n == Len(coded_fp)
             s == SubSeq(coded_fp, 1, n)
             t == SubSeq(encoded, 1, n)
  <2>1. \A i \in 1..n : coded_fp[i] \in Pictures /\ encoded[i] \in Pictures
    BY <1>0, <1>1, ElementOfSeq
  <2>2. /\ s \in Seq(Pictures) /\ Len(s) = n
        /\ \A i \in 1..n : s[i] = coded_fp[i]
    BY <2>1, <1>0, SubSeqProperties
  <2>3. /\ t \in Seq(Pictures) /\ Len(t) = n
        /\ \A i \in 1..n : t[i] = encoded[i]
    BY <2>1, <1>0, SubSeqProperties
  <2> HIDE DEF s, t, n
  <2>4. s = t
    BY <2>2, <2>3, <1>1, SeqEqual DEF n
  <2> QED
    BY <2>4 DEF s, t, n
<1>3. ASSUME sto = "exited"
      PROVE  Len(coded_fp) = frame_count /\ coded_fp = encoded
  <2>1. Len(coded_fp) = frame_count
    BY <1>3, <1>0 DEF Tally
  <2>2. Len(encoded) = Len(coded_fp)
    BY <2>1, <1>0, <1>1 DEF Tally, Typed, Counted
  <2> QED
    BY <2>1, <2>2, <1>0, <1>1, SeqEqual
<1> QED
  BY <1>1, <1>2, <1>3 DEF FileInOrder, IsPrefix

(* The file holds the coded pictures in the order of encoding, for any     *)
(* number of frames and slots and any interleaving of the two threads, and *)
(* it is complete when the storer exits. *)
THEOREM FileOrdered == Spec => []FileInOrder
<1>1. Typed /\ Owned /\ Ledger /\ Tally /\ [Next]_vars => Ledger' /\ Tally'
  BY LedgerStep, TallyStep
<1>2. Init => Ledger /\ Tally
  BY LedgerInit, TallyInit
<1> QED
  BY AlwaysTyped, AlwaysOwned, <1>1, <1>2, BooksImplyInOrder, PTL DEF Spec

-----------------------------------------------------------------------------
(* The screen shots.  A source surface whose picture was not yet rendered  *)
(* holds a shot that is in no picture. *)

(* The slots whose shot was rendered and not yet replaced. *)
Used(s) ==
  \/ enc = "queue" /\ s = current_slot
  \/ \E i \in 1..Len(tasks) : s = Slot(tasks[i])
  \/ sto \in {"save", "load"} /\ s = Slot(task)

Fresh ==
  /\ \A s, t \in Slots : s # t => src_surface[s] # src_surface[t]
  /\ \A s \in Slots : src_surface[s] < shots
  /\ \A i \in 1..Len(encoded) : encoded[i].shot < shots
  /\ \A i, j \in 1..Len(encoded) : i # j => encoded[i].shot # encoded[j].shot
  /\ \A i \in 1..Len(encoded), s \in Slots :
       ~Used(s) => encoded[i].shot # src_surface[s]

LEMMA FreshInit == Init => Fresh
BY EncoderAssumption DEF Init, Fresh, Slots

(* What RenderPicture appends. *)
LEMMA PictureAppended ==
  ASSUME Typed, RenderPicture
  PROVE  /\ Len(encoded) \in Nat /\ Len(encoded') = Len(encoded) + 1
         /\ encoded'[Len(encoded) + 1].shot = src_surface[current_slot]
         /\ \A i \in 1..Len(encoded) : encoded'[i] = encoded[i]
<1> DEFINE picture == [display |-> current_frame_display,
                       shot |-> src_surface[current_slot]]
<1>1. picture \in Pictures
  BY SlotsTyped DEF Typed, EncoderTyped, StorerTyped, Pictures
<1>2. encoded' = Append(encoded, picture) /\ encoded \in Seq(Pictures)
  BY DEF RenderPicture, Typed, EncoderTyped
<1>3. picture.shot = src_surface[current_slot]
  OBVIOUS
<1> HIDE DEF picture
<1> QED
  BY <1>1, <1>2, <1>3, AppendProperties

LEMMA ShotsTyped ==
  ASSUME Typed
  PROVE  /\ \A s \in Slots : src_surface[s] \in Nat
         /\ shots \in Nat /\ Len(encoded) \in Nat /\ Len(tasks) \in Nat
         /\ \A i \in 1..Len(encoded) : encoded[i].shot \in Nat
<1>1. \A i \in 1..Len(encoded) : encoded[i] \in Pictures
  BY ElementOfSeq DEF Typed, EncoderTyped
<1> QED
  BY <1>1, LenProperties DEF Typed, EncoderTyped, StorerTyped, Pictures

LEMMA FreshStep == Typed /\ Owned /\ Fresh /\ [Next]_vars => Fresh'
<1> SUFFICES ASSUME Typed, Owned, Fresh, [Next]_vars PROVE Fresh'
  OBVIOUS
<1>1. CASE RenderPicture
  <2>1. /\ enc = "render" /\ enc' = "queue"
        /\ UNCHANGED <<sto, tasks, task, src_surface, shots, current_slot>>
    BY <1>1 DEF RenderPicture, storerVars, encoderVars, current_slot
  <2>2. /\ ~Used(current_slot) /\ Used(current_slot)'
        /\ \A s \in Slots : Used(s) => Used(s)'
    BY <2>1 DEF Used, Owned, Marked, Storing
  <2>3. \A i \in 1..Len(encoded') :
          encoded'[i].shot = IF i <= Len(encoded) THEN encoded[i].shot
                                                  ELSE src_surface[current_slot]
    BY <1>1, PictureAppended
  <2>4. \A i, j \in 1..Len(encoded') :
          i # j => encoded'[i].shot # encoded'[j].shot
    BY <1>1, <2>2, <2>3, PictureAppended, SlotsTyped DEF Fresh
  <2>5. \A i \in 1..Len(encoded'), s \in Slots :
          ~Used(s)' => encoded'[i].shot # src_surface'[s]
    BY <1>1, <2>1, <2>2, <2>3, PictureAppended, SlotsTyped DEF Fresh
  <2>6. \A i \in 1..Len(encoded') : encoded'[i].shot < shots'
    BY <1>1, <2>1, <2>3, PictureAppended, SlotsTyped DEF Fresh
  <2> QED
    BY <2>1, <2>4, <2>5, <2>6 DEF Fresh
<1>2. CASE QueueFrame
  <2>1. /\ enc = "queue"
        /\ UNCHANGED <<encoded, src_surface, shots, task>>
        /\ (sto' \in {"save", "load"}) = (sto \in {"save", "load"})
    BY <1>2 DEF QueueFrame, storage_task_queue, storerVars, surfaces
  <2>2. Len(tasks') \in 1..Len(tasks') /\ Len(tasks) \in Nat
        /\ tasks'[Len(tasks')] = current_frame_display
        /\ \A i \in 1..Len(tasks) : i \in 1..Len(tasks') /\ tasks'[i] = tasks[i]
    BY <1>2, TaskAppended
  <2>3. \A s \in Slots : Used(s) => Used(s)'
    BY <2>1, <2>2 DEF Used, current_slot
  <2> QED
    BY <2>1, <2>3 DEF Fresh
<1>3. CASE Dequeue
  <2>1. UNCHANGED <<encoded, src_surface, shots, enc, current_slot>>
        /\ sto = "dequeue"
    BY <1>3 DEF Dequeue, StorerUnchanged, encoderVars, current_slot
  <2>2. CASE tasks = <<>>
    BY <1>3, <2>1, <2>2 DEF Dequeue, Fresh, Used
  <2>3. CASE tasks # <<>>
    <3>1. /\ sto' = "save" /\ task' = tasks[1] /\ Len(tasks) \in Nat \ {0}
          /\ Len(tasks') = Len(tasks) - 1
          /\ \A i \in 1..Len(tasks') : tasks'[i] = tasks[i + 1]
      BY <1>3, <2>3, TaskTaken DEF Dequeue
    <3>2. ASSUME NEW i \in 1..Len(tasks), i # 1
          PROVE  i - 1 \in 1..Len(tasks') /\ tasks'[i - 1] = tasks[i]
      BY <3>1, <3>2
    <3>3. \A s \in Slots : Used(s) => Used(s)'
      BY <2>1, <3>1, <3>2 DEF Used
    <3> QED
      BY <2>1, <3>3 DEF Fresh
  <2> QED
    BY <2>2, <2>3
<1>4. CASE Load
  <2>1. /\ sto = "load" /\ sto' = "release" /\ shots' = shots + 1
        /\ src_surface' = [src_surface EXCEPT ![Slot(task)] = shots]
        /\ UNCHANGED <<encoded, enc, current_slot, tasks, task>>
    BY <1>4 DEF Load, StorerUnchanged, storerVars, encoderVars, current_slot
  <2>2. \A s \in Slots \ {Slot(task)} : src_surface'[s] = src_surface[s]
    BY <2>1 DEF Typed, StorerTyped
  <2>3. src_surface'[Slot(task)] = shots
    BY <2>1, SlotsTyped DEF Typed, StorerTyped
  <2>4. \A s \in Slots \ {Slot(task)} : Used(s) => Used(s)'
    BY <2>1 DEF Used
  <2>5. \A s, t \in Slots : s # t => src_surface'[s] # src_surface'[t]
    BY <2>2, <2>3, ShotsTyped DEF Fresh
  <2>6. \A s \in Slots : src_surface'[s] < shots'
    BY <2>1, <2>2, <2>3, ShotsTyped DEF Fresh
  <2>7. \A i \in 1..Len(encoded) : encoded[i].shot < shots'
    BY <2>1, ShotsTyped DEF Fresh
  <2>8. \A i \in 1..Len(encoded), s \in Slots :
          ~Used(s)' => encoded[i].shot # src_surface'[s]
    BY <2>2, <2>3, <2>4, ShotsTyped DEF Fresh
  <2> QED
    BY <2>1, <2>5, <2>6, <2>7, <2>8 DEF Fresh
<1>5. CASE BeginFrame \/ SlotReady \/ Join
  BY <1>5
  DEF BeginFrame, SlotReady, Join, Fresh, Used, encoderVars, surfaces,
      storerVars, current_slot
<1>6. CASE Wait \/ SpuriousWake \/ Save \/ Release
  BY <1>6
  DEF Wait, SpuriousWake, Save, Release, StorerUnchanged, Fresh, Used,
      encoderVars, storerVars, current_slot
<1>7. CASE UNCHANGED vars
  BY <1>7
  DEF vars, encoderVars, surfaces, storerVars, Fresh, Used, current_slot
<1> QED
  BY <1>1, <1>2, <1>3, <1>4, <1>5, <1>6, <1>7
  DEF Next, Encoder, Storer, Stopped

(* The same in display order.  Without B pictures the tasks are the frames *)
(* one after the other, and the shots that are loaded follow each other as *)
(* the tasks do: the slot of a frame, once the storer has given it back,   *)
(* holds the shot of the same number as the frame. *)
InHand == IF sto \in {"save", "load"} THEN 1 ELSE 0
Loaded == shots - SURFACE_NUM

Lockstep ==
  /\ Loaded \in Nat
  /\ \A s \in Slots : src_surface[s] % SURFACE_NUM = s
                        /\ Loaded <= src_surface[s]
  /\ InHand = 1 => task = Loaded
  /\ \A i \in 1..Len(tasks) : tasks[i] = Loaded + InHand + i - 1
  /\ current_frame_encoding = Loaded + InHand + Len(tasks)
  /\ enc \in {"slot", "render", "queue"} =>
       current_frame_display = current_frame_encoding
  /\ enc \in {"render", "queue"} => current_frame_encoding < shots
  /\ \A i \in 1..Len(encoded) : encoded[i].shot = i - 1

LEMMA GopPlaceTyped ==
  ASSUME NEW e \in Nat PROVE GopPlace(e) \in Nat
<1> DEFINE group == IdrPeriod + IF ip_period = 1 THEN 0 ELSE 1
<1>1. IdrPeriod \in Nat
  BY PeriodsAssumption DEF IdrPeriod
<1>2. ASSUME IdrPeriod # 0 PROVE e % group \in Nat
  BY <1>1, <1>2, DivMod
<1> QED
  BY <1>2 DEF GopPlace

LEMMA DisplayOrderWithoutB ==
  ASSUME NEW e \in Nat, ip_period = 1 PROVE DisplayOrder(e) = e
<1>1. GopPlace(e) - 1 \in Int
  BY GopPlaceTyped
<1>2. \A x \in Int : x % 1 = 0
  OBVIOUS
<1>3. ~IsB(e)
  BY <1>1, <1>2 DEF IsB
<1> QED
  BY <1>3 DEF DisplayOrder

LEMMA LockstepInit == Init => Lockstep
<1> SUFFICES ASSUME Init PROVE Lockstep
  OBVIOUS
<1>1. \A s \in Slots : src_surface[s] = s /\ s % SURFACE_NUM = s
  BY EncoderAssumption, ModSmall DEF Init, Slots
<1>2. Loaded = 0 /\ InHand = 0
  BY EncoderAssumption DEF Init, Loaded, InHand
<1>3. \A s \in Slots : src_surface[s] % SURFACE_NUM = s /\ 0 <= src_surface[s]
  BY <1>1, EncoderAssumption DEF Slots
<1>4. /\ Len(tasks) = 0 /\ Len(encoded) = 0
      /\ current_frame_encoding = 0 /\ enc = "begin"
  BY DEF Init
<1> QED
  BY <1>2, <1>3, <1>4 DEF Lockstep

(* A frame whose slot is not marked is less than a round ahead of what is  *)
(* loaded: otherwise the frame one round before it would still be a task.  *)
LEMMA RoundAhead ==
  ASSUME Typed, Owned, Lockstep, SlotReady
  PROVE  current_frame_encoding < shots
<1> DEFINE before == current_frame_encoding - SURFACE_NUM
<1>0. /\ current_frame_encoding \in Nat /\ shots \in Nat
      /\ SURFACE_NUM \in Nat \ {0} /\ Loaded = shots - SURFACE_NUM
      /\ Len(tasks) \in Nat /\ InHand \in {0, 1}
      /\ current_frame_display = current_frame_encoding
      /\ current_frame_encoding = Loaded + InHand + Len(tasks)
      /\ Loaded \in Nat
  BY ShotsTyped, EncoderAssumption
  DEF Typed, EncoderTyped, Loaded, InHand, Lockstep, SlotReady
<1> SUFFICES ASSUME shots <= current_frame_encoding PROVE FALSE
  BY <1>0
<1>1. before \in Nat /\ Loaded <= before /\ before < current_frame_encoding
  BY <1>0 DEF Lockstep
<1>2. Slot(before) = current_slot
  <2>1. (before + SURFACE_NUM) % SURFACE_NUM = before % SURFACE_NUM
    BY <1>0, <1>1, ModPlus
  <2>2. before + SURFACE_NUM = current_frame_encoding
    BY <1>0
  <2> QED
    BY <2>1, <2>2, <1>0 DEF Slot, current_slot
<1>3. srcsurface_status[current_slot] = "IN_ENCODING"
  BY DEF SlotReady
<1>4. CASE InHand = 1 /\ before = Loaded
  <2>1. task = before /\ Storing
    BY <1>4 DEF Lockstep, InHand, Storing
  <2> QED
    BY <2>1, <1>2, <1>3 DEF Owned, Marked
<1>5. CASE ~(InHand = 1 /\ before = Loaded)
  <2> DEFINE i == before - Loaded - InHand + 1
  <2>1. i \in 1..Len(tasks)
    BY <1>0, <1>1, <1>5
  <2>2. tasks[i] = Loaded + InHand + i - 1
    BY <2>1 DEF Lockstep
  <2>3. tasks[i] = before
    BY <2>2, <1>0, <1>1
  <2> HIDE DEF i
  <2> QED
    BY <2>1, <2>3, <1>2, <1>3 DEF Owned, Marked
<1> QED
  BY <1>4, <1>5

(* The slot of such a frame holds its shot. *)
LEMMA ShotOfFrame ==
  ASSUME Typed, Lockstep, Fresh, enc \in {"render", "queue"}
  PROVE  src_surface[current_slot] = current_frame_encoding
<1> DEFINE shot == src_surface[current_slot]
           e == current_frame_encoding
<1>1. /\ e \in Nat /\ shots \in Nat /\ SURFACE_NUM \in Nat \ {0}
      /\ Loaded = shots - SURFACE_NUM /\ current_slot \in Slots
      /\ shot \in Nat
  BY ShotsTyped, SlotsTyped, EncoderAssumption
  DEF Typed, EncoderTyped, Loaded
<1>2. Loaded <= shot /\ shot < shots /\ Loaded <= e /\ e < shots
  <2>1. e = Loaded + InHand + Len(tasks) /\ Loaded \in Nat
        /\ InHand \in Nat /\ Len(tasks) \in Nat
    BY ShotsTyped DEF Lockstep, InHand
  <2> QED
    BY <2>1, <1>1 DEF Lockstep, Fresh
<1>3. shot % SURFACE_NUM = current_slot /\ e % SURFACE_NUM = current_slot
  BY <1>1 DEF Lockstep, current_slot, Slot
<1> HIDE DEF shot, e
<1>4. ASSUME shot < e PROVE FALSE
  <2>1. e - shot < SURFACE_NUM
    BY <1>1, <1>2
  <2> QED
    BY <2>1, <1>1, <1>3, <1>4, ModApart
<1>5. ASSUME e < shot PROVE FALSE
  <2>1. shot - e < SURFACE_NUM
    BY <1>1, <1>2
  <2> QED
    BY <2>1, <1>1, <1>3, <1>5, ModApart
<1> QED
  BY <1>1, <1>4, <1>5 DEF shot, e

LEMMA LockstepStep ==
  ASSUME ip_period = 1, Typed, Owned, Fresh, Tally, Lockstep, [Next]_vars
  PROVE  Lockstep'
<1>0. /\ current_frame_encoding \in Nat /\ shots \in Nat
      /\ SURFACE_NUM \in Nat \ {0} /\ Loaded \in Nat
      /\ Loaded = shots - SURFACE_NUM
      /\ Len(tasks) \in Nat /\ InHand \in {0, 1}
      /\ current_frame_encoding = Loaded + InHand + Len(tasks)
  BY ShotsTyped, EncoderAssumption
  DEF Typed, EncoderTyped, Loaded, InHand, Lockstep
<1>1. CASE BeginFrame
  <2>1. current_frame_display' = current_frame_encoding
    BY <1>0, <1>1, DisplayOrderWithoutB DEF BeginFrame
  <2> QED
    BY <1>1, <2>1, <1>0
    DEF BeginFrame, Lockstep, Loaded, InHand, surfaces, storerVars
<1>2. CASE SlotReady
  <2>1. current_frame_encoding < shots
    BY <1>2, RoundAhead
  <2> QED
    BY <1>2, <2>1, <1>0
    DEF SlotReady, Lockstep, Loaded, InHand, encoderVars, surfaces,
        storerVars
<1>3. CASE RenderPicture
  <2>1. src_surface[current_slot] = current_frame_encoding
    BY <1>3, ShotOfFrame DEF RenderPicture
  <2>2. Len(encoded) = current_frame_encoding
    BY <1>3, <1>0, ShotsTyped DEF RenderPicture, Tally
  <2>3. \A i \in 1..Len(encoded') : encoded'[i].shot = i - 1
    <3>1. /\ Len(encoded) \in Nat /\ Len(encoded') = Len(encoded) + 1
          /\ encoded'[Len(encoded) + 1].shot = src_surface[current_slot]
          /\ \A i \in 1..Len(encoded) : encoded'[i] = encoded[i]
      BY <1>3, PictureAppended
    <3>2. \A i \in 1..Len(encoded) : encoded[i].shot = i - 1
      BY DEF Lockstep
    <3>3. ASSUME NEW i \in 1..Len(encoded') PROVE encoded'[i].shot = i - 1
      <4>1. i \in 1..Len(encoded) \/ i = Len(encoded) + 1
        BY <3>1
      <4> QED
        BY <4>1, <3>1, <3>2, <2>1, <2>2
    <3> QED
      BY <3>3
  <2> QED
    BY <1>3, <2>3, <1>0
    DEF RenderPicture, Lockstep, Loaded, InHand, encoderVars, storerVars
<1>4. CASE QueueFrame
  <2>1. /\ enc = "queue" /\ enc' = "begin" /\ InHand' = InHand
        /\ current_frame_encoding' = current_frame_encoding + 1
        /\ UNCHANGED <<encoded, src_surface, shots, task>>
    BY <1>4
    DEF QueueFrame, storage_task_queue, storerVars, surfaces, InHand
  <2>2. Len(tasks') = Len(tasks) + 1
        /\ \A i \in 1..Len(tasks') :
             tasks'[i] = IF i <= Len(tasks) THEN tasks[i]
                                            ELSE current_frame_encoding
    BY <1>4, <2>1, TaskAppended DEF Lockstep
  <2>3. ASSUME NEW i \in 1..Len(tasks')
        PROVE  tasks'[i] = Loaded + InHand + i - 1
    <3>1. CASE i <= Len(tasks)
      <4>1. i \in 1..Len(tasks)
        BY <2>2, <3>1, <1>0
      <4> QED
        BY <2>2, <3>1, <4>1 DEF Lockstep
    <3>2. CASE ~(i <= Len(tasks))
      <4>1. i = Len(tasks) + 1
        BY <2>2, <3>2, <1>0
      <4> QED
        BY <2>2, <3>2, <4>1, <1>0
    <3> QED
      BY <3>1, <3>2
  <2>4. Loaded' = Loaded
    BY <2>1 DEF Loaded
  <2>5. current_frame_encoding' = Loaded' + InHand' + Len(tasks')
    BY <2>1, <2>2, <2>4, <1>0
  <2> QED
    BY <2>1, <2>3, <2>4, <2>5 DEF Lockstep
<1>5. CASE Dequeue
  <2>1. UNCHANGED <<encoded, src_surface, shots, enc, current_frame_encoding,
                    current_frame_display>>
        /\ sto = "dequeue"
    BY <1>5 DEF Dequeue, StorerUnchanged, encoderVars
  <2>2. CASE tasks = <<>>
    BY <1>5, <2>1, <2>2, <1>0 DEF Dequeue, Lockstep, Loaded, InHand
  <2>3. CASE tasks # <<>>
    <3>1. /\ sto' = "save" /\ task' = tasks[1] /\ Len(tasks) \in Nat \ {0}
          /\ Len(tasks') = Len(tasks) - 1
          /\ \A i \in 1..Len(tasks') : tasks'[i] = tasks[i + 1]
      <4>1. sto' = "save" /\ task' = Head(tasks) /\ tasks' = Tail(tasks)
        BY <1>5, <2>3 DEF Dequeue
      <4> QED
        BY <4>1, <2>3, TaskTaken
    <3>2. InHand = 0 /\ InHand' = 1 /\ Loaded' = Loaded
      BY <2>1, <3>1 DEF InHand, Loaded
    <3>3. task' = Loaded
      BY <3>1, <3>2, <1>0 DEF Lockstep
    <3>4. \A i \in 1..Len(tasks') : tasks'[i] = Loaded + 1 + i - 1
      <4>1. ASSUME NEW i \in 1..Len(tasks')
            PROVE  tasks'[i] = Loaded + 1 + i - 1
        <5>1. i + 1 \in 1..Len(tasks) /\ i \in Nat
          BY <3>1
        <5>2. tasks[i + 1] = Loaded + InHand + (i + 1) - 1
          BY <5>1 DEF Lockstep
        <5> QED
          BY <5>1, <5>2, <3>1, <3>2, <1>0
      <4> QED
        BY <4>1
    <3> QED
      BY <2>1, <3>1, <3>2, <3>3, <3>4, <1>0 DEF Lockstep
  <2> QED
    BY <2>2, <2>3
<1>6. CASE Load
  <2>1. /\ sto = "load" /\ sto' = "release" /\ shots' = shots + 1
        /\ src_surface' = [src_surface EXCEPT ![Slot(task)] = shots]
        /\ UNCHANGED <<encoded, enc, current_frame_encoding,
                       current_frame_display, tasks>>
    BY <1>6 DEF Load, StorerUnchanged, storerVars, encoderVars
  <2>2. InHand = 1 /\ InHand' = 0 /\ Loaded' = Loaded + 1 /\ task = Loaded
    BY <2>1, <1>0 DEF InHand, Loaded, Lockstep
  <2>3. ASSUME NEW s \in Slots
        PROVE  src_surface'[s] % SURFACE_NUM = s
                 /\ Loaded' <= src_surface'[s]
    <3>1. CASE s = Slot(task)
      <4>1. src_surface'[s] = shots
        BY <2>1, <3>1 DEF Typed, StorerTyped
      <4>2. shots % SURFACE_NUM = Loaded % SURFACE_NUM
        <5>1. shots = Loaded + SURFACE_NUM
          BY <1>0
        <5> QED
          BY <5>1, <1>0, ModPlus
      <4> QED
        BY <4>1, <4>2, <2>2, <3>1, <1>0 DEF Slot
    <3>2. CASE s # Slot(task)
      <4>1. src_surface'[s] = src_surface[s] /\ src_surface[s] \in Nat
        BY <2>1, <3>2 DEF Typed, StorerTyped
      <4>2. src_surface[s] % SURFACE_NUM = s /\ Loaded <= src_surface[s]
        BY DEF Lockstep
      <4>3. src_surface[s] # Loaded
        BY <4>2, <3>2, <2>2 DEF Slot
      <4> QED
        BY <4>1, <4>2, <4>3, <2>2, <1>0
    <3> QED
      BY <3>1, <3>2
  <2> QED
    BY <2>1, <2>2, <2>3, <1>0 DEF Lockstep
<1>7. CASE Join
  BY <1>7, <1>0
  DEF Join, Lockstep, Loaded, InHand, encoderVars, surfaces, storerVars
<1>8. CASE Wait \/ SpuriousWake \/ Save \/ Release
  BY <1>8, <1>0
  DEF Wait, SpuriousWake, Save, Release, StorerUnchanged, Lockstep, Loaded,
      InHand, encoderVars, storerVars
<1>9. CASE UNCHANGED vars
  BY <1>9
  DEF vars, encoderVars, surfaces, storerVars, Lockstep, Loaded, InHand
<1> QED
  BY <1>1, <1>2, <1>3, <1>4, <1>5, <1>6, <1>7, <1>8, <1>9
  DEF Next, Encoder, Storer, Stopped

LEMMA BooksImplyShots ==
  Typed /\ Fresh /\ (ip_period = 1 => Lockstep) => ShotsInOrder
<1> SUFFICES ASSUME Typed, Fresh, ip_period = 1 => Lockstep
             PROVE  ShotsInOrder
  OBVIOUS
<1>1. DOMAIN encoded = 1..Len(encoded) /\ Len(encoded) \in Nat
  BY LenProperties DEF Typed, EncoderTyped
<1> QED
  BY <1>1 DEF ShotsInOrder, Fresh, Lockstep

(* No screen shot is coded twice, for any number of slots and periods and  *)
(* any interleaving; without B pictures frame e has shot e, so the film    *)
(* runs forward.  The polling of the status is what makes it so. *)
THEOREM ShotsOrdered == Spec => []ShotsInOrder
<1> DEFINE Order == ip_period = 1 => Lockstep
<1>1. Init => Fresh /\ Tally /\ Order
  BY FreshInit, TallyInit, LockstepInit
<1>2. Typed /\ Owned /\ Fresh /\ Tally /\ Order /\ [Next]_vars
        => Fresh' /\ Tally' /\ Order'
  BY FreshStep, TallyStep, LockstepStep
<1>3. Typed /\ Fresh /\ Order => ShotsInOrder
  BY BooksImplyShots
<1> HIDE DEF Order
<1> QED
  BY AlwaysTyped, AlwaysOwned, <1>1, <1>2, <1>3, PTL DEF Spec

-----------------------------------------------------------------------------
(* The references.  Between two IDR pictures the pictures other than Bs    *)
(* are shown a fixed step apart, so the references are an arithmetic       *)
(* progression, and the picture that is encoded lies one step after the    *)
(* newest or, a B, less than a step before it. *)

RefStep == IF intra_period = 1 THEN 1 ELSE ip_period

(* How far the newest reference is ahead of the picture before e. *)
Lag(e) ==
  IF intra_period = 1 \/ (GopPlace(e) - 1) % ip_period = 0 THEN 0
  ELSE ip_period - ((GopPlace(e) - 1) % ip_period)

Encoding == enc \in {"slot", "render", "queue"}

Chosen ==
  Encoding =>
    /\ current_frame_display = DisplayOrder(current_frame_encoding)
    /\ current_frame_type = FrameType(current_frame_encoding)
    /\ current_frame_type = "IDR" => ReferenceFrames = <<>>

Held ==
  /\ \A j \in 1..Len(ReferenceFrames) :
       /\ ReferenceFrames[j].slot = Slot(ReferenceFrames[j].display)
       /\ ref_surface[ReferenceFrames[j].slot] = ReferenceFrames[j].display
  /\ enc = "queue" => ref_surface[current_slot] = current_frame_display

Spaced ==
  \A j \in 1..Len(ReferenceFrames) :
    ReferenceFrames[j].display = ReferenceFrames[1].display
                                   - (j - 1) * RefStep

Newest ==
  /\ ReferenceFrames # <<>>
  /\ Encoding \/ intra_period = 1 \/ GopPlace(current_frame_encoding) # 0
  => ReferenceFrames[1].display
       = current_frame_encoding - 1 + Lag(current_frame_encoding)

Referenced == Chosen /\ Held /\ Spaced /\ Newest

LEMMA RefStepTyped == RefStep \in Nat \ {0} /\ RefStep <= ip_period
BY PeriodsAssumption DEF RefStep

(* The three kinds of picture. *)
LEMMA KindsOfPicture ==
  ASSUME NEW e \in Nat
  PROVE  \/ FrameType(e) = "IDR" /\ DisplayOrder(e) = e
              /\ (intra_period = 1 \/ GopPlace(e) = 0)
         \/ /\ FrameType(e) = "B" /\ DisplayOrder(e) = e - 1
            /\ intra_period # 1 /\ GopPlace(e) # 0
            /\ (GopPlace(e) - 1) % ip_period # 0
         \/ /\ FrameType(e) \in {"I", "P"}
            /\ DisplayOrder(e) = e - 1 + RefStep
            /\ intra_period = 1 \/ (/\ GopPlace(e) # 0
                                    /\ (GopPlace(e) - 1) % ip_period = 0)
<1>1. CASE intra_period = 1
  <2>1. DisplayOrder(e) = e /\ RefStep = 1 /\ FrameType(e) \in {"IDR", "I"}
    BY <1>1 DEF DisplayOrder, RefStep, FrameType
  <2> QED
    BY <1>1, <2>1
<1>2. CASE intra_period # 1 /\ GopPlace(e) = 0
  <2>0. ~IsB(e)
    BY <1>2 DEF IsB
  <2>1. DisplayOrder(e) = e
    BY <1>2, <2>0 DEF DisplayOrder
  <2>2. FrameType(e) = "IDR"
    BY <1>2, <2>0 DEF FrameType
  <2> QED
    BY <1>2, <2>1, <2>2
<1>3. CASE intra_period # 1 /\ GopPlace(e) # 0 /\ IsB(e)
  <2>1. DisplayOrder(e) = e - 1
    BY <1>3 DEF DisplayOrder
  <2>2. FrameType(e) = "B"
    BY <1>3 DEF FrameType
  <2> QED
    BY <1>3, <2>1, <2>2 DEF IsB
<1>4. CASE intra_period # 1 /\ GopPlace(e) # 0 /\ ~IsB(e)
  <2>1. DisplayOrder(e) = e - 1 + RefStep
    BY <1>4, PeriodsAssumption DEF DisplayOrder, RefStep
  <2>2. FrameType(e) \in {"I", "P"}
    BY <1>4 DEF FrameType
  <2> QED
    BY <1>4, <2>1, <2>2 DEF IsB
<1> QED
  BY <1>1, <1>2, <1>3, <1>4

LEMMA GopPlaceSucc ==
  ASSUME NEW e \in Nat PROVE GopPlace(e + 1) \in {0, GopPlace(e) + 1}
<1> DEFINE group == IdrPeriod + IF ip_period = 1 THEN 0 ELSE 1
<1>1. IdrPeriod \in Nat
  BY PeriodsAssumption DEF IdrPeriod
<1>2. CASE IdrPeriod = 0
  BY <1>2 DEF GopPlace
<1>3. CASE IdrPeriod # 0
  <2>1. group \in Nat \ {0}
    BY <1>1, <1>3
  <2>2. GopPlace(e) = e % group /\ GopPlace(e + 1) = (e + 1) % group
    BY <1>3 DEF GopPlace
  <2> HIDE DEF group
  <2> QED
    BY <2>1, <2>2, ModSucc
<1> QED
  BY <1>2, <1>3

LEMMA LagTyped == ASSUME NEW e \in Nat PROVE Lag(e) \in Int
<1>1. GopPlace(e) - 1 \in Int /\ ip_period \in Nat \ {0}
  BY GopPlaceTyped, PeriodsAssumption
<1> QED
  BY <1>1 DEF Lag

(* From one picture to the next one, unless that starts a group.  *)
LEMMA LagSucc ==
  ASSUME NEW e \in Nat, intra_period = 1 \/ GopPlace(e + 1) # 0
  PROVE  /\ FrameType(e) # "B" => DisplayOrder(e) = e + Lag(e + 1)
         /\ FrameType(e) = "B" => Lag(e) = 1 + Lag(e + 1)
<1> DEFINE g == GopPlace(e)
           n == ip_period
<1>1. CASE intra_period = 1
  <2>1. Lag(e + 1) = 0 /\ RefStep = 1
    BY <1>1 DEF Lag, RefStep
  <2> QED
    BY <1>1, <2>1, KindsOfPicture
<1>2. CASE intra_period # 1
  <2>1. /\ g \in Nat /\ GopPlace(e + 1) = g + 1 /\ n \in Nat \ {0}
        /\ RefStep = n
    BY <1>2, GopPlaceTyped, GopPlaceSucc, PeriodsAssumption DEF RefStep
  <2>2. Lag(e + 1) = IF g % n = 0 THEN 0 ELSE n - (g % n)
    <3>1. GopPlace(e + 1) - 1 = g
      BY <2>1
    <3> HIDE DEF g
    <3> QED
      BY <3>1, <1>2 DEF Lag
  <2>3. CASE g = 0
    <3>1. FrameType(e) = "IDR" /\ DisplayOrder(e) = e
      BY <2>3, <1>2, KindsOfPicture
    <3>2. 0 % n = 0
      BY <2>1, ModSmall
    <3> QED
      BY <2>2, <2>3, <3>1, <3>2
  <2>4. CASE g # 0
    <3> DEFINE r == (g - 1) % n
    <3>0. g - 1 \in Nat
      BY <2>1, <2>4
    <3>1. g - 1 \in Nat /\ r \in 0..n - 1
      <4> HIDE DEF g
      <4> QED
        BY <2>1, <3>0, DivMod
    <3>2. g % n = IF r + 1 = n THEN 0 ELSE r + 1
      <4> DEFINE a == g - 1
      <4>1. a + 1 = g
        BY <2>1
      <4>2. a \in Nat
        BY <3>1
      <4> HIDE DEF a
      <4>3. (a + 1) % n = IF (a % n) + 1 = n THEN 0 ELSE (a % n) + 1
        BY <4>2, <2>1, ModSucc
      <4> HIDE DEF g, n
      <4>4. g % n = IF (a % n) + 1 = n THEN 0 ELSE (a % n) + 1
        BY <4>1, <4>3
      <4> QED
        BY <4>4 DEF a
    <3>3. Lag(e + 1) = n - 1 - r
      BY <2>1, <2>2, <3>1, <3>2
    <3>4. FrameType(e) # "B" => r = 0 /\ DisplayOrder(e) = e - 1 + n
      BY <1>2, <2>1, <2>4, KindsOfPicture
    <3>5. FrameType(e) = "B" => Lag(e) = n - r
      BY <1>2, <2>4, KindsOfPicture DEF Lag
    <3> HIDE DEF r
    <3> QED
      BY <2>1, <3>1, <3>3, <3>4, <3>5
  <2> QED
    BY <2>3, <2>4
<1> QED
  BY <1>1, <1>2

LEMMA StepsFit ==
  ASSUME NEW j \in 1..num_ref_frames
  PROVE  /\ (j - 1) * RefStep \in Nat
         /\ (j - 1) * RefStep + RefStep < SURFACE_NUM
         /\ j # 1 => (j - 1) * RefStep >= RefStep
<1>1. /\ j \in Nat \ {0} /\ num_ref_frames \in Nat /\ j <= num_ref_frames
      /\ ip_period \in Nat \ {0} /\ SURFACE_NUM \in Nat
      /\ RefStep \in Nat \ {0} /\ RefStep <= ip_period
  BY EncoderAssumption, PeriodsAssumption, RefStepTyped
<1>2. \A a, b, c \in Nat : a <= b => a * c <= b * c /\ c * a <= c * b
  OBVIOUS
<1>3. j * RefStep <= num_ref_frames * RefStep
  BY <1>1, <1>2
<1>4. num_ref_frames * RefStep <= num_ref_frames * ip_period
  BY <1>1, <1>2
<1>5. num_ref_frames * ip_period < SURFACE_NUM
  BY ReferencesFit
<1>6. (j - 1) * RefStep = j * RefStep - RefStep
  BY <1>1
<1>7. /\ num_ref_frames * RefStep \in Nat /\ j * RefStep \in Nat
      /\ num_ref_frames * ip_period \in Nat
  BY <1>1
<1>8. (j - 1) * RefStep \in Nat
  BY <1>1
<1>9. ASSUME j # 1 PROVE (j - 1) * RefStep >= RefStep
  BY <1>1, <1>9
<1> QED
  BY <1>1, <1>3, <1>4, <1>5, <1>6, <1>7, <1>8, <1>9

LEMMA ReferencesTypes ==
  ASSUME Typed
  PROVE  /\ Len(ReferenceFrames) \in 0..num_ref_frames
         /\ \A j \in 1..Len(ReferenceFrames) :
              /\ ReferenceFrames[j].display \in Nat
              /\ ReferenceFrames[j].slot \in Slots
         /\ current_frame_display \in Nat /\ current_frame_encoding \in Nat
         /\ ReferenceFrames # <<>> => 1 \in 1..Len(ReferenceFrames)
<1> DEFINE Refs == [slot : Slots, display : Displays]
<1>1. ReferenceFrames \in Seq(Refs) /\ Len(ReferenceFrames) <= num_ref_frames
  BY DEF Typed, EncoderTyped
<1>2. \A j \in 1..Len(ReferenceFrames) : ReferenceFrames[j] \in Refs
  BY <1>1, ElementOfSeq
<1>3. Len(ReferenceFrames) \in Nat
        /\ (ReferenceFrames # <<>> => Len(ReferenceFrames) # 0)
  BY <1>1, EmptySeq
<1>4. \A j \in 1..Len(ReferenceFrames) :
        ReferenceFrames[j].display \in Nat /\ ReferenceFrames[j].slot \in Slots
  BY <1>2, DisplaysNat
<1>5. current_frame_display \in Nat /\ current_frame_encoding \in Nat
  BY DisplaysNat, EncoderAssumption DEF Typed, EncoderTyped
<1>6. Len(ReferenceFrames) \in 0..num_ref_frames
  BY <1>1, <1>3, EncoderAssumption
<1>7. ReferenceFrames # <<>> => 1 \in 1..Len(ReferenceFrames)
  BY <1>3
<1> QED
  BY <1>4, <1>5, <1>6, <1>7

(* The slot of the picture that is encoded is none of its references'. *)
LEMMA ReferencesElsewhere ==
  ASSUME Typed, Referenced, Encoding,
         NEW j \in 1..Len(ReferenceFrames)
  PROVE  Slot(ReferenceFrames[j].display) # current_slot
<1> DEFINE e == current_frame_encoding
           ref == ReferenceFrames[j].display
           back == (j - 1) * RefStep
           n == SURFACE_NUM
           d == current_frame_display
<1>1. /\ ref \in Nat /\ d \in Nat /\ e \in Nat /\ n \in Nat \ {0}
      /\ RefStep \in Nat \ {0} /\ ip_period \in Nat \ {0}
      /\ RefStep <= ip_period
  BY ReferencesTypes, RefStepTyped, EncoderAssumption, PeriodsAssumption
<1>2. ref = e - 1 + Lag(e) - back
  <2>1. ReferenceFrames # <<>>
    BY LenProperties DEF Typed, EncoderTyped
  <2>2. ReferenceFrames[1].display = e - 1 + Lag(e)
    BY <2>1 DEF Referenced, Newest
  <2>3. ref = ReferenceFrames[1].display - back
    BY DEF Referenced, Spaced
  <2>4. /\ ReferenceFrames[1].display \in Nat /\ Lag(e) \in Int
        /\ back \in Int
    BY <2>1, <1>1, ReferencesTypes, LagTyped
  <2> QED
    BY <2>2, <2>3, <2>4, <1>1
<1>3. /\ back \in Nat /\ back + RefStep < n
      /\ j # 1 => back >= RefStep
      /\ j = 1 => back = 0
  <2>1. j \in 1..num_ref_frames
    BY ReferencesTypes, EncoderAssumption
  <2>2. j = 1 => back = 0
    BY RefStepTyped
  <2> QED
    BY <2>1, <2>2, StepsFit
<1>4. /\ d = DisplayOrder(e) /\ FrameType(e) # "IDR"
  BY LenProperties DEF Referenced, Chosen, Typed, EncoderTyped
<1> HIDE DEF back, ref, e, d, n
<1>5. CASE FrameType(e) = "B"
  <2> DEFINE r == (GopPlace(e) - 1) % ip_period
  <2>0. d = e - 1 /\ intra_period # 1 /\ GopPlace(e) # 0 /\ r # 0
    BY <1>1, <1>4, <1>5, KindsOfPicture
  <2>1. RefStep = ip_period /\ Lag(e) = ip_period - r
        /\ GopPlace(e) - 1 \in Nat
    <3>1. RefStep = ip_period /\ Lag(e) = ip_period - r
      BY <2>0 DEF Lag, RefStep
    <3>2. GopPlace(e) \in Nat
      BY <1>1, GopPlaceTyped
    <3>3. GopPlace(e) - 1 \in Nat
      BY <2>0, <3>2
    <3> QED
      BY <3>1, <3>3
  <2>2. r \in 0..ip_period - 1
    <3> DEFINE g == GopPlace(e) - 1
    <3> HIDE DEF g
    <3>1. g \in Nat => g % ip_period \in 0..ip_period - 1
      BY <1>1, DivMod
    <3> QED
      BY <2>1, <3>1 DEF g
  <2> HIDE DEF r
  <2>3. d - ref = back - ip_period + r
    BY <1>1, <1>2, <1>3, <2>0, <2>1, <2>2
  <2>4. ref % n # d % n
    <3>1. CASE j = 1
      <4>1. d < ref /\ ref - d < n
        BY <1>1, <1>3, <2>0, <2>1, <2>2, <2>3, <3>1
      <4> QED
        BY <4>1, <1>1, ModApart
    <3>2. CASE j # 1
      <4>1. ref < d /\ d - ref < n
        BY <1>1, <1>3, <2>0, <2>1, <2>2, <2>3, <3>2
      <4> QED
        BY <4>1, <1>1, ModApart
    <3> QED
      BY <3>1, <3>2
  <2> QED
    BY <2>4 DEF Slot, current_slot, d, ref, n
<1>6. CASE FrameType(e) # "B"
  <2>1. d = e - 1 + RefStep /\ Lag(e) = 0
    BY <1>1, <1>4, <1>6, KindsOfPicture DEF Lag
  <2>2. d - ref = back + RefStep
    BY <1>1, <1>2, <1>3, <2>1
  <2>3. ref < d /\ d - ref < n
    BY <1>1, <1>3, <2>2
  <2>4. ref % n # d % n
    BY <1>1, <2>3, ModApart
  <2> QED
    BY <2>4 DEF Slot, current_slot, d, ref, n
<1> QED
  BY <1>5, <1>6

LEMMA ReferencedInit == Init => Referenced
BY EmptySeq DEF Init, Referenced, Chosen, Held, Spaced, Newest, Encoding

(* What update_ReferenceFrames leaves. *)
LEMMA ReferencesUpdated ==
  ASSUME Typed, update_ReferenceFrames, current_frame_type # "B"
  PROVE  /\ Len(ReferenceFrames') \in 1..Len(ReferenceFrames) + 1
         /\ ReferenceFrames'[1] = [slot |-> current_slot,
                                   display |-> current_frame_display]
         /\ \A j \in 2..Len(ReferenceFrames') :
              /\ ReferenceFrames'[j] = ReferenceFrames[j - 1]
              /\ j - 1 \in 1..Len(ReferenceFrames)
<1> DEFINE Refs == [slot : Slots, display : Displays]
           newest == [slot |-> current_slot, display |-> current_frame_display]
           all == <<newest>> \o ReferenceFrames
           n == num_ref_frames
<1>1. ReferenceFrames \in Seq(Refs) /\ n \in Nat \ {0}
  BY EncoderAssumption DEF Typed, EncoderTyped
<1>2. newest \in Refs
  BY SlotsTyped DEF Typed, EncoderTyped
<1>3. ReferenceFrames' = IF Len(all) > n THEN SubSeq(all, 1, n) ELSE all
  BY DEF update_ReferenceFrames
<1> HIDE DEF newest, Refs, n
<1>4. /\ Len(ReferenceFrames) \in Nat
      /\ all \in Seq(Refs) /\ Len(all) = Len(ReferenceFrames) + 1
      /\ all[1] = newest
      /\ \A j \in 2..Len(all) : all[j] = ReferenceFrames[j - 1]
  <2>1. <<newest>> \in Seq(Refs) /\ Len(<<newest>>) = 1
        /\ <<newest>>[1] = newest
    BY <1>2
  <2> QED
    BY <1>1, <2>1, ConcatProperties
<1> HIDE DEF all
<1>5. CASE Len(all) > n
  <2>1. \A i \in 1..n : all[i] \in Refs
    BY <1>1, <1>4, <1>5, ElementOfSeq
  <2>2. Len(ReferenceFrames') = n
        /\ \A i \in 1..n : ReferenceFrames'[i] = all[i]
    BY <2>1, <1>1, <1>3, <1>5, SubSeqProperties
  <2> QED
    BY <2>2, <1>1, <1>4, <1>5 DEF newest
<1>6. CASE ~(Len(all) > n)
  BY <1>3, <1>4, <1>6 DEF newest
<1> QED
  BY <1>5, <1>6

LEMMA ReferencedStep == Typed /\ Referenced /\ [Next]_vars => Referenced'
<1> SUFFICES ASSUME Typed, Referenced, [Next]_vars PROVE Referenced'
  OBVIOUS
<1>0. Chosen /\ Held /\ Spaced /\ Newest
  BY DEF Referenced
<1>1. CASE BeginFrame
  <2>1. /\ enc = "begin" /\ enc' = "slot"
        /\ current_frame_display' = DisplayOrder(current_frame_encoding)
        /\ current_frame_type' = FrameType(current_frame_encoding)
        /\ UNCHANGED <<current_frame_encoding, ref_surface>>
    BY <1>1 DEF BeginFrame, surfaces
  <2>2. CASE current_frame_type' = "IDR"
    <3>1. ReferenceFrames' = <<>> /\ Len(ReferenceFrames') = 0
      BY <1>1, <2>2 DEF BeginFrame
    <3> QED
      BY <2>1, <3>1
      DEF Referenced, Chosen, Held, Spaced, Newest, Encoding
  <2>3. CASE current_frame_type' # "IDR"
    <3>1. ReferenceFrames' = ReferenceFrames
      BY <1>1, <2>3 DEF BeginFrame
    <3>2. intra_period = 1 \/ GopPlace(current_frame_encoding) # 0
      BY <2>1, <2>3, ReferencesTypes, KindsOfPicture DEF FrameType, IsB
    <3> QED
      BY <2>1, <2>3, <3>1, <3>2, <1>0
      DEF Referenced, Chosen, Held, Spaced, Newest, Encoding
  <2> QED
    BY <2>2, <2>3
<1>2. CASE RenderPicture
  <2>1. /\ enc = "render" /\ enc' = "queue"
        /\ ref_surface' = [ref_surface EXCEPT
                             ![current_slot] = current_frame_display]
        /\ UNCHANGED <<current_frame_encoding, current_frame_display,
                       current_frame_type, ReferenceFrames, current_slot>>
    BY <1>2 DEF RenderPicture, encoderVars, current_slot
  <2>2. \A j \in 1..Len(ReferenceFrames) :
          ReferenceFrames[j].slot # current_slot
    BY <2>1, <1>0, ReferencesElsewhere DEF Held, Encoding
  <2>3. Held'
    BY <2>1, <2>2, <1>0, SlotsTyped, ReferencesTypes
    DEF Held, Typed, EncoderTyped
  <2> QED
    BY <2>1, <2>3, <1>0 DEF Referenced, Chosen, Spaced, Newest, Encoding
<1>3. CASE QueueFrame
  <2> DEFINE e == current_frame_encoding
  <2>1. /\ enc = "queue" /\ enc' = "begin" /\ update_ReferenceFrames
        /\ current_frame_encoding' = e + 1 /\ ref_surface' = ref_surface
        /\ e \in Nat
    BY <1>3, ReferencesTypes DEF QueueFrame, surfaces
  <2>2. /\ current_frame_display = DisplayOrder(e)
        /\ current_frame_type = FrameType(e)
    BY <2>1, <1>0 DEF Chosen, Encoding
  <2>3. Chosen'
    BY <2>1 DEF Chosen, Encoding
  <2>4. CASE current_frame_type = "B"
    <3>1. ReferenceFrames' = ReferenceFrames
      BY <2>1, <2>4 DEF update_ReferenceFrames
    <3>2. Newest'
      <4> SUFFICES ASSUME ReferenceFrames # <<>>,
                          intra_period = 1 \/ GopPlace(e + 1) # 0
                   PROVE  ReferenceFrames[1].display = (e + 1) - 1 + Lag(e + 1)
        BY <2>1, <3>1 DEF Newest, Encoding
      <4>1. ReferenceFrames[1].display = e - 1 + Lag(e)
        BY <2>1, <1>0 DEF Newest, Encoding
      <4>2. Lag(e) = 1 + Lag(e + 1)
        BY <2>1, <2>2, <2>4, LagSucc
      <4>3. ReferenceFrames[1].display \in Nat
        BY ReferencesTypes
      <4>4. Lag(e + 1) \in Int
        BY <2>1, LagTyped
      <4> QED
        BY <4>1, <4>2, <4>3, <4>4, <2>1
    <3> QED
      BY <2>1, <2>3, <3>1, <3>2, <1>0 DEF Referenced, Held, Spaced
  <2>5. CASE current_frame_type # "B"
    <3>1. /\ Len(ReferenceFrames') \in Nat \ {0}
          /\ ReferenceFrames'[1].slot = current_slot
          /\ ReferenceFrames'[1].display = current_frame_display
          /\ \A j \in 2..Len(ReferenceFrames') :
               /\ ReferenceFrames'[j] = ReferenceFrames[j - 1]
               /\ j - 1 \in 1..Len(ReferenceFrames)
      BY <2>1, <2>5, ReferencesUpdated, ReferencesTypes
    <3>2. Held'
      BY <2>1, <3>1, <1>0 DEF Held, current_slot
    <3>3. Newest'
      <4> SUFFICES ASSUME intra_period = 1 \/ GopPlace(e + 1) # 0
                   PROVE  current_frame_display = (e + 1) - 1 + Lag(e + 1)
        BY <2>1, <3>1 DEF Newest, Encoding
      <4>1. current_frame_display = e + Lag(e + 1)
        BY <2>1, <2>2, <2>5, LagSucc
      <4> QED
        BY <4>1, <2>1
    <3>4. Spaced'
      <4> SUFFICES ASSUME NEW j \in 1..Len(ReferenceFrames')
                   PROVE  ReferenceFrames'[j].display
                            = current_frame_display - (j - 1) * RefStep
        BY <3>1 DEF Spaced
      <4>1. CASE j = 1
        BY <3>1, <4>1, ReferencesTypes, RefStepTyped
      <4>2. CASE j # 1
        <5> DEFINE i == j - 1
        <5>1. i \in 1..Len(ReferenceFrames) /\ j - 1 = i
              /\ ReferenceFrames'[j] = ReferenceFrames[i]
          BY <3>1, <4>2
        <5>2. ReferenceFrames # <<>> /\ FrameType(e) # "IDR"
          BY <2>1, <2>2, <5>1, <1>0 DEF Chosen, Encoding
        <5>3. current_frame_display = ReferenceFrames[1].display + RefStep
          <6>1. ReferenceFrames[1].display = e - 1 + Lag(e)
            BY <2>1, <5>2, <1>0 DEF Newest, Encoding
          <6>2. DisplayOrder(e) = e - 1 + RefStep /\ Lag(e) = 0
            BY <2>1, <2>2, <2>5, <5>2, KindsOfPicture DEF Lag
          <6> QED
            BY <6>1, <6>2, <2>1, <2>2, RefStepTyped
        <5>4. ReferenceFrames[i].display
                = ReferenceFrames[1].display - (i - 1) * RefStep
          BY <5>1, <1>0 DEF Spaced
        <5>5. ReferenceFrames[1].display \in Nat /\ i \in Nat
          BY <5>1, <5>2, ReferencesTypes
        <5>6. (i - 1) * RefStep = i * RefStep - RefStep
                /\ i * RefStep \in Nat
          BY <5>5, RefStepTyped
        <5> HIDE DEF i
        <5> QED
          BY <5>1, <5>3, <5>4, <5>5, <5>6, RefStepTyped
      <4> QED
        BY <4>1, <4>2
    <3> QED
      BY <2>3, <3>2, <3>3, <3>4 DEF Referenced
  <2> QED
    BY <2>4, <2>5
<1>4. CASE SlotReady \/ Join
  BY <1>4, <1>0
  DEF SlotReady, Join, Referenced, Chosen, Held, Spaced, Newest, Encoding,
      encoderVars, surfaces, current_slot
<1>5. CASE Storer \/ SpuriousWake
  BY <1>5, <1>0
  DEF Storer, Dequeue, Wait, SpuriousWake, Save, Load, Release,
      StorerUnchanged, Referenced, Chosen, Held, Spaced, Newest, Encoding,
      encoderVars, current_slot
<1>6. CASE UNCHANGED vars
  BY <1>6, <1>0
  DEF vars, encoderVars, surfaces, Referenced, Chosen, Held, Spaced, Newest,
      Encoding, current_slot
<1> QED
  BY <1>1, <1>2, <1>3, <1>4, <1>5, <1>6 DEF Next, Encoder, Stopped

LEMMA ReferencedImpliesIntact == Typed /\ Referenced => ReferencesIntact
<1> SUFFICES ASSUME Typed, Referenced, enc = "render"
             PROVE  \A i \in DOMAIN ReferenceFrames :
                      /\ ref_surface[ReferenceFrames[i].slot]
                           = ReferenceFrames[i].display
                      /\ ReferenceFrames[i].slot # current_slot
  BY DEF ReferencesIntact
<1>1. DOMAIN ReferenceFrames = 1..Len(ReferenceFrames)
  BY LenProperties DEF Typed, EncoderTyped
<1> QED
  BY <1>1, ReferencesElsewhere DEF Referenced, Held, Encoding

(* What the driver is told to predict from is there and is not overwritten *)
(* by the prediction, for every period of I, IDR and P pictures and every  *)
(* number of references that fits into the slots. *)
THEOREM ReferencesKept == Spec => []ReferencesIntact
<1>1. Typed /\ Referenced /\ [Next]_vars => Referenced'
  BY ReferencedStep
<1> QED
  BY AlwaysTyped, ReferencedInit, <1>1, ReferencedImpliesIntact, PTL DEF Spec
=============================================================================
