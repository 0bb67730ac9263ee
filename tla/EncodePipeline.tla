--------------------------- MODULE EncodePipeline ---------------------------
(***************************************************************************)
(* encode_frames and storage_task_thread of                                *)
(* src/hwEncode/testDemo/encodeTest.c.  The encoder hands every picture to *)
(* the driver; the storer waits for it, writes the coded data to the file  *)
(* and loads the next screen shot into the source surface.  They share     *)
(* SURFACE_NUM slots, each with a source surface, a reference surface, a   *)
(* coded buffer and a status, and a list of tasks.  encode_syncmode is 0.  *)
(*                                                                         *)
(* A section under encode_mutex is one step.  A VA call that fails exits   *)
(* the process and is left out; so are the parameters of a picture.        *)
(*                                                                         *)
(* A definition without a comment, just before the one it resembles, is a  *)
(* plausible bug of that one; no specification uses it.                    *)
(***************************************************************************)
EXTENDS GopOrder, Sequences, SequencesExt

CONSTANTS SURFACE_NUM, frame_count, num_ref_frames, MaxFrameNum

ASSUME EncoderAssumption ==
  /\ SURFACE_NUM \in Nat \ {0}
  /\ frame_count \in Nat \ {0}
  /\ num_ref_frames \in Nat \ {0}
  /\ MaxFrameNum \in Nat

(* 2 times 1 and 16 in the source. *)
ASSUME ReferencesFit == num_ref_frames * ip_period < SURFACE_NUM

VARIABLES
  enc, sto,              \* the places of the encoder and of the storer
  current_frame_encoding,
  current_frame_display, current_frame_type, current_frame_num,
  ReferenceFrames,       \* the numShortTerm short-term references, newest
                         \* first: slot and display order of each
  src_surface,           \* slot -> the number of the screen shot it holds
  ref_surface,           \* slot -> the display order of its last picture
  coded_buf,             \* slot -> display order and shot of its coded data
  srcsurface_status,
  tasks,                 \* display orders from storage_task_header on
  task,                  \* the task that the storer works on
  frame_coded,
  shots,                 \* the number of calls of XGetImage
  coded_fp,              \* what was written to the file
  encoded                \* what was given to the driver, in this order

encoderVars == <<current_frame_encoding, current_frame_display,
                 current_frame_type, current_frame_num, ReferenceFrames>>
surfaces == <<src_surface, shots, ref_surface, coded_buf>>
storerVars == <<task, frame_coded, coded_fp>>
vars == <<enc, sto, encoderVars, surfaces, srcsurface_status, tasks,
          storerVars, encoded>>

Slots == 0..SURFACE_NUM - 1
Slot(display) == display % SURFACE_NUM
current_slot == Slot(current_frame_display)

NoPicture == [display |-> -1, shot |-> -1]

(* All the surfaces are loaded before the storer is created. *)
Init ==
  /\ enc = "begin" /\ sto = "dequeue"
  /\ current_frame_encoding = 0
  /\ current_frame_display = 0 /\ current_frame_type = "P"
  /\ current_frame_num = 0
  /\ ReferenceFrames = <<>>
  /\ src_surface = [s \in Slots |-> s]
  /\ shots = SURFACE_NUM
  /\ ref_surface = [s \in Slots |-> -1]
  /\ coded_buf = [s \in Slots |-> NoPicture]
  /\ srcsurface_status = [s \in Slots |-> "IN_ENCODING"]
  /\ tasks = <<>>
  /\ task = 0
  /\ frame_coded = 0
  /\ coded_fp = <<>> /\ encoded = <<>>

-----------------------------------------------------------------------------
(* encode_frames *)

BeginFrameOnePast ==
  /\ enc = "begin"
  /\ current_frame_encoding <= frame_count
  /\ enc' = "slot"
  /\ current_frame_display' = DisplayOrder(current_frame_encoding)
  /\ current_frame_type' = FrameType(current_frame_encoding)
  /\ UNCHANGED <<sto, current_frame_encoding, current_frame_num,
                 ReferenceFrames, surfaces, srcsurface_status, tasks,
                 storerVars, encoded>>

(* The next picture of the loop; an IDR picture clears the references.     *)
BeginFrame ==
  /\ enc = "begin"
  /\ current_frame_encoding < frame_count
  /\ enc' = "slot"
  /\ current_frame_display' = DisplayOrder(current_frame_encoding)
  /\ current_frame_type' = FrameType(current_frame_encoding)
  /\ IF current_frame_type' = "IDR"
       THEN current_frame_num' = 0 /\ ReferenceFrames' = <<>>
       ELSE UNCHANGED <<current_frame_num, ReferenceFrames>>
  /\ UNCHANGED <<sto, current_frame_encoding, surfaces, srcsurface_status,
                 tasks, storerVars, encoded>>

SlotReadyUnchecked ==
  /\ enc = "slot" /\ enc' = "render"
  /\ UNCHANGED <<sto, encoderVars, surfaces, srcsurface_status, tasks,
                 storerVars, encoded>>

(* The status is polled without encode_mutex. *)
SlotReady ==
  /\ enc = "slot"
  /\ srcsurface_status[current_slot] = "IN_ENCODING"
  /\ enc' = "render"
  /\ UNCHANGED <<sto, encoderVars, surfaces, srcsurface_status, tasks,
                 storerVars, encoded>>

(* vaBeginPicture to vaEndPicture: the source surface of the slot is       *)
(* encoded into its coded buffer and reconstructed in its reference        *)
(* surface. *)
RenderPicture ==
  /\ enc = "render" /\ enc' = "queue"
  /\ LET picture == [display |-> current_frame_display,
                     shot |-> src_surface[current_slot]]
     IN /\ coded_buf' = [coded_buf EXCEPT ![current_slot] = picture]
        /\ encoded' = Append(encoded, picture)
  /\ ref_surface' = [ref_surface EXCEPT
                       ![current_slot] = current_frame_display]
  /\ UNCHANGED <<sto, encoderVars, src_surface, shots, srcsurface_status,
                 tasks, storerVars>>

QueueAtHead(display) ==
  /\ tasks' = <<display>> \o tasks
  /\ srcsurface_status' = [srcsurface_status EXCEPT
                             ![Slot(display)] = "IN_STORAGE"]
  /\ sto' = IF sto = "asleep" THEN "dequeue" ELSE sto

(* The task is appended, its slot marked, and the storer signalled. *)
storage_task_queue(display) ==
  /\ tasks' = Append(tasks, display)
  /\ srcsurface_status' = [srcsurface_status EXCEPT
                             ![Slot(display)] = "IN_STORAGE"]
  /\ sto' = IF sto = "asleep" THEN "dequeue" ELSE sto

UpdateReferencesUncapped ==
  IF current_frame_type = "B"
  THEN UNCHANGED <<ReferenceFrames, current_frame_num>>
  ELSE /\ ReferenceFrames' =
            <<[slot |-> current_slot, display |-> current_frame_display]>>
              \o ReferenceFrames
       /\ current_frame_num' = IF current_frame_num + 1 > MaxFrameNum
                                 THEN 0 ELSE current_frame_num + 1

(* A picture other than a B becomes the first of at most num_ref_frames.   *)
update_ReferenceFrames ==
  IF current_frame_type = "B"
  THEN UNCHANGED <<ReferenceFrames, current_frame_num>>
  ELSE LET newest == [slot |-> current_slot,
                      display |-> current_frame_display]
           all == <<newest>> \o ReferenceFrames
       IN /\ ReferenceFrames' = IF Len(all) > num_ref_frames
                                  THEN SubSeq(all, 1, num_ref_frames) ELSE all
          /\ current_frame_num' = IF current_frame_num + 1 > MaxFrameNum
                                    THEN 0 ELSE current_frame_num + 1

QueueFrame ==
  /\ enc = "queue" /\ enc' = "begin"
  /\ storage_task_queue(current_frame_display)
  /\ update_ReferenceFrames
  /\ current_frame_encoding' = current_frame_encoding + 1
  /\ UNCHANGED <<current_frame_display, current_frame_type, surfaces,
                 storerVars, encoded>>

(* pthread_join: encode_frames returns. *)
Join ==
  /\ enc = "begin"
  /\ current_frame_encoding = frame_count
  /\ sto = "exited"
  /\ enc' = "done"
  /\ UNCHANGED <<sto, encoderVars, surfaces, srcsurface_status, tasks,
                 storerVars, encoded>>

Encoder == BeginFrame \/ SlotReady \/ RenderPicture \/ QueueFrame \/ Join

-----------------------------------------------------------------------------
(* storage_task_thread *)

StorerUnchanged == UNCHANGED <<enc, encoderVars, ref_surface, coded_buf,
                               encoded>>

(* storage_task_dequeue: the first task, or NULL. *)
Dequeue ==
  /\ sto = "dequeue"
  /\ IF tasks = <<>>
       THEN sto' = "wait" /\ UNCHANGED <<tasks, task>>
       ELSE sto' = "save" /\ task' = Head(tasks) /\ tasks' = Tail(tasks)
  /\ UNCHANGED <<src_surface, shots, srcsurface_status, frame_coded,
                 coded_fp>>
  /\ StorerUnchanged

(* pthread_cond_wait, whatever was queued since storage_task_dequeue. *)
Wait ==
  /\ sto = "wait" /\ sto' = "asleep"
  /\ UNCHANGED <<tasks, src_surface, shots, srcsurface_status, storerVars>>
  /\ StorerUnchanged

SpuriousWake ==
  /\ sto = "asleep" /\ sto' = "dequeue"
  /\ UNCHANGED <<tasks, src_surface, shots, srcsurface_status, storerVars>>
  /\ StorerUnchanged

(* vaSyncSurface and save_codeddata. *)
Save ==
  /\ sto = "save" /\ sto' = "load"
  /\ coded_fp' = Append(coded_fp, coded_buf[Slot(task)])
  /\ UNCHANGED <<tasks, src_surface, shots, srcsurface_status, task,
                 frame_coded>>
  /\ StorerUnchanged

LoadSkipped ==
  /\ sto = "load" /\ sto' = "release"
  /\ UNCHANGED <<tasks, src_surface, shots, srcsurface_status, storerVars>>
  /\ StorerUnchanged

(* load_surface takes the next screen shot into the source surface. *)
Load ==
  /\ sto = "load" /\ sto' = "release"
  /\ src_surface' = [src_surface EXCEPT ![Slot(task)] = shots]
  /\ shots' = shots + 1
  /\ UNCHANGED <<tasks, srcsurface_status, storerVars>>
  /\ StorerUnchanged

ReleaseExitsLate ==
  /\ sto = "release"
  /\ srcsurface_status' = [srcsurface_status EXCEPT
                             ![Slot(task)] = "IN_ENCODING"]
  /\ frame_coded' = frame_coded + 1
  /\ sto' = IF frame_coded' > frame_count THEN "exited" ELSE "dequeue"
  /\ UNCHANGED <<tasks, src_surface, shots, task, coded_fp>>
  /\ StorerUnchanged

(* The slot goes back to the encoder; the loop ends with the last frame.   *)
Release ==
  /\ sto = "release"
  /\ srcsurface_status' = [srcsurface_status EXCEPT
                             ![Slot(task)] = "IN_ENCODING"]
  /\ frame_coded' = frame_coded + 1
  /\ sto' = IF frame_coded' >= frame_count THEN "exited" ELSE "dequeue"
  /\ UNCHANGED <<tasks, src_surface, shots, task, coded_fp>>
  /\ StorerUnchanged

Storer == Dequeue \/ Wait \/ Save \/ Load \/ Release

-----------------------------------------------------------------------------
(* The storer went to sleep between a NULL from storage_task_dequeue and   *)
(* the wait, the signal came in between, and the encoder has none left to  *)
(* send: it is in pthread_join, or it polls a slot that nobody will free.  *)
Stranded ==
  /\ sto = "asleep" /\ tasks # <<>>
  /\ \/ enc = "begin" /\ current_frame_encoding = frame_count
     \/ enc = "slot" /\ srcsurface_status[current_slot] = "IN_STORAGE"

Stopped == (enc = "done" \/ Stranded) /\ UNCHANGED vars

Next == Encoder \/ Storer \/ SpuriousWake \/ Stopped

Spec == Init /\ [][Next]_vars

(* Both threads are scheduled; nothing is owed a spurious wakeup. *)
FairSpec == Spec /\ WF_vars(Encoder) /\ WF_vars(Storer)

-----------------------------------------------------------------------------
(* Properties *)

Displays == 0..frame_count + ip_period

(* Every variable has its type; no list is longer than the frames there    *)
(* are. *)
TypeOK ==
  /\ enc \in {"begin", "slot", "render", "queue", "done"}
  /\ sto \in {"dequeue", "wait", "asleep", "save", "load", "release",
              "exited"}
  /\ current_frame_encoding \in 0..frame_count
  /\ current_frame_display \in Displays
  /\ current_frame_type \in {"IDR", "I", "P", "B"}
  /\ current_frame_num \in 0..MaxFrameNum
  /\ ReferenceFrames \in Seq([slot : Slots, display : Displays])
  /\ Len(ReferenceFrames) <= num_ref_frames
  /\ src_surface \in [Slots -> Nat]
  /\ shots \in Nat
  /\ ref_surface \in [Slots -> Displays \cup {-1}]
  /\ coded_buf \in [Slots -> [display : Displays, shot : Nat]
                               \cup {NoPicture}]
  /\ srcsurface_status \in [Slots -> {"IN_ENCODING", "IN_STORAGE"}]
  /\ tasks \in Seq(Displays)
  /\ task \in Displays
  /\ frame_coded \in 0..frame_count
  /\ coded_fp \in Seq([display : Displays, shot : Nat])
  /\ encoded \in Seq([display : Displays, shot : Nat])

Storing == sto \in {"save", "load", "release"}
PendingSlots == {Slot(tasks[i]) : i \in DOMAIN tasks}
                  \cup IF Storing THEN {Slot(task)} ELSE {}

(* A slot is in the hands of one side: while a picture is given to the     *)
(* driver, the storer neither reads the coded buffer of its slot nor loads *)
(* its surface, now or for a task that still waits, although the encoder   *)
(* reads the status without the mutex. *)
SlotExclusive ==
  /\ enc \in {"render", "queue"} => current_slot \notin PendingSlots
  /\ \A i, j \in DOMAIN tasks : i # j => Slot(tasks[i]) # Slot(tasks[j])
  /\ Storing => \A i \in DOMAIN tasks : Slot(tasks[i]) # Slot(task)

(* The file holds what was encoded, in this order, each picture once: no   *)
(* coded buffer is overwritten before it was saved.  Once the storer, that *)
(* counts for itself, has exited, the file holds every frame. *)
FileInOrder ==
  /\ IsPrefix(coded_fp, encoded)
  /\ sto = "exited" => Len(coded_fp) = frame_count /\ coded_fp = encoded

(* Every screen shot is used for one picture only, and when the pictures   *)
(* are encoded in display order, so were their shots taken. *)
ShotsInOrder ==
  \A i, j \in DOMAIN encoded : i < j =>
    /\ encoded[i].shot # encoded[j].shot
    /\ ip_period = 1 => encoded[i].shot < encoded[j].shot

(* When a picture is given to the driver, the surface of every reference   *)
(* still holds the picture that it was remembered for, and the picture     *)
(* does not overwrite one of its own references. *)
ReferencesIntact ==
  enc = "render" => \A i \in DOMAIN ReferenceFrames :
    /\ ref_surface[ReferenceFrames[i].slot] = ReferenceFrames[i].display
    /\ ReferenceFrames[i].slot # current_slot

(* Every frame is saved, the storage thread exits and encode_frames        *)
(* returns. *)
AllSaved == <>(enc = "done" /\ Len(coded_fp) = frame_count)

(* The same, unless the storer slept through the last signal. *)
SavedUnlessStranded == <>(\/ enc = "done" /\ Len(coded_fp) = frame_count
                          \/ Stranded)
=============================================================================
