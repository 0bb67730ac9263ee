------------------------------ MODULE VaPlayer ------------------------------
(***************************************************************************)
(* The player of src/hwDecodeVaapi/vaapi/ffmpeg_player.c: the decoder      *)
(* copies every picture from its surface into the VA image of an empty     *)
(* entry and queues the entry; the display shows the image, destroys it,   *)
(* and gives the entry back.  One mutex and one condition variable serve   *)
(* both lists; every section under the mutex is one step.  The flag        *)
(* decodeThreadExit is written and read without the mutex, and the lists   *)
(* are emptied without it at the end.                                      *)
(*                                                                         *)
(* A definition without a comment, just before the one it resembles, is a  *)
(* plausible bug of that one; no specification uses it.                    *)
(***************************************************************************)
EXTENDS SurfaceRing

CONSTANTS
  Entries,     \* the vaframe_queue_t of the pool, NUM_VIDEO_SURFACES_H264
  NoEntry,
  MaxPackets   \* bound on the packets of the file

ASSUME PoolAssumption ==
  /\ IsFiniteSet(Entries) /\ Entries # {} /\ NoEntry \notin Entries
  /\ MaxPackets \in Nat

VARIABLES
  process,            \* "running", or how the program ended
  dec, show,          \* the places of decoder_thread, image_show_thread
  decodeThreadExit,
  image_queue, image_empty,  \* the two lists of entries, oldest first
  decEntry, showEntry,       \* the entry in the hands of each thread
  asleep,             \* the threads asleep on image_queue_cond
  image_id,           \* entry -> "malloc", or the state of its VA image
  data,               \* entry -> the picture that its image holds
  packets,            \* how many packets were read
  pFrame,             \* the surface of the picture returned last
  returned, shown     \* the pictures that the codec returned, and those
                      \* that were put on the screen

entryVars == <<image_queue, image_empty, decEntry, showEntry, asleep,
               image_id, data>>
playerVars == <<process, dec, show, decodeThreadExit, entryVars, packets,
                pFrame, returned, shown, ringVars>>

(* The lists are filled before the threads start, in any order of the      *)
(* entries. *)
PlayerInit ==
  /\ process = "running" /\ dec = "read" /\ show = "test"
  /\ decodeThreadExit = FALSE
  /\ image_queue = <<>>
  /\ image_empty \in SetToSeqs(Entries)
  /\ decEntry = NoEntry /\ showEntry = NoEntry
  /\ asleep = {}
  /\ image_id = [e \in Entries |-> "malloc"]
  /\ data = [e \in Entries |-> 0]
  /\ packets = 0 /\ pFrame = 0
  /\ returned = <<>> /\ shown = <<>>
  /\ RingInit

-----------------------------------------------------------------------------
(* decoder_thread *)

DecoderUnchanged == UNCHANGED <<show, showEntry, shown>>

(* A packet of another stream changes nothing. *)
ReadPacket ==
  /\ dec = "read" /\ packets < MaxPackets
  /\ dec' \in {"decode", "read"}
  /\ packets' = packets + 1
  /\ UNCHANGED <<process, decodeThreadExit, entryVars, pFrame, returned,
                 ringVars>>
  /\ DecoderUnchanged

(* The calls that avcodec_decode_video2 makes: it drops pictures, and it   *)
(* gets a surface for a new one; an error of it is ignored. *)
DecodeRelease ==
  /\ dec = "decode"
  /\ \E i \in DOMAIN lent : release_buffer(i)
  /\ UNCHANGED <<process, dec, decodeThreadExit, entryVars, packets, pFrame,
                 returned>>
  /\ DecoderUnchanged

DecodePicture ==
  /\ dec = "decode" /\ dec' = "decoded"
  /\ get_buffer(packets) \/ get_buffer_fails \/ UNCHANGED ringVars
  /\ UNCHANGED <<process, decodeThreadExit, entryVars, packets, pFrame,
                 returned>>
  /\ DecoderUnchanged

(* frameFinished: one of the pictures that are due is returned, or none.   *)
FrameFinished ==
  /\ dec = "decoded"
  /\ \/ dec' = "read" /\ UNCHANGED <<lent, pFrame, returned>>
     \/ \E i \in DOMAIN lent :
          /\ lent[i].due
          /\ dec' = "take" /\ pFrame' = lent[i].surface
          /\ lent' = [lent EXCEPT ![i].due = FALSE]
          /\ returned' = Append(returned, lent[i].picture)
  /\ UNCHANGED <<process, decodeThreadExit, entryVars, packets,
                 surface_ids, surface_head, surface_tail, drawn>>
  /\ DecoderUnchanged

(* get_decoded_data: wait for an empty entry, and take it off the list. *)
TakeEmpty ==
  /\ dec = "take" /\ "decoder" \notin asleep
  /\ IF image_empty = <<>>
       THEN /\ asleep' = asleep \cup {"decoder"}
            /\ UNCHANGED <<dec, image_empty, decEntry>>
       ELSE /\ dec' = "create"
            /\ decEntry' = Head(image_empty)
            /\ image_empty' = Tail(image_empty)
            /\ UNCHANGED asleep
  /\ UNCHANGED <<process, decodeThreadExit, image_queue, image_id, data,
                 packets, pFrame, returned, ringVars>>
  /\ DecoderUnchanged

(* create_rgbx_image and get_rgbx_picture; the program exits with 1 when   *)
(* one of them fails. *)
CopyPicture ==
  /\ dec = "create"
  /\ \/ /\ dec' = "put"
        /\ image_id' = [image_id EXCEPT ![decEntry] = "live"]
        /\ data' = [data EXCEPT ![decEntry] = drawn[pFrame]]
        /\ UNCHANGED process
     \/ process' = "failed" /\ UNCHANGED <<dec, image_id, data>>
  /\ UNCHANGED <<decodeThreadExit, image_queue, image_empty, decEntry, asleep,
                 packets, pFrame, returned, ringVars>>
  /\ DecoderUnchanged

PutAtHead ==
  /\ dec = "put" /\ dec' = "read"
  /\ image_queue' = <<decEntry>> \o image_queue
  /\ asleep' = {}
  /\ decEntry' = NoEntry
  /\ UNCHANGED <<process, decodeThreadExit, image_empty, image_id, data,
                 packets, pFrame, returned, ringVars>>
  /\ DecoderUnchanged

put_decoded_data_list ==
  /\ dec = "put" /\ dec' = "read"
  /\ image_queue' = Append(image_queue, decEntry)
  /\ asleep' = {}
  /\ decEntry' = NoEntry
  /\ UNCHANGED <<process, decodeThreadExit, image_empty, image_id, data,
                 packets, pFrame, returned, ringVars>>
  /\ DecoderUnchanged

(* The end of the file: the flag is set, and nobody told. *)
ReadEnd ==
  /\ dec = "read" /\ dec' = "done"
  /\ decodeThreadExit' = TRUE
  /\ UNCHANGED <<process, entryVars, packets, pFrame, returned, ringVars>>
  /\ DecoderUnchanged

Decoder == ReadPacket \/ DecodeRelease \/ DecodePicture \/ FrameFinished
           \/ TakeEmpty \/ CopyPicture \/ put_decoded_data_list \/ ReadEnd

-----------------------------------------------------------------------------
(* image_show_thread *)

DisplayUnchanged == UNCHANGED <<dec, decEntry, decodeThreadExit, data,
                                packets, pFrame, returned, ringVars>>

TestExitSkipsDrain ==
  /\ show = "test"
  /\ show' = IF decodeThreadExit THEN "destroy" ELSE "deque"
  /\ UNCHANGED <<process, image_queue, image_empty, showEntry, asleep,
                 image_id, shown>>
  /\ DisplayUnchanged

(* The condition of the loop. *)
TestExit ==
  /\ show = "test"
  /\ show' = IF decodeThreadExit THEN "drain" ELSE "deque"
  /\ UNCHANGED <<process, image_queue, image_empty, showEntry, asleep,
                 image_id, shown>>
  /\ DisplayUnchanged

(* Wait for a queued entry, whether the decoder is still there or not. *)
TakeQueued ==
  /\ show = "deque" /\ "display" \notin asleep
  /\ IF image_queue = <<>>
       THEN /\ asleep' = asleep \cup {"display"}
            /\ UNCHANGED <<show, image_queue, showEntry>>
       ELSE /\ show' = "show"
            /\ showEntry' = Head(image_queue)
            /\ image_queue' = Tail(image_queue)
            /\ UNCHANGED asleep
  /\ UNCHANGED <<process, image_empty, image_id, shown>>
  /\ DisplayUnchanged

(* After the loop the entries that are left are taken without the mutex. *)
Drain ==
  /\ show = "drain"
  /\ IF image_queue = <<>>
       THEN show' = "destroy" /\ UNCHANGED <<image_queue, showEntry>>
       ELSE /\ show' = "drainShow"
            /\ showEntry' = Head(image_queue)
            /\ image_queue' = Tail(image_queue)
  /\ UNCHANGED <<process, image_empty, asleep, image_id, shown>>
  /\ DisplayUnchanged

ImageShowKeeps(from, to) ==
  /\ show = from /\ show' = to
  /\ shown' = Append(shown, data[showEntry])
  /\ UNCHANGED <<process, image_queue, image_empty, showEntry, asleep,
                 image_id>>
  /\ DisplayUnchanged

(* imageShow and image_unmap, which also destroys the image; the program   *)
(* exits with -1 when that fails. *)
ImageShow(from, to) ==
  /\ show = from
  /\ shown' = Append(shown, data[showEntry])
  /\ \/ /\ show' = to
        /\ image_id' = [image_id EXCEPT ![showEntry] = "destroyed"]
        /\ UNCHANGED process
     \/ process' = "failed" /\ UNCHANGED <<show, image_id>>
  /\ UNCHANGED <<image_queue, image_empty, showEntry, asleep>>
  /\ DisplayUnchanged

PutEmptySilent(from, to) ==
  /\ show = from /\ show' = to
  /\ image_empty' = Append(image_empty, showEntry)
  /\ showEntry' = NoEntry
  /\ UNCHANGED <<process, image_queue, asleep, image_id, shown>>
  /\ DisplayUnchanged

put_empty_data_list(from, to) ==
  /\ show = from /\ show' = to
  /\ image_empty' = Append(image_empty, showEntry)
  /\ showEntry' = NoEntry
  /\ asleep' = {}
  /\ UNCHANGED <<process, image_queue, image_id, shown>>
  /\ DisplayUnchanged

(* image_destroy for every entry.  The image of an entry that was used is  *)
(* destroyed already, so vaDestroyImage fails and the program exits with   *)
(* -1; the others have whatever malloc left as their image_id, which may   *)
(* happen to be VA_INVALID_ID. *)
DestroyImage ==
  /\ show = "destroy"
  /\ IF image_empty = <<>>
       THEN show' = "done" /\ UNCHANGED <<process, image_empty>>
       ELSE /\ image_empty' = Tail(image_empty)
            /\ UNCHANGED show
            /\ \/ process' = "exited"
               \/ image_id[Head(image_empty)] = "malloc" /\ UNCHANGED process
  /\ UNCHANGED <<image_queue, showEntry, asleep, image_id, shown>>
  /\ DisplayUnchanged

Display ==
  \/ TestExit \/ TakeQueued \/ Drain \/ DestroyImage
  \/ ImageShow("show", "unmapped") \/ put_empty_data_list("unmapped", "test")
  \/ ImageShow("drainShow", "drainUnmapped")
  \/ put_empty_data_list("drainUnmapped", "drain")

-----------------------------------------------------------------------------
PlayerSpuriousWake ==
  /\ \E t \in asleep : asleep' = asleep \ {t}
  /\ UNCHANGED <<process, image_queue, image_empty, showEntry, image_id, show,
                 shown>>
  /\ DisplayUnchanged

(* thpool_wait returns, and main tears everything down. *)
Main ==
  /\ dec = "done" /\ show = "done"
  /\ process' = "returned"
  /\ UNCHANGED <<image_queue, image_empty, showEntry, asleep, image_id, show,
                 shown>>
  /\ DisplayUnchanged

(* The display sleeps and the decoder, that would have to wake it, is      *)
(* gone: the player does not come to its end. *)
PlayerStranded == dec = "done" /\ show = "deque" /\ image_queue = <<>>

PlayerStopped ==
  (process # "running" \/ PlayerStranded) /\ UNCHANGED playerVars

PlayerNext ==
  \/ process = "running" /\ (Decoder \/ Display \/ PlayerSpuriousWake \/ Main)
  \/ PlayerStopped

PlayerSpec == PlayerInit /\ [][PlayerNext]_playerVars

-----------------------------------------------------------------------------
(* Properties *)

(* Every variable has its type. *)
PlayerTypeOK ==
  /\ RingTypeOK
  /\ process \in {"running", "failed", "exited", "returned"}
  /\ dec \in {"read", "decode", "decoded", "take", "create", "put", "done"}
  /\ show \in {"test", "deque", "show", "unmapped", "drain", "drainShow",
               "drainUnmapped", "destroy", "done"}
  /\ decodeThreadExit \in BOOLEAN
  /\ image_queue \in Seq(Entries) /\ image_empty \in Seq(Entries)
  /\ decEntry \in Entries \cup {NoEntry}
  /\ showEntry \in Entries \cup {NoEntry}
  /\ asleep \subseteq {"decoder", "display"}
  /\ image_id \in [Entries -> {"malloc", "live", "destroyed"}]
  /\ data \in [Entries -> 0..MaxPackets]
  /\ packets \in 0..MaxPackets
  /\ pFrame \in Surfaces
  /\ returned \in Seq(1..MaxPackets) /\ shown \in Seq(1..MaxPackets)

(* Every entry is in one place until the end, and its image is live just   *)
(* from the copy to the end of its display: no image leaks, none is shown  *)
(* after it was destroyed, and both threads never have the same entry.     *)
Places(e) ==
  <<decEntry = e, showEntry = e, e \in ToSet(image_queue),
    e \in ToSet(image_empty)>>
EntriesKept ==
  /\ IsInjective(image_queue) /\ IsInjective(image_empty)
  /\ \A e \in Entries :
       /\ \A i, k \in 1..4 : i # k => ~(Places(e)[i] /\ Places(e)[k])
       /\ show \notin {"destroy", "done"} => \E i \in 1..4 : Places(e)[i]
       /\ image_id[e] = "live" <=>
            \/ e \in ToSet(image_queue)
            \/ decEntry = e /\ dec = "put"
            \/ showEntry = e /\ show \in {"show", "drainShow"}

(* A thread sleeps only while its list is empty, and unless the decoder is *)
(* gone the other one is awake, with an entry to bring or a picture to     *)
(* look for: the condition variable that both share leaves nobody behind.  *)
SleepersServed ==
  /\ "decoder" \in asleep =>
       /\ image_empty = <<>>
       /\ "display" \notin asleep
       /\ image_queue # <<>> \/ showEntry # NoEntry
  /\ "display" \in asleep =>
       /\ image_queue = <<>>
       /\ dec = "take" => image_empty # <<>>

(* The screen shows the pictures that the codec returned, in this order,   *)
(* each once, and each as it was decoded: neither its surface nor its      *)
(* entry was given away before.                                            *)
ShownInOrder == IsPrefix(shown, returned)

(* Unless a VA call fails all pictures are shown in the end, those too     *)
(* that are still queued when the flag is set, although the player itself  *)
(* may hang.                                                               *)
AllShown == <>(process = "failed" \/ (dec = "done" /\ shown = returned))
=============================================================================
