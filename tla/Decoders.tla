------------------------------ MODULE Decoders -------------------------------
(***************************************************************************)
(* The three programs that decode in one thread:                           *)
(*   hw_decode    src/hwDecodeVaapi/ffmpegNewHwDecode/hw_decode.c,         *)
(*   softDecode   src/softDecode/softDecode.c,                             *)
(*   audioPlayer  src/mp3Player/audioPlayer.c.                             *)
(* hw_decode sends a packet and receives frames until the codec wants      *)
(* more, and it flushes the codec at the end; the others get at most one   *)
(* frame per packet.  The codec may return a frame several packets late.   *)
(* A frame stands for a picture or for the samples of a packet of sound,   *)
(* showing it for XPutImage or snd_pcm_writei.                             *)
(*                                                                         *)
(* A definition without a comment, just before the one it resembles, is a  *)
(* plausible bug of that one; no specification uses it.                    *)
(***************************************************************************)
EXTENDS Naturals, SequencesExt

CONSTANTS
  MaxFilePackets,  \* bound on the packets of the stream in the file
  MaxDelay         \* the most frames that the codec holds back

ASSUME DemoAssumption == MaxFilePackets \in Nat /\ MaxDelay \in Nat

VARIABLES
  demo,                 \* which program runs
  demoPlace,
  filePackets,          \* how many packets were read
  owed,                 \* the packets whose frames the codec still holds
  draining,             \* a packet without data was sent
  ret,                  \* whether the variable is negative
  frame,                \* the frame received, 0 when it holds none
  allocated,            \* which of frame, sw_frame and buffer are allocated
  overwritten,          \* a pointer to live memory was overwritten
  onScreen,             \* the frames shown
  notShown              \* the frames received and not shown

memory == <<frame, allocated, overwritten>>
demoVars == <<demo, demoPlace, filePackets, owed, draining, ret, memory,
              onScreen, notShown>>

DemoInit ==
  /\ demo = "none" /\ demoPlace = "choose"
  /\ filePackets = 0 /\ owed = <<>> /\ draining = FALSE
  /\ ret = "ok"
  /\ frame = 0 /\ allocated = {} /\ overwritten = FALSE
  /\ onScreen = <<>> /\ notShown = <<>>

ChooseDemo ==
  /\ demoPlace = "choose" /\ demoPlace' = "read"
  /\ demo' \in {"hw_decode", "softDecode", "audioPlayer"}
  /\ UNCHANGED <<filePackets, owed, draining, ret, memory, onScreen,
                 notShown>>

(* The codec takes a packet, or a corrupt one leaves no frame. *)
Accept(packet) == owed' \in {owed, Append(owed, packet)}

-----------------------------------------------------------------------------
(* hw_decode *)

ReadNextNoFlush ==
  /\ demoPlace = "read" /\ demo = "hw_decode"
  /\ \/ /\ ret = "ok" /\ filePackets < MaxFilePackets
        /\ filePackets' = filePackets + 1
        /\ demoPlace' = "send"
     \/ demoPlace' = "closed" /\ UNCHANGED filePackets
  /\ UNCHANGED <<demo, draining, owed, ret, memory, onScreen, notShown>>

(* av_read_frame in main: the next packet of the stream, or the end of the *)
(* file, after which the packet without data is sent. *)
ReadNext ==
  /\ demoPlace = "read" /\ demo = "hw_decode"
  /\ IF ret = "ok" /\ filePackets < MaxFilePackets
       THEN \/ filePackets' = filePackets + 1 /\ draining' = FALSE
            \/ draining' = TRUE /\ UNCHANGED filePackets
       ELSE draining' = TRUE /\ UNCHANGED filePackets
  /\ demoPlace' = "send"
  /\ UNCHANGED <<demo, owed, ret, memory, onScreen, notShown>>

(* decode_write returns; after the flush main ends, whatever the result.   *)
ReturnTo == IF draining THEN "closed" ELSE "read"

(* avcodec_send_packet, that may fail. *)
SendPacket ==
  /\ demoPlace = "send"
  /\ \/ /\ IF draining THEN UNCHANGED owed ELSE Accept(filePackets)
        /\ demoPlace' = "alloc" /\ ret' = "ok"
     \/ demoPlace' = ReturnTo /\ ret' = "error" /\ UNCHANGED owed
  /\ UNCHANGED <<demo, filePackets, draining, memory, onScreen, notShown>>

Allocate(things) ==
  /\ allocated' = allocated \cup things
  /\ overwritten' = (overwritten \/ allocated \cap things # {})

(* av_frame_alloc for frame and for sw_frame. *)
AllocFrames ==
  /\ demoPlace = "alloc"
  /\ \/ Allocate({"frame", "sw_frame"}) /\ demoPlace' = "receive"
          /\ UNCHANGED ret
     \/ \E made \in {{}, {"frame"}} : Allocate(made)
          /\ demoPlace' = "fail" /\ ret' = "error"
  /\ UNCHANGED <<demo, filePackets, owed, draining, frame, onScreen,
                 notShown>>

ReceiveFrameContinues ==
  /\ demoPlace = "receive"
  /\ \/ /\ owed # <<>>
        /\ frame' = Head(owed) /\ owed' = Tail(owed)
        /\ demoPlace' = "transfer" /\ ret' = "ok" /\ UNCHANGED allocated
     \/ /\ allocated' = allocated \ {"frame", "sw_frame"}
        /\ demoPlace' = "alloc" /\ ret' = "ok" /\ UNCHANGED <<frame, owed>>
  /\ UNCHANGED <<demo, filePackets, draining, overwritten, onScreen,
                 notShown>>

(* avcodec_receive_frame: a frame that is due; EAGAIN or EOF, for which    *)
(* the frames are freed and decode_write returns 0; or an error. *)
ReceiveFrame ==
  /\ demoPlace = "receive"
  /\ \/ /\ owed # <<>>
        /\ frame' = Head(owed) /\ owed' = Tail(owed)
        /\ demoPlace' = "transfer" /\ ret' = "ok" /\ UNCHANGED allocated
     \/ /\ IF draining THEN owed = <<>> ELSE Len(owed) <= MaxDelay
        /\ allocated' = allocated \ {"frame", "sw_frame"}
        /\ demoPlace' = ReturnTo /\ ret' = "ok" /\ UNCHANGED <<frame, owed>>
     \/ /\ demoPlace' = "fail" /\ ret' = "error"
        /\ UNCHANGED <<frame, owed, allocated>>
  /\ UNCHANGED <<demo, filePackets, draining, overwritten, onScreen,
                 notShown>>

(* av_hwframe_transfer_data, av_malloc and av_image_copy_to_buffer.        *)
TransferFrame ==
  /\ demoPlace = "transfer"
  /\ \/ Allocate({"buffer"}) /\ demoPlace' = "show" /\ ret' = "ok"
     \/ Allocate({"buffer"}) /\ demoPlace' = "fail" /\ ret' = "error"
     \/ demoPlace' = "fail" /\ ret' = "error"
          /\ UNCHANGED <<allocated, overwritten>>
  /\ UNCHANGED <<demo, filePackets, owed, draining, frame, onScreen,
                 notShown>>

ShowFrameKeeps ==
  /\ demoPlace = "show" /\ demoPlace' = "fail"
  /\ onScreen' = Append(onScreen, frame)
  /\ UNCHANGED <<demo, filePackets, owed, draining, ret, memory, notShown>>

(* XPutImage, unless XCreateImage fails: then the label fail is reached    *)
(* with a result that is not negative. *)
ShowFrame ==
  /\ demoPlace = "show" /\ demoPlace' = "fail"
  /\ \/ onScreen' = Append(onScreen, frame) /\ frame' = 0
     \/ UNCHANGED <<onScreen, frame>>
  /\ UNCHANGED <<demo, filePackets, owed, draining, ret, allocated,
                 overwritten, notShown>>

FailKeepsBuffer ==
  /\ demoPlace = "fail"
  /\ notShown' = IF frame = 0 THEN notShown ELSE Append(notShown, frame)
  /\ frame' = 0 /\ allocated' = allocated \ {"frame", "sw_frame"}
  /\ demoPlace' = IF ret = "error" THEN ReturnTo ELSE "alloc"
  /\ UNCHANGED <<demo, filePackets, owed, draining, ret, overwritten,
                 onScreen>>

(* The label fail, which every iteration passes. *)
Fail ==
  /\ demoPlace = "fail"
  /\ notShown' = IF frame = 0 THEN notShown ELSE Append(notShown, frame)
  /\ frame' = 0 /\ allocated' = {}
  /\ demoPlace' = IF ret = "error" THEN ReturnTo ELSE "alloc"
  /\ UNCHANGED <<demo, filePackets, owed, draining, ret, overwritten,
                 onScreen>>
HwDecode == \/ ReadNext \/ SendPacket \/ AllocFrames \/ ReceiveFrame
            \/ TransferFrame \/ ShowFrame \/ Fail

-----------------------------------------------------------------------------
(* softDecode and audioPlayer *)

(* avcodec_decode_video2 or avcodec_decode_audio4: the packet goes in, and *)
(* at most one frame comes out. *)
DecodeOne ==
  \E packets \in {owed, Append(owed, filePackets')} :
    \/ /\ packets # <<>>
       /\ frame' = Head(packets) /\ owed' = Tail(packets)
       /\ demoPlace' = "got"
    \/ /\ Len(packets) <= MaxDelay
       /\ owed' = packets /\ UNCHANGED <<frame, demoPlace>>

(* An error ends softDecode; audioPlayer prints a message and goes on.     *)
DecodeError ==
  /\ demoPlace' = IF demo = "softDecode" THEN "aborted" ELSE "read"
  /\ UNCHANGED <<frame, owed>>

DecodePacketPastEnd ==
  /\ demoPlace = "read" /\ demo # "hw_decode"
  /\ filePackets <= MaxFilePackets /\ filePackets' = filePackets + 1
  /\ DecodeOne \/ DecodeError
  /\ UNCHANGED <<demo, draining, ret, allocated, overwritten, onScreen,
                 notShown>>

DecodePacket ==
  /\ demoPlace = "read" /\ demo # "hw_decode"
  /\ filePackets < MaxFilePackets /\ filePackets' = filePackets + 1
  /\ DecodeOne \/ DecodeError
  /\ UNCHANGED <<demo, draining, ret, allocated, overwritten, onScreen,
                 notShown>>

(* XPutImage; snd_pcm_writei, that may fail and ends the program. *)
Output ==
  /\ demoPlace = "got" /\ frame' = 0
  /\ \/ /\ onScreen' = Append(onScreen, frame)
        /\ demoPlace' = "read" /\ UNCHANGED notShown
     \/ /\ demo = "audioPlayer"
        /\ notShown' = Append(notShown, frame)
        /\ demoPlace' = "aborted" /\ UNCHANGED onScreen
  /\ UNCHANGED <<demo, filePackets, owed, draining, ret, allocated,
                 overwritten>>

(* The end of the file: the codec is not flushed. *)
CloseFile ==
  /\ demoPlace = "read" /\ demo # "hw_decode"
  /\ demoPlace' = "closed"
  /\ UNCHANGED <<demo, filePackets, owed, draining, ret, memory, onScreen,
                 notShown>>

DemoNext == \/ ChooseDemo \/ HwDecode \/ DecodePacket \/ Output \/ CloseFile

DemoSpec == DemoInit /\ [][DemoNext]_demoVars

DemoEnded == demoPlace \in {"closed", "aborted"}

-----------------------------------------------------------------------------
(* Properties *)

(* Every variable has its type. *)
DemoTypeOK ==
  /\ demo \in {"none", "hw_decode", "softDecode", "audioPlayer"}
  /\ demoPlace \in {"choose", "read", "send", "alloc", "receive",
                    "transfer", "show", "fail", "got", "closed", "aborted"}
  /\ filePackets \in 0..MaxFilePackets
  /\ {owed, onScreen, notShown} \subseteq Seq(1..MaxFilePackets)
  /\ draining \in BOOLEAN /\ ret \in {"ok", "error"}
  /\ frame \in 0..MaxFilePackets
  /\ allocated \subseteq {"frame", "sw_frame", "buffer"}
  /\ overwritten \in BOOLEAN

(* Whatever fails, decode_write returns with everything freed that it      *)
(* allocated, and no iteration loses what the last one allocated. *)
FramesFreed ==
  /\ demoPlace \in {"read", "closed"} => allocated = {}
  /\ ~overwritten

(* Frames are shown in order, and no frame is shown that comes after one   *)
(* that is still owed: a failure drops its own frame only. *)
FramesInOrder ==
  LET frames == onScreen \o (IF frame = 0 THEN <<>> ELSE <<frame>>) \o owed
  IN \A i, k \in DOMAIN frames : i < k => frames[i] < frames[k]

(* hw_decode that ends without an error has got every frame out of the     *)
(* codec.  The others lose at their end what the codec holds back, but no  *)
(* more than that, and while they read on they show all they get. *)
NothingOwed ==
  demoPlace = "closed" =>
    IF demo = "hw_decode"
      THEN ret = "ok" => owed = <<>>
      ELSE Len(owed) <= MaxDelay /\ notShown = <<>>

(* A program that was started comes to its end. *)
DemoEnds == demo # "none" ~> DemoEnded

(* The demos show every frame once and in order, owe none but what an end  *)
(* without a flush leaves in the codec, and free what they allocate.       *)
DemoFramesSound == FramesFreed /\ FramesInOrder /\ NothingOwed
=============================================================================
