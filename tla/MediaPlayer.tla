----------------------------- MODULE MediaPlayer -----------------------------
(***************************************************************************)
(* The player of src/videoAudioPlayer: four jobs of the thread pool joined *)
(* by three queues.  The reader splits the file into video and audio       *)
(* packets, the decoder turns video packets into frames, the display shows *)
(* the frames and the speaker plays the audio packets.                     *)
(*                                                                         *)
(* A queue has a mutex, a condition variable and a flag that tells its     *)
(* consumer that the producer is gone; the reader has one flag for both of *)
(* its queues.  Everything a critical section touches is protected by its  *)
(* mutex, so a section is one step.  What makes the mutexes interesting is *)
(* that the three deque functions return without unlocking when they give  *)
(* up: from then on the mutex belongs to a thread that has left.           *)
(*                                                                         *)
(* A definition without a comment, just before the one it resembles, is a  *)
(* plausible bug of that one; no specification uses it.                    *)
(***************************************************************************)
EXTENDS Naturals, Sequences, FiniteSets

CONSTANT MaxPackets  \* bound on the packets that the reader gets

ASSUME MaxPacketsNat == MaxPackets \in Nat

VARIABLES
  pc,        \* the place of every thread
  hand,      \* the packet or frame that a thread is working on, 0 for none
  read,      \* how many packets were read; packets are numbered from 1
  queue,     \* the three lists, oldest first
  owner,     \* the owner of the mutex of every list, or "free"
  asleep,    \* the threads asleep on the condition variable of their list
  readThreadExit, decThreadExit,
  inCodec,   \* the video packets whose frame the codec still owes
  failed,    \* the threads that stopped because a call failed
  sent,      \* for every list, all that was ever put into it
  got        \* for every list, all that was ever taken from it

vars == <<pc, hand, read, queue, owner, asleep, readThreadExit, decThreadExit,
          inCodec, failed, sent, got>>
flags == <<readThreadExit, decThreadExit>>
history == <<sent, got>>

Lists == {"video", "audio", "frame"}
Jobs == {"reader", "decoder", "display", "speaker"}

Threads == Jobs \cup {"main"}

Producer(q) == IF q = "frame" THEN "decoder" ELSE "reader"
Consumer(q) == CASE q = "video" -> "decoder"
                 [] q = "audio" -> "speaker"
                 [] q = "frame" -> "display"

(* What the consumer of a list looks at when the list is empty. *)
ProducerGone(q) == IF q = "frame" THEN decThreadExit ELSE readThreadExit

Goto(t, from, to) == pc[t] = from /\ pc' = [pc EXCEPT ![t] = to]

(* A job that stops because a call failed. *)
Fails(t, from, to) == Goto(t, from, to) /\ failed' = failed \cup {t}

(* The body of the three enque functions: list_add_tail and broadcast.     *)
EnqueAtHead(t, q) ==
  /\ owner[q] = "free"
  /\ queue' = [queue EXCEPT ![q] = <<hand[t]>> \o @]
  /\ sent' = [sent EXCEPT ![q] = Append(@, hand[t])]
  /\ asleep' = asleep \ {Consumer(q)}
  /\ UNCHANGED <<owner, got>>

Enque(t, q) ==
  /\ owner[q] = "free"
  /\ queue' = [queue EXCEPT ![q] = Append(@, hand[t])]
  /\ sent' = [sent EXCEPT ![q] = Append(@, hand[t])]
  /\ asleep' = asleep \ {Consumer(q)}
  /\ UNCHANGED <<owner, got>>

(* The first entry is taken off the list, into the hands of the consumer.  *)
Take(t, q) ==
  /\ owner[q] = "free"
  /\ t \notin asleep
  /\ queue[q] # <<>>
  /\ hand' = [hand EXCEPT ![t] = Head(queue[q])]
  /\ queue' = [queue EXCEPT ![q] = Tail(@)]
  /\ got' = [got EXCEPT ![q] = Append(@, Head(queue[q]))]
  /\ UNCHANGED <<owner, asleep, sent>>

(* The list is empty and the producer may still add: pthread_cond_wait. *)
SleepUnchecked(t, q) ==
  /\ owner[q] = "free"
  /\ t \notin asleep
  /\ queue[q] = <<>>
  /\ asleep' = asleep \cup {t}
  /\ UNCHANGED <<owner, queue, hand, history>>

Sleep(t, q) ==
  /\ owner[q] = "free"
  /\ t \notin asleep
  /\ queue[q] = <<>> /\ ~ProducerGone(q)
  /\ asleep' = asleep \cup {t}
  /\ UNCHANGED <<owner, queue, hand, history>>

(* The list is empty and the producer is gone: return, mutex locked.       *)
GiveUpUndrained(t, q) ==
  /\ owner[q] = "free"
  /\ t \notin asleep
  /\ ProducerGone(q)
  /\ owner' = [owner EXCEPT ![q] = t]
  /\ UNCHANGED <<asleep, queue, hand, history>>

GiveUp(t, q) ==
  /\ owner[q] = "free"
  /\ t \notin asleep
  /\ queue[q] = <<>> /\ ProducerGone(q)
  /\ owner' = [owner EXCEPT ![q] = t]
  /\ UNCHANGED <<asleep, queue, hand, history>>

Init ==
  /\ pc = [t \in Threads |-> CASE t = "reader" -> "read"
                                [] t \in {"decoder", "display"} -> "deque"
                                [] t = "speaker" -> "init"
                                [] t = "main" -> "wait"]
  /\ hand = [t \in Jobs |-> 0]
  /\ read = 0
  /\ queue = [q \in Lists |-> <<>>]
  /\ owner = [q \in Lists |-> "free"]
  /\ asleep = {}
  /\ readThreadExit = FALSE /\ decThreadExit = FALSE
  /\ inCodec = {}
  /\ failed = {}
  /\ sent = [q \in Lists |-> <<>>]
  /\ got = [q \in Lists |-> <<>>]

-----------------------------------------------------------------------------
(* localPacketReadThread *)

(* av_read_frame returns a packet of one of the two streams, or of another *)
(* one, which is dropped. *)
ReadPacket(to) ==
  /\ read < MaxPackets
  /\ Goto("reader", "read", to)
  /\ read' = read + 1
  /\ hand' = [hand EXCEPT !["reader"] = read + 1]
  /\ UNCHANGED <<queue, owner, asleep, flags, inCodec, failed, history>>

ReadEndUnlocked ==
  /\ Goto("reader", "read", "exitVideo")
  /\ readThreadExit' = TRUE
  /\ UNCHANGED <<hand, read, queue, owner, asleep, decThreadExit, inCodec,
                 failed, history>>

(* av_read_frame fails: the end of the file, or an error anywhere in it.   *)
ReadEnd ==
  /\ Goto("reader", "read", "exitVideo")
  /\ UNCHANGED <<hand, read, queue, owner, asleep, flags, inCodec, failed,
                 history>>

(* video_packet_enque, audio_packet_enque. *)
EnquePacket(q) ==
  /\ Goto("reader", q, "read")
  /\ Enque("reader", q)
  /\ hand' = [hand EXCEPT !["reader"] = 0]
  /\ UNCHANGED <<read, flags, inCodec, failed>>

(* malloc or av_packet_ref failed before the mutex was taken. *)
EnquePacketFails(q) ==
  /\ Fails("reader", q, "exitVideo")
  /\ UNCHANGED <<hand, read, queue, owner, asleep, flags, inCodec, history>>

(* The exit flag, first under the mutex of the video packets ... *)
ExitVideo ==
  /\ Goto("reader", "exitVideo", "exitAudio")
  /\ owner["video"] = "free"
  /\ readThreadExit' = TRUE
  /\ asleep' = asleep \ {"decoder"}
  /\ UNCHANGED <<hand, read, queue, owner, decThreadExit, inCodec, failed,
                 history>>

(* ... then again under the mutex of the audio packets. *)
ExitAudio ==
  /\ Goto("reader", "exitAudio", "done")
  /\ owner["audio"] = "free"
  /\ readThreadExit' = TRUE
  /\ asleep' = asleep \ {"speaker"}
  /\ UNCHANGED <<hand, read, queue, owner, decThreadExit, inCodec, failed,
                 history>>

Reader ==
  \/ \E to \in {"video", "audio", "read"} : ReadPacket(to)
  \/ ReadEnd
  \/ \E q \in {"video", "audio"} : EnquePacket(q) \/ EnquePacketFails(q)
  \/ ExitVideo
  \/ ExitAudio

-----------------------------------------------------------------------------
(* localVideoPacketDecodeThread *)

(* video_packet_deque succeeds, or av_packet_ref fails after the packet    *)
(* was taken off the list, or the reader is gone. *)
DequeVideo ==
  /\ \/ Take("decoder", "video") /\ Goto("decoder", "deque", "decode")
        /\ UNCHANGED failed
     \/ Take("decoder", "video") /\ Fails("decoder", "deque", "exit")
     \/ Sleep("decoder", "video") /\ pc["decoder"] = "deque"
        /\ UNCHANGED <<pc, failed>>
     \/ GiveUp("decoder", "video") /\ Goto("decoder", "deque", "exit")
        /\ UNCHANGED failed
  /\ UNCHANGED <<read, flags, inCodec>>

DecodeNoPicture ==
  /\ Goto("decoder", "decode", "enque")
  /\ inCodec' = inCodec \cup {hand["decoder"]}
  /\ hand' = [hand EXCEPT !["decoder"] = 0]
  /\ UNCHANGED <<read, queue, owner, asleep, flags, failed, history>>

(* avcodec_decode_video2 takes the packet and returns no picture, or one   *)
(* of those it still owes. *)
Decode ==
  /\ \/ /\ Goto("decoder", "decode", "deque")
        /\ inCodec' = inCodec \cup {hand["decoder"]}
        /\ hand' = [hand EXCEPT !["decoder"] = 0]
     \/ \E p \in inCodec \cup {hand["decoder"]} :
          /\ Goto("decoder", "decode", "enque")
          /\ inCodec' = (inCodec \cup {hand["decoder"]}) \ {p}
          /\ hand' = [hand EXCEPT !["decoder"] = p]
  /\ UNCHANGED <<read, queue, owner, asleep, flags, failed, history>>

DecodeFails ==
  /\ Fails("decoder", "decode", "exit")
  /\ UNCHANGED <<hand, read, queue, owner, asleep, flags, inCodec, history>>

(* video_frame_enque. *)
EnqueFrame ==
  /\ Goto("decoder", "enque", "deque")
  /\ Enque("decoder", "frame")
  /\ hand' = [hand EXCEPT !["decoder"] = 0]
  /\ UNCHANGED <<read, flags, inCodec, failed>>

EnqueFrameFails ==
  /\ Fails("decoder", "enque", "exit")
  /\ UNCHANGED <<hand, read, queue, owner, asleep, flags, inCodec, history>>

ExitFrameSilent ==
  /\ Goto("decoder", "exit", "done")
  /\ owner["frame"] = "free"
  /\ decThreadExit' = TRUE
  /\ UNCHANGED <<hand, read, queue, owner, asleep, readThreadExit, inCodec,
                 failed, history>>

ExitFrame ==
  /\ Goto("decoder", "exit", "done")
  /\ owner["frame"] = "free"
  /\ decThreadExit' = TRUE
  /\ asleep' = asleep \ {"display"}
  /\ UNCHANGED <<hand, read, queue, owner, readThreadExit, inCodec, failed,
                 history>>

Decoder == DequeVideo \/ Decode \/ DecodeFails \/ EnqueFrame
           \/ EnqueFrameFails \/ ExitFrame

-----------------------------------------------------------------------------
(* localVideoFrameShowThread *)

DequeFrame ==
  /\ \/ Take("display", "frame") /\ Goto("display", "deque", "show")
     \/ Sleep("display", "frame") /\ pc["display"] = "deque" /\ UNCHANGED pc
     \/ GiveUp("display", "frame") /\ Goto("display", "deque", "done")
  /\ UNCHANGED <<read, flags, inCodec, failed>>

Show ==
  /\ Goto("display", "show", "deque")
  /\ hand' = [hand EXCEPT !["display"] = 0]
  /\ UNCHANGED <<read, queue, owner, asleep, flags, inCodec, failed, history>>

(* XCreateImage failed. *)
ShowFails ==
  /\ Fails("display", "show", "done")
  /\ UNCHANGED <<hand, read, queue, owner, asleep, flags, inCodec, history>>

Display == DequeFrame \/ Show \/ ShowFails

-----------------------------------------------------------------------------
(* localAudioPacketPlayThread *)

(* audioParamInit and initPcmDevice. *)
PcmInit ==
  /\ \/ Goto("speaker", "init", "deque") /\ UNCHANGED failed
     \/ Fails("speaker", "init", "done")
  /\ UNCHANGED <<hand, read, queue, owner, asleep, flags, inCodec, history>>

DequeAudio ==
  /\ \/ Take("speaker", "audio") /\ Goto("speaker", "deque", "play")
        /\ UNCHANGED failed
     \/ Take("speaker", "audio") /\ Fails("speaker", "deque", "done")
     \/ Sleep("speaker", "audio") /\ pc["speaker"] = "deque"
        /\ UNCHANGED <<pc, failed>>
     \/ GiveUp("speaker", "audio") /\ Goto("speaker", "deque", "done")
        /\ UNCHANGED failed
  /\ UNCHANGED <<read, flags, inCodec>>

(* The packet is decoded and its samples, if any, are written to the       *)
(* device; a failure of either ends the thread. *)
Play ==
  /\ \/ Goto("speaker", "play", "deque") /\ UNCHANGED failed
     \/ Fails("speaker", "play", "done")
  /\ hand' = [hand EXCEPT !["speaker"] = 0]
  /\ UNCHANGED <<read, queue, owner, asleep, flags, inCodec, history>>

Speaker == PcmInit \/ DequeAudio \/ Play

-----------------------------------------------------------------------------
(* A wait may return although nobody broadcast. *)
SpuriousWake ==
  /\ \E t \in asleep : asleep' = asleep \ {t}
  /\ UNCHANGED <<pc, hand, read, queue, owner, flags, inCodec, failed,
                 history>>

(* main: thpool_wait returns when the four jobs have (JobPool!EndWait);    *)
(* the pool is destroyed and mediaDeinit frees the contexts. *)
Main ==
  /\ \A t \in Jobs : pc[t] = "done"
  /\ Goto("main", "wait", "done")
  /\ UNCHANGED <<hand, read, queue, owner, asleep, flags, inCodec, failed,
                 history>>

(* The program exits, or it hangs: the reader waits for a mutex that the   *)
(* speaker took along.                                                     *)
ReaderStuck == pc["reader"] = "exitAudio" /\ owner["audio"] = "speaker"
Stopped == /\ pc["main"] = "done" \/ ReaderStuck
           /\ UNCHANGED vars

Next == Reader \/ Decoder \/ Display \/ Speaker \/ SpuriousWake \/ Main
        \/ Stopped

Spec == Init /\ [][Next]_vars

(* The workers of the pool are threads of their own, each is scheduled.    *)
(* The reader is not owed more packets: the file ends.                     *)
FairSpec ==
  /\ Spec
  /\ WF_vars(Reader) /\ WF_vars(Decoder) /\ WF_vars(Display)
  /\ WF_vars(Speaker) /\ WF_vars(Main)

-----------------------------------------------------------------------------
(* Properties *)

ReaderPC == {"read", "video", "audio", "exitVideo", "exitAudio", "done"}
DecoderPC == {"deque", "decode", "enque", "exit", "done"}
DisplayPC == {"deque", "show", "done"}
SpeakerPC == {"init", "deque", "play", "done"}
MainPC == {"wait", "done"}

(* Every variable has its type. *)
TypeOK ==
  /\ pc \in [Threads -> ReaderPC \cup DecoderPC \cup DisplayPC \cup SpeakerPC
                           \cup MainPC]
  /\ pc["reader"] \in ReaderPC /\ pc["decoder"] \in DecoderPC
  /\ pc["display"] \in DisplayPC /\ pc["speaker"] \in SpeakerPC
  /\ pc["main"] \in MainPC
  /\ hand \in [Jobs -> 0..MaxPackets]
  /\ read \in 0..MaxPackets
  /\ queue \in [Lists -> Seq(1..MaxPackets)]
  /\ owner \in [Lists -> Jobs \cup {"free"}]
  /\ asleep \subseteq {"decoder", "display", "speaker"}
  /\ readThreadExit \in BOOLEAN /\ decThreadExit \in BOOLEAN
  /\ inCodec \in SUBSET (1..MaxPackets)
  /\ failed \in SUBSET Jobs
  /\ sent \in [Lists -> Seq(1..MaxPackets)]
  /\ got \in [Lists -> Seq(1..MaxPackets)]

(* A thread that returned with a mutex locked does no harm but in one      *)
(* case: whoever else uses that mutex has used it for the last time, and   *)
(* only the reader may still want the mutex of the audio packets, once.    *)
MutexLeakContained ==
  /\ owner["video"] # "free" => pc["reader"] \in {"exitAudio", "done"}
  /\ owner["frame"] # "free" => pc["decoder"] = "done"
  /\ owner["audio"] # "free" => pc["reader"] \in {"exitAudio", "done"}
  /\ \A q \in Lists : owner[q] # "free" =>
       owner[q] = Consumer(q) /\ pc[Consumer(q)] \in {"exit", "done"}

(* A consumer that sleeps will be woken: its list is empty, and either its *)
(* producer has not said that it is gone or it has still to broadcast.     *)
SleeperHasWaker ==
  \A q \in Lists : Consumer(q) \in asleep =>
    /\ pc[Consumer(q)] = "deque"
    /\ queue[q] = <<>>
    /\ \/ ~ProducerGone(q)
       \/ q = "audio" /\ pc["reader"] = "exitAudio" /\ owner[q] = "free"

(* The exit flags cut nothing off: a consumer that stopped without a       *)
(* failure of its own has taken all that its producer ever put into the    *)
(* list, and no more will come.                                            *)
NothingCutOff ==
  \A q \in Lists :
    pc[Consumer(q)] \in {"exit", "done"} /\ Consumer(q) \notin failed =>
      /\ got[q] = sent[q]
      /\ pc[Producer(q)] \in {"exitAudio", "done"}

(* What was sent was taken in order, once, without gaps, whatever failed;  *)
(* the frames on their way to the display are pictures of distinct video   *)
(* packets that were decoded.                                              *)
InOrder ==
  /\ \A q \in Lists : got[q] \o queue[q] = sent[q]
  /\ \A q \in {"video", "audio"} : \A i, k \in 1..Len(sent[q]) :
       i < k => sent[q][i] < sent[q][k]
  /\ \A i, k \in 1..Len(sent["frame"]) :
       /\ \E n \in 1..Len(got["video"]) : sent["frame"][i] = got["video"][n]
       /\ i # k => sent["frame"][i] # sent["frame"][k]

(* The player comes to its end, whatever fails on the way, unless the      *)
(* reader is stuck at the mutex that the speaker took along.               *)
PlayerReturns == <>(pc["main"] = "done" \/ ReaderStuck)
=============================================================================
