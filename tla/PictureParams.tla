---------------------------- MODULE PictureParams ----------------------------
(***************************************************************************)
(* What src/hwEncode/testDemo/encodeTest.c tells the driver and the stream *)
(* about a picture - frame number, picture order count, references, header *)
(* - against a decoder that has only the stream: ITU-T H.264, 7.4.3, 8.2.1 *)
(* (picture order count), 8.2.4 (reference lists) and 8.2.5 (marking).     *)
(* One step encodes one picture and decodes its header.  The driver takes  *)
(* packed headers; the profile is High, as EncoderSetup leaves it.         *)
(*                                                                         *)
(* A definition without a comment, just before the one it resembles, is a  *)
(* plausible bug of that one; no specification uses it.                    *)
(***************************************************************************)
EXTENDS Headers, FiniteSets

CONSTANTS
  SURFACE_NUM, num_ref_frames,
  Log2MaxFrameNum, Log2MaxPicOrderCntLsb,  \* at least 4
  MaxIntraPeriod, MaxIdrPeriod, MaxIpPeriod,  \* bounds on the periods
  MaxPictures                                 \* bound on frame_count

(* The code has 16 surfaces, 2 references, and fields of 16 and 8 bits.  A  *)
(* group of B pictures is short of half the range of the order count and   *)
(* of the surfaces, and the distance of the IDR pictures of that range.    *)
ASSUME PicturesAssumption ==
  /\ SURFACE_NUM \in Nat /\ num_ref_frames \in Nat \ {0, 1}
  /\ Log2MaxFrameNum \in Nat /\ 2^Log2MaxFrameNum \in Nat
  /\ Log2MaxPicOrderCntLsb \in Nat /\ 2^Log2MaxPicOrderCntLsb \in Nat
  /\ 2^Log2MaxPicOrderCntLsb <= 2^Log2MaxFrameNum
  /\ MaxIntraPeriod \in Nat /\ MaxIdrPeriod \in Nat /\ MaxIpPeriod \in Nat
  /\ MaxIdrPeriod < 2^Log2MaxPicOrderCntLsb
  /\ 2 * MaxIpPeriod <= 2^Log2MaxPicOrderCntLsb
  /\ num_ref_frames * MaxIpPeriod < SURFACE_NUM
  /\ MaxPictures \in Nat

VARIABLES
  ppShape,                 \* the three periods
  TO_DEL,                  \* whether this environment variable is set
  frame_width, frame_height,
  current_frame_encoding, current_frame_num, current_IDR_display,
  ReferenceFrames,         \* the first numShortTerm of them
  idr_pic_id,
  poc_ref,                 \* the two static variables of calc_poc
  reconstructed,           \* the picture in each reference surface
  decoder,                 \* what the decoder knows
  last                     \* the last picture: what was given to the driver
                           \* and what the decoder made of the header

encoderState == <<current_frame_num, current_IDR_display, ReferenceFrames,
                  idr_pic_id, poc_ref, reconstructed>>
ppVars == <<ppShape, TO_DEL, frame_width, frame_height,
            current_frame_encoding, encoderState, decoder, last>>

(* Both are 2 << Log2..., twice what the header announces. *)
MaxFrameNum == 2 * 2^Log2MaxFrameNum
MaxPicOrderCntLsb == 2 * 2^Log2MaxPicOrderCntLsb

Gop(intra_period, intra_idr_period, ip_period) == INSTANCE GopOrder
FrameType(e) == Gop(ppShape.intra, ppShape.idr, ppShape.ip)!FrameType(e)
DisplayOrder(e) == Gop(ppShape.intra, ppShape.idr, ppShape.ip)!DisplayOrder(e)

(* Periods as in the comment of encoding2display_order: whole groups of B  *)
(* pictures between I pictures, whole groups of those between IDRs. *)
Shapes ==
  {s \in [intra : 0..MaxIntraPeriod, idr : 0..MaxIdrPeriod,
          ip : 1..MaxIpPeriod] :
     /\ s.intra = 1 => s.ip = 1
     /\ s.intra % s.ip = 0 /\ s.idr % s.ip = 0
     /\ s.intra = 0 \/ s.idr % s.intra = 0}

(* Numbers that grow until the next IDR picture must fit their field: with *)
(* a single IDR picture the stream has to be so short that the last P      *)
(* picture, which is shown ip - 1 pictures late, has an order count in it. *)
Pictures ==
  IF ppShape.intra = 0 \/ ppShape.idr = 0
  THEN 2^Log2MaxPicOrderCntLsb - (ppShape.ip - 1)
  ELSE MaxPictures

Aligned16(n) == ((n + 15) \div 16) * 16

CropInPixels(n) == Aligned16(n) - n

Crop(n) == (Aligned16(n) - n) \div 2

seq_param ==
  [profile_idc |-> 100, constraint_set_flag |-> {3},
   log2_frame_num |-> Log2MaxFrameNum, log2_poc_lsb |-> Log2MaxPicOrderCntLsb,
   num_ref_frames |-> num_ref_frames,
   width_in_mbs |-> Aligned16(frame_width) \div 16,
   height_in_mbs |-> Aligned16(frame_height) \div 16,
   cropping |-> \/ frame_width # Aligned16(frame_width)
                \/ frame_height # Aligned16(frame_height),
   crop_right |-> Crop(frame_width),
   crop_bottom |-> Crop(frame_height)]

Nothing == [type |-> "none", nal |-> <<>>, elements |-> <<>>, poc |-> 0,
            decodedPoc |-> 0, display |-> 0, idr_display |-> 0,
            refs |-> <<>>, decodedRefs |-> <<>>, given |-> {},
            legal |-> TRUE, sidesExist |-> TRUE]

PpInit ==
  /\ ppShape \in Shapes /\ TO_DEL \in BOOLEAN
  /\ frame_width \in {32, 38} /\ frame_height = 16
  /\ current_frame_encoding = 0 /\ current_frame_num = 0
  /\ current_IDR_display = 0 /\ ReferenceFrames = <<>> /\ idr_pic_id = 0
  /\ poc_ref = [msb |-> 0, lsb |-> 0]
  /\ reconstructed = [s \in 0..SURFACE_NUM - 1 |-> -1]
  /\ decoder = [sps |-> <<>>, pps |-> <<>>, dpb |-> {}, prevFrameNum |-> 0,
                prevMsb |-> 0, prevLsb |-> 0, prevIdrId |-> -1]
  /\ last = Nothing

-----------------------------------------------------------------------------
(* The most significant part of a picture order count, from that of the    *)
(* reference picture before: calc_poc and 8.2.1.1 agree but for the range. *)
PicOrderCntMsb(lsb, prevMsb, prevLsb, range) ==
  CASE lsb < prevLsb /\ prevLsb - lsb >= range \div 2 -> prevMsb + range
    [] lsb > prevLsb /\ lsb - prevLsb > range \div 2 -> prevMsb - range
    [] OTHER -> prevMsb

(* calc_poc *)
calc_poc(type, lsb) ==
  IF type = "IDR" THEN PicOrderCntMsb(lsb, 0, 0, MaxPicOrderCntLsb)
  ELSE PicOrderCntMsb(lsb, poc_ref.msb, poc_ref.lsb, MaxPicOrderCntLsb)

(* sort_one, for values that differ: the references by rising value. *)
SortedBy(refs, value) ==
  CHOOSE list \in [1..Cardinality(refs) -> refs] :
    \A i, j \in DOMAIN list : i < j => value[list[i]] < value[list[j]]

(* sort_two: the references before the key, then those after it, each side *)
(* with the nearest first; the other way round for list 1. *)
SortedTwo(refs, poc, beforeFirst) ==
  LET before == {r \in refs : r.poc < poc}
      after == {r \in refs : r.poc > poc}
      nearBefore == SortedBy(before, [r \in before |-> -r.poc])
      nearAfter == SortedBy(after, [r \in after |-> r.poc])
  IN  IF beforeFirst THEN nearBefore \o nearAfter
                     ELSE nearAfter \o nearBefore

(* partition does not look at the ends of the array: it stays inside when  *)
(* some reference is not before the key, and some not after it. *)
SidesExist(refs, poc) ==
  /\ \E r \in refs : r.poc < poc
  /\ \E r \in refs : r.poc > poc

(* update_RefPicList: the lists of a picture, of a set of references. *)
update_RefPicList(type, refs, poc) ==
  CASE type = "P" -> <<SortedBy(refs, [r \in refs |-> -r.frame_idx])>>
    [] type = "B" -> <<SortedTwo(refs, poc, TRUE), SortedTwo(refs, poc, FALSE)>>
    [] OTHER -> <<>>

(* Of each list the driver uses the first entry: num_ref_idx_l0_active_    *)
(* minus1 and num_ref_idx_l1_active_minus1 are 0. *)
Active(lists) == [l \in 1..Len(lists) |-> lists[l][1]]

(* pic_param.ReferenceFrames *)
Given(lists, refs) == IF TO_DEL THEN ToSet(Active(lists)) ELSE refs

UpdateReferencesUncapped(type, refs, cur) ==
  IF type = "B" THEN refs ELSE <<cur>> \o refs

UpdateReferencesAtEnd(type, refs, cur) ==
  IF type = "B" \/ Len(refs) = num_ref_frames THEN refs ELSE Append(refs, cur)

UpdateReferencesAlways(type, refs, cur) ==
  SubSeq(<<cur>> \o refs, 1, IF Len(refs) < num_ref_frames THEN Len(refs) + 1
                                                           ELSE num_ref_frames)

(* update_ReferenceFrames *)
update_ReferenceFrames(type, refs, cur) ==
  IF type = "B" THEN refs
  ELSE SubSeq(<<cur>> \o refs, 1,
              IF Len(refs) < num_ref_frames THEN Len(refs) + 1
                                            ELSE num_ref_frames)

NextFrameNumCountsB(type, n) == IF n + 1 > MaxFrameNum THEN 0 ELSE n + 1

NextFrameNum(type, n) ==
  CASE type = "B" -> n
    [] type # "B" /\ n + 1 > MaxFrameNum -> 0
    [] OTHER -> n + 1

IdrDisplayFirst(type, display) == current_IDR_display

IdrDisplay(type, display) ==
  IF type = "IDR" THEN display ELSE current_IDR_display

NextIdrPicId(type) ==
  IF type = "IDR" /\ current_frame_encoding # 0 THEN idr_pic_id + 1
                                                ELSE idr_pic_id

-----------------------------------------------------------------------------
(* The decoder.  dpb: the set of its short-term references, each one       *)
(* [frame_num, poc, display].                                              *)
FieldRange(sps, name) == 2^(sps[name] + 4)

(* 7.4.3: frame numbers have no gaps, and an IDR picture that follows an   *)
(* IDR picture has another idr_pic_id. *)
LegalNumbers(h, idr, sps) ==
  IF idr THEN h["frame_num"] = 0 /\ h["idr_pic_id"] # decoder.prevIdrId
  ELSE h["frame_num"] = (decoder.prevFrameNum + 1)
                          % FieldRange(sps, "log2_max_frame_num_minus4")

(* 8.2.4.2: by falling picture number, or around the picture order count;  *)
(* of two equal lists of more than one entry the second is changed. *)
DecodedLists(h, dpb, poc, sps) ==
  LET wrap(f) == IF f.frame_num > h["frame_num"]
                 THEN f.frame_num - FieldRange(sps, "log2_max_frame_num_minus4")
                 ELSE f.frame_num
      l0 == SortedTwo(dpb, poc, TRUE)
      l1 == SortedTwo(dpb, poc, FALSE)
  IN  CASE h["slice_type"] = 0 -> <<SortedBy(dpb, [f \in dpb |-> -wrap(f)])>>
        [] h["slice_type"] = 1 ->
             <<l0, IF Len(l1) > 1 /\ l0 = l1
                   THEN <<l1[2], l1[1]>> \o SubSeq(l1, 3, Len(l1)) ELSE l1>>
        [] OTHER -> <<>>

(* 8.2.5.3: the sliding window drops the reference with the smallest       *)
(* frame number, when all have been numbered since the last IDR picture. *)
SlidingWindow(dpb, f, size) ==
  LET oldest == CHOOSE r \in dpb : \A q \in dpb : r.frame_num <= q.frame_num
  IN  {f} \union IF Cardinality(dpb) < size THEN dpb ELSE dpb \ {oldest}

(* Decode the header of a picture that is shown as display. *)
DecodeHeader(nal, elements, sps, pps, display, givenRefs, base) ==
  LET h == Dictionary(elements)
      idr == nal.nal_unit_type = 5
      range == FieldRange(sps, "log2_max_pic_order_cnt_lsb_minus4")
      lsb == h["pic_order_cnt_lsb"] % range
      dpb == IF idr THEN {} ELSE decoder.dpb
      msb == IF idr THEN 0
             ELSE PicOrderCntMsb(lsb, decoder.prevMsb, decoder.prevLsb, range)
      f == [frame_num |-> h["frame_num"], poc |-> msb + lsb,
            display |-> display]
      lists == DecodedLists(h, dpb, msb + lsb, sps)
      isRef == nal.nal_ref_idc # 0
  IN  /\ decoder' =
           [sps |-> sps, pps |-> pps,
            dpb |-> IF isRef THEN SlidingWindow(dpb, f, sps["num_ref_frames"])
                             ELSE dpb,
            prevFrameNum |-> IF isRef THEN h["frame_num"]
                                      ELSE decoder.prevFrameNum,
            prevMsb |-> IF isRef THEN msb ELSE decoder.prevMsb,
            prevLsb |-> IF isRef THEN lsb ELSE decoder.prevLsb,
            prevIdrId |-> IF idr THEN h["idr_pic_id"] ELSE -1]
      /\ last' = [base EXCEPT
                    !.decodedPoc = msb + lsb,
                    !.legal = LegalNumbers(h, idr, sps),
                    !.decodedRefs = [l \in 1..Len(lists) |->
                                       IF lists[l] = <<>> THEN -1
                                       ELSE lists[l][1].display]]

-----------------------------------------------------------------------------
(* One round of encode_frames: the picture is rendered with what was left  *)
(* by the pictures before, then becomes a reference itself. *)
EncodePicture ==
  LET e == current_frame_encoding
      type == FrameType(e)
      display == DisplayOrder(e)
      idr == type = "IDR"
      idr_display == IdrDisplay(type, display)
      frame_num == IF idr THEN 0 ELSE current_frame_num
      refs == IF idr THEN <<>> ELSE ReferenceFrames
      lsb == (display - idr_display) % MaxPicOrderCntLsb
      msb == calc_poc(type, lsb)
      cur == [picture_id |-> display % SURFACE_NUM, frame_idx |-> frame_num,
              poc |-> msb + lsb]
      held == ToSet(refs)
      lists == update_RefPicList(type, held, msb + lsb)
      nal == nal_header(type)
      elements == slice_header(type, [frame_num |-> frame_num,
                                      poc |-> msb + lsb,
                                      idr_pic_id |-> NextIdrPicId(type)],
                               seq_param, 1)
      sps == IF idr THEN Dictionary(sps_rbsp(seq_param)) ELSE decoder.sps
      pps == IF idr THEN Dictionary(pps_rbsp(1)) ELSE decoder.pps
  IN  /\ e < Pictures
      /\ current_frame_encoding' = e + 1
      /\ current_frame_num' = NextFrameNum(type, frame_num)
      /\ current_IDR_display' = idr_display
      /\ ReferenceFrames' = update_ReferenceFrames(type, refs, cur)
      /\ idr_pic_id' = NextIdrPicId(type)
      /\ poc_ref' = IF type = "B" THEN poc_ref ELSE [msb |-> msb, lsb |-> lsb]
      /\ reconstructed' = [reconstructed EXCEPT ![display % SURFACE_NUM] = display]
      /\ DecodeHeader(nal, elements, sps, pps, display, refs,
           [Nothing EXCEPT
              !.type = type, !.nal = nal, !.elements = elements,
              !.poc = msb + lsb, !.display = display,
              !.idr_display = idr_display,
              !.refs = [l \in 1..Len(lists) |->
                          reconstructed[Active(lists)[l].picture_id]],
              !.given = {reconstructed[r.picture_id] : r \in Given(lists, held)},
              !.sidesExist = type = "B" => SidesExist(held, msb + lsb)])
  /\ UNCHANGED <<ppShape, TO_DEL, frame_width, frame_height>>

PpNext == EncodePicture
PpEnded == current_frame_encoding = Pictures

PpSpec == PpInit /\ [][PpNext \/ (PpEnded /\ UNCHANGED ppVars)]_ppVars

-----------------------------------------------------------------------------
(* Every reference the encoder keeps has a surface of its own, and their   *)
(* number is within bounds. *)
PpTypeOK ==
  /\ current_frame_encoding \in 0..Pictures
  /\ Len(ReferenceFrames) <= num_ref_frames
  /\ \A i, j \in 1..Len(ReferenceFrames) :
       ReferenceFrames[i].picture_id = ReferenceFrames[j].picture_id => i = j
  /\ reconstructed \in [0..SURFACE_NUM - 1 -> Int]

(* A decoder that follows the syntax reads the slice header as it was      *)
(* written, and no number is wider than its field: put_ui does not mask    *)
(* what it is given, so one that is would spill into the elements before.  *)
HeadersConform ==
  last.type # "none" =>
    Conforms(last.elements,
             SliceSyntax(last.nal, Dictionary(last.elements)["slice_type"],
                         decoder.sps, decoder.pps))

(* The driver predicts a picture from the pictures the decoder will        *)
(* predict it from: the surfaces behind the active entries still hold      *)
(* them, whatever was encoded since, and the driver knows of them. *)
ReferencesAgree ==
  /\ last.refs = last.decodedRefs
  /\ ToSet(last.refs) \subseteq last.given

(* Frame numbers follow each other without a gap, and neighbouring IDR     *)
(* pictures have different ids. *)
NumbersLegal == last.legal

(* The picture order count that the driver got is the one that the decoder *)
(* computes, and it is the distance from the last IDR picture on the       *)
(* screen: pictures come out in the order in which they were taken. *)
OrderCountsAgree ==
  last.poc = last.decodedPoc /\ last.poc = last.display - last.idr_display

(* sort_two never runs past its array: a B picture has a reference on      *)
(* either side of it. *)
PartitionInside == last.sidesExist

(* The size that the parameter set announces, less the cropping, is that   *)
(* of the screen, for even sizes. *)
CroppedSize ==
  decoder.sps # <<>> =>
    LET sps == decoder.sps
        crop == IF sps["frame_cropping_flag"] = 1
                THEN 2 * (sps["frame_crop_left_offset"]
                            + sps["frame_crop_right_offset"]) ELSE 0
    IN  16 * (sps["pic_width_in_mbs_minus1"] + 1) - crop = frame_width

(* A decoder that has nothing but the packed headers comes to the same     *)
(* pictures as the driver, which has the parameters of the encoder.        *)
DecoderFollows ==
  /\ HeadersConform /\ CroppedSize
  /\ NumbersLegal /\ OrderCountsAgree
  /\ ReferencesAgree /\ PartitionInside
=============================================================================
