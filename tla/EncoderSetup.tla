---------------------------- MODULE EncoderSetup ----------------------------
(***************************************************************************)
(* What the encoder of src/hwEncode/testDemo/encodeTest.c agrees with the  *)
(* driver before the first picture and gives back after the last one:      *)
(* init_va, setup_encode, release_encode and deinit_va, in the order of    *)
(* main.  A VA call that fails ends the process (CHECK_VASTATUS).          *)
(* encode_frames is one step here; EncodePipeline and PictureParams model  *)
(* it.                                                                     *)
(*                                                                         *)
(* A definition without a comment, just before the one it resembles, is a  *)
(* plausible bug of that one; no specification uses it.                    *)
(***************************************************************************)
EXTENDS Naturals, SequencesExt

CONSTANT SURFACES  \* SURFACE_NUM, the number of coded buffers

ASSUME SurfacesAssumption == SURFACES \in Nat \ {0}

VARIABLES
  encPlace,            \* the place of main
  encSlice,            \* the driver: profiles with VAEntrypointEncSlice,
  yuv420,              \*   whether it has the format,
  encAttribs,          \*   the optional attributes it supports,
  packedKinds,         \*   and the packed headers it takes
  profilesTried,       \* i of the loop over profile_list
  h264_profile,        \* "~0" before the loop
  ip_period1,          \* ip_period was set to 1 for the profile
  h264_entropy_mode, constraint_set_flag,
  config_attrib,       \* the types of config_attrib, in order
  h264_packedheader, enc_packed_header_idx,
  sentKinds,           \* history: the packed headers that were sent
  encObjects,          \* what exists in the driver
  coded_bufs           \* how many of coded_buf exist

encDriver == <<encSlice, yuv420, encAttribs, packedKinds>>
encProfile == <<profilesTried, h264_profile, ip_period1, h264_entropy_mode,
                constraint_set_flag>>
encConfig == <<config_attrib, h264_packedheader, enc_packed_header_idx>>
encVars == <<encPlace, encDriver, encProfile, encConfig, encObjects,
             coded_bufs, sentKinds>>
encMade == <<encObjects, coded_bufs, sentKinds>>

profile_list == <<"High", "Main", "Baseline", "ConstrainedBaseline">>
Attribs == {"RateControl", "EncPackedHeaders", "EncInterlaced"}
Kinds == {"SEQUENCE", "PICTURE", "SLICE"}

EncInit ==
  /\ encPlace = "vaInitialize"
  /\ encSlice \in SUBSET ToSet(profile_list) /\ yuv420 \in BOOLEAN
  /\ encAttribs \in SUBSET Attribs /\ packedKinds \in SUBSET Kinds
  /\ profilesTried = 0 /\ h264_profile = "~0" /\ ip_period1 = FALSE
  /\ h264_entropy_mode = 1 /\ constraint_set_flag = {}
  /\ config_attrib = <<>> /\ h264_packedheader = FALSE
  /\ enc_packed_header_idx = 0
  /\ encObjects = {} /\ coded_bufs = 0 /\ sentKinds = {}

-----------------------------------------------------------------------------
(* CHECK_VASTATUS: any call of the driver may fail, and then exit(1). *)
VaCallFails ==
  /\ encPlace \in {"vaInitialize", "attributes", "config", "src_surface",
                   "ref_surface", "context", "coded_buf", "encode"}
  /\ encPlace' = "exit"
  /\ UNCHANGED <<encDriver, encProfile, encConfig, encMade>>

vaInitialize ==
  /\ encPlace = "vaInitialize" /\ encPlace' = "profiles"
  /\ encObjects' = {"display"}
  /\ UNCHANGED <<encDriver, encProfile, encConfig, coded_bufs, sentKinds>>

TryAnyProfile ==
  /\ encPlace = "profiles" /\ profilesTried < Len(profile_list)
  /\ LET p == profile_list[profilesTried + 1]
     IN  /\ h264_profile' = p
         /\ encPlace' = IF p \in encSlice THEN "profile" ELSE "profiles"
         /\ profilesTried' = profilesTried + 1
  /\ UNCHANGED <<encDriver, encConfig, encMade, ip_period1,
                 h264_entropy_mode, constraint_set_flag>>

(* One round of the loop over profile_list.  The profile that is tried is  *)
(* written to h264_profile, which the next rounds take for the user's      *)
(* choice. *)
TryProfile ==
  /\ encPlace = "profiles" /\ profilesTried < Len(profile_list)
  /\ LET p == profile_list[profilesTried + 1]
     IN  /\ IF h264_profile \notin {"~0", p}
            THEN UNCHANGED <<h264_profile, encPlace>>
            ELSE /\ h264_profile' = p
                 /\ encPlace' = IF p \in encSlice THEN "profile" ELSE encPlace
         /\ profilesTried' = profilesTried + 1
  /\ UNCHANGED <<encDriver, encConfig, encMade, ip_period1,
                 h264_entropy_mode, constraint_set_flag>>

(* "Can't find VAEntrypointEncSlice for H264 profiles" *)
NoProfile ==
  /\ encPlace = "profiles" /\ profilesTried = Len(profile_list)
  /\ encPlace' = "noProfile"
  /\ UNCHANGED <<encDriver, encProfile, encConfig, encMade>>

(* The switch over h264_profile; the flags are the bits that are set. *)
UseProfile ==
  /\ encPlace = "profile" /\ encPlace' = "attributes"
  /\ ip_period1' = (h264_profile \in {"Baseline", "ConstrainedBaseline"})
  /\ h264_entropy_mode' = IF h264_profile = "Baseline" THEN 0
                                                       ELSE h264_entropy_mode
  /\ constraint_set_flag' =
       CASE h264_profile = "Baseline" -> {0}
         [] h264_profile = "ConstrainedBaseline" -> {0, 1}
         [] h264_profile = "Main" -> {1}
         [] h264_profile = "High" -> {3}
  /\ UNCHANGED <<encDriver, encConfig, encMade, profilesTried,
                 h264_profile>>

(* The attributes that the driver supports, in the order of the code.  A   *)
(* driver without the format ends the process. *)
IfSupported(a) == IF a \in encAttribs THEN <<a>> ELSE <<>>
BeforePacked == <<"RTFormat">> \o IfSupported("RateControl")
Configured == BeforePacked \o IfSupported("EncPackedHeaders")
                           \o IfSupported("EncInterlaced")

PackedIdxAtEnd == Len(Configured) - 1

(* enc_packed_header_idx: config_attrib_num when the attribute is added. *)
PackedIdx == Len(BeforePacked)

vaGetConfigAttributes ==
  /\ encPlace = "attributes"
  /\ IF ~yuv420 THEN encPlace' = "exit" /\ UNCHANGED encConfig
     ELSE /\ encPlace' = "config"
          /\ config_attrib' = Configured
          /\ h264_packedheader' = ("EncPackedHeaders" \in encAttribs)
          /\ enc_packed_header_idx' = IF h264_packedheader' THEN PackedIdx
                                                            ELSE 0
  /\ UNCHANGED <<encDriver, encProfile, encMade>>

-----------------------------------------------------------------------------
(* setup_encode: the objects, one call each, and a coded buffer for every  *)
(* slot. *)
Made == <<"config", "src_surface", "ref_surface", "context">>

CreateObject ==
  /\ \E i \in 1..Len(Made) :
       /\ encPlace = Made[i]
       /\ encObjects' = encObjects \cup {Made[i]}
       /\ encPlace' = IF i < Len(Made) THEN Made[i + 1] ELSE "coded_buf"
  /\ UNCHANGED <<encDriver, encProfile, encConfig, coded_bufs, sentKinds>>

CreateCodedBuf ==
  /\ encPlace = "coded_buf"
  /\ coded_bufs' = coded_bufs + 1
  /\ encPlace' = IF coded_bufs' < SURFACES THEN "coded_buf" ELSE "encode"
  /\ UNCHANGED <<encDriver, encProfile, encConfig, encObjects, sentKinds>>

(* What render_slice finds under enc_packed_header_idx. *)
SlicesPacked ==
  /\ h264_packedheader
  /\ config_attrib[enc_packed_header_idx + 1] = "EncPackedHeaders"
  /\ "SLICE" \in packedKinds

(* encode_frames.  Packed parameter sets are sent to every driver that     *)
(* knows packed headers, packed slices only to one that takes them. *)
encode_frames ==
  /\ encPlace = "encode" /\ encPlace' = "release"
  /\ sentKinds' = (IF h264_packedheader THEN {"SEQUENCE", "PICTURE"} ELSE {})
                     \cup (IF SlicesPacked THEN {"SLICE"} ELSE {})
  /\ UNCHANGED <<encDriver, encProfile, encConfig, encObjects, coded_bufs>>

ReleaseOnePast ==
  /\ encPlace = "release" /\ encPlace' = "deinit"
  /\ encObjects' = {"display"} /\ coded_bufs' = 1
  /\ UNCHANGED <<encDriver, encProfile, encConfig, sentKinds>>

(* release_encode; the results of the calls are not looked at. *)
release_encode ==
  /\ encPlace = "release" /\ encPlace' = "deinit"
  /\ encObjects' = {"display"} /\ coded_bufs' = 0
  /\ UNCHANGED <<encDriver, encProfile, encConfig, sentKinds>>

deinit_va ==
  /\ encPlace = "deinit" /\ encPlace' = "done"
  /\ encObjects' = encObjects \ {"display"}
  /\ UNCHANGED <<encDriver, encProfile, encConfig, coded_bufs, sentKinds>>

EncNext ==
  \/ vaInitialize \/ TryProfile \/ NoProfile \/ UseProfile
  \/ vaGetConfigAttributes \/ CreateObject \/ CreateCodedBuf
  \/ encode_frames \/ release_encode \/ deinit_va \/ VaCallFails

EncSpec == EncInit /\ [][EncNext]_encVars

EncEnded == encPlace \in {"done", "exit", "noProfile"}

-----------------------------------------------------------------------------
(* Objects are made in the order in which they need each other: whatever   *)
(* exists, all that comes before it exists too, also while the process is  *)
(* being left.  Released are all, and only once. *)
EncTypeOK ==
  /\ h264_profile \in ToSet(profile_list) \cup {"~0"}
  /\ encObjects \subseteq ToSet(Made) \cup {"display"}
  /\ coded_bufs \in 0..SURFACES
  /\ \A i \in 1..Len(Made) - 1 :
       Made[i + 1] \in encObjects => Made[i] \in encObjects
  /\ coded_bufs > 0 => "context" \in encObjects
  /\ encPlace = "done" => encObjects = {} /\ coded_bufs = 0

(* A stream is only made with tools that its profile has: the baseline     *)
(* profiles have neither B pictures nor CABAC (ITU-T H.264, A.2.1).        *)
(* ConstrainedBaseline leaves h264_entropy_mode at 1; it is the loop over  *)
(* profile_list, which never gets that far, that keeps the stream legal. *)
ToolsFitProfile ==
  encPlace \in {"encode", "release"} /\ h264_profile \notin {"High", "Main"} =>
    ip_period1 /\ h264_entropy_mode = 0

(* A driver that takes packed slice headers gets them, and no other one:   *)
(* enc_packed_header_idx finds the attribute wherever the attributes before *)
(* it put it. *)
SliceHeadersAgreed ==
  encPlace = "release" =>
    ("SLICE" \in sentKinds
       <=> "EncPackedHeaders" \in encAttribs /\ "SLICE" \in packedKinds)

(* What init_va found out of the driver and what the encoder then sends to *)
(* it fit together.                                                        *)
DriverAgreed == ToolsFitProfile /\ SliceHeadersAgreed
=============================================================================
