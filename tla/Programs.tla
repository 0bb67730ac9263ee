------------------------------ MODULE Programs ------------------------------
(***************************************************************************)
(* The parts of the repository that run by themselves, one at a time: the  *)
(* variable program says which one, and the others stay at their start.    *)
(*                                                                         *)
(*   player       the audio and video player (Init, Next and vars)         *)
(*   context      the ids of the VA objects over a change of the format    *)
(*   demo         the three decoder demos                                  *)
(*   pictures     the parameters and the headers of the encoder's pictures *)
(*   rows, pieces the push reader of libpng                                *)
(*   arrays       a virtual array of libjpeg                               *)
(*   writing      the rows on their way into its compressor                *)
(*   reading      and out of its decompressor                              *)
(***************************************************************************)
EXTENDS MediaPlayer, VaContext, Decoders, PictureParams, PngRows, PngPush,
        VirtualArray, JpegPrep, JpegRead

VARIABLE program

programVars == <<program, vars, vaVars, demoVars, ppVars, pngRowVars,
                 pngPushVars, virtVars, jpgVars, jrdVars>>

(* A program that is not the one that runs starts in some one way. *)
Idle(name, oneWay) == program = name \/ oneWay

ProgramsInit ==
  /\ program \in {"player", "context", "demo", "pictures",
                  "rows", "pieces", "arrays", "writing", "reading"}
  /\ Init
  /\ VaInit
  /\ DemoInit
  /\ Idle("pictures", /\ ppShape = CHOOSE shape \in Shapes : TRUE
                      /\ TO_DEL = TRUE /\ frame_width = 32) /\ PpInit
  /\ Idle("rows", pngHead = [width |-> 1, height |-> 1,
                             interlaced |-> FALSE, expand |-> FALSE])
  /\ RowsInit
  /\ Idle("pieces", /\ pngPause = "no"
                    /\ pngFile = CHOOSE file \in Files : TRUE) /\ PushInit
  /\ VirtInit
  /\ Idle("arrays", virt.rows_in_array = 1 /\ virt.maxaccess = 1
                    /\ virt.pre_zero)
  /\ JpgInit
  /\ Idle("writing", jpg = [image_height |-> 1, max_v_samp_factor |-> 1,
                           groups |-> 1, need_context_rows |-> FALSE,
                           reduced |-> FALSE])
  /\ JrdInit
  /\ Idle("reading", jrd = [output_height |-> 1, max_v_samp_factor |-> 1,
                           groups |-> 1, merged |-> FALSE,
                           quantize |-> "no"])

Runs(name, step) == program = name /\ step

ProgramsNext ==
  \/ /\ Runs("player", Next)
     /\ UNCHANGED <<program, vaVars, demoVars, ppVars, pngRowVars, pngPushVars,
                    virtVars, jpgVars, jrdVars>>
  \/ /\ Runs("context", VaNext \/ (VaEnded /\ UNCHANGED vaVars))
     /\ UNCHANGED <<program, vars, demoVars, ppVars, pngRowVars, pngPushVars,
                    virtVars, jpgVars, jrdVars>>
  \/ /\ Runs("demo", DemoNext \/ (DemoEnded /\ UNCHANGED demoVars))
     /\ UNCHANGED <<program, vars, vaVars, ppVars, pngRowVars, pngPushVars,
                    virtVars, jpgVars, jrdVars>>
  \/ /\ Runs("pictures", PpNext \/ (PpEnded /\ UNCHANGED ppVars))
     /\ UNCHANGED <<program, vars, vaVars, demoVars, pngRowVars, pngPushVars,
                    virtVars, jpgVars, jrdVars>>
  \/ /\ Runs("rows", RowsNext \/ RowsEnded)
     /\ UNCHANGED <<program, vars, vaVars, demoVars, ppVars, pngPushVars,
                    virtVars, jpgVars, jrdVars>>
  \/ /\ Runs("pieces", PushNext \/ PushEnded)
     /\ UNCHANGED <<program, vars, vaVars, demoVars, ppVars, pngRowVars,
                    virtVars, jpgVars, jrdVars>>
  \/ /\ Runs("arrays", VirtNext \/ (VirtEnded /\ UNCHANGED virtVars))
     /\ UNCHANGED <<program, vars, vaVars, demoVars, ppVars, pngRowVars,
                    pngPushVars, jpgVars, jrdVars>>
  \/ /\ Runs("writing", JpgNext \/ (JpgEnded /\ UNCHANGED jpgVars))
     /\ UNCHANGED <<program, vars, vaVars, demoVars, ppVars, pngRowVars,
                    pngPushVars, virtVars, jrdVars>>
  \/ /\ Runs("reading", JrdNext \/ (JrdEnded /\ UNCHANGED jrdVars))
     /\ UNCHANGED <<program, vars, vaVars, demoVars, ppVars, pngRowVars,
                    pngPushVars, virtVars, jpgVars>>

(* The threads of the player are owed what FairSpec of MediaPlayer says.   *)
(* A demo is a single thread that never waits for another, and the loop of *)
(* png_process_data runs on once it was called; the application need not   *)
(* call it.                                                                *)
ProgramsSpec ==
  /\ ProgramsInit /\ [][ProgramsNext]_programVars
  /\ WF_vars(Runs("player", Reader)) /\ WF_vars(Runs("player", Decoder))
  /\ WF_vars(Runs("player", Display)) /\ WF_vars(Runs("player", Speaker))
  /\ WF_vars(Runs("player", Main))
  /\ WF_demoVars(Runs("demo", DemoNext))
  /\ WF_pngPushVars(Runs("pieces", png_process_some_data))

(* Every variable of the other programs has its type. *)
TypesOK ==
  /\ VaTypeOK /\ DemoTypeOK /\ PpTypeOK /\ RowsTypeOK /\ PushTypeOK
  /\ VirtTypeOK /\ JpgTypeOK /\ JrdTypeOK

(* libjpeg loses no row, repeats none and takes none for another: in a     *)
(* virtual array, on the way to the compressor and back.                   *)
JpegRowsKept ==
  FileUpToDate /\ RowsReachCompressor /\ RowsLeaveDecompressor

(* The player comes to its end where it is the program that runs. *)
PlayerEnds == program = "player" => PlayerReturns

(* Nothing hangs: the player and the demos come to their end, and every    *)
(* call of png_process_data returns.                                       *)
NothingHangs == PlayerEnds /\ DemoEnds /\ CallsReturn
=============================================================================
