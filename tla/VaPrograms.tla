----------------------------- MODULE VaPrograms -----------------------------
(***************************************************************************)
(* The programs that work on a driver of libva, one at a time: the         *)
(* variable program says which one, and the others stay at their start.    *)
(*                                                                         *)
(*   player    the VA-API player with its ring of surfaces                 *)
(*   encoder   the two threads of the H.264 encoder (Init, Next and vars)  *)
(*   setup     what the encoder agrees with the driver                     *)
(*   bits      the bit writer of the encoder                               *)
(***************************************************************************)
EXTENDS VaPlayer, EncodePipeline, EncoderSetup, Bitstream

VARIABLE program

programVars == <<program, playerVars, vars, encVars, bsVars>>

(* A program that is not the one that runs starts in some one way. *)
Idle(name, oneWay) == program = name \/ oneWay

ProgramsInit ==
  /\ program \in {"player", "encoder", "setup", "bits"}
  /\ PlayerInit
  /\ Idle("player", image_empty = CHOOSE list \in SetToSeqs(Entries) : TRUE)
  /\ Init
  /\ Idle("setup", /\ encSlice = {} /\ yuv420 = TRUE
                   /\ encAttribs = {} /\ packedKinds = {}) /\ EncInit
  /\ Idle("bits", junk = 0) /\ BsInit

Runs(name, step) == program = name /\ step

ProgramsNext ==
  \/ /\ Runs("player", PlayerNext)
     /\ UNCHANGED <<program, vars, encVars, bsVars>>
  \/ /\ Runs("encoder", Next)
     /\ UNCHANGED <<program, playerVars, encVars, bsVars>>
  \/ /\ Runs("setup", EncNext \/ (EncEnded /\ UNCHANGED encVars))
     /\ UNCHANGED <<program, playerVars, vars, bsVars>>
  \/ /\ Runs("bits", BsNext \/ (BsEnded /\ UNCHANGED bsVars))
     /\ UNCHANGED <<program, playerVars, vars, encVars>>

(* The threads of the two programs that have several are scheduled, as     *)
(* FairSpec says for the encoder; nothing is owed a spurious wakeup.       *)
ProgramsSpec ==
  /\ ProgramsInit /\ [][ProgramsNext]_programVars
  /\ WF_playerVars(Runs("player", process = "running" /\ Decoder))
  /\ WF_playerVars(Runs("player", process = "running" /\ Display))
  /\ WF_playerVars(Runs("player", process = "running" /\ Main))
  /\ WF_vars(Runs("encoder", Encoder)) /\ WF_vars(Runs("encoder", Storer))

(* Every variable of the programs but the encoder has its type. *)
VaTypesOK == PlayerTypeOK /\ EncTypeOK /\ BsTypeOK

(* The program that runs comes as far as its threads let it: the player    *)
(* shows every picture, the encoder saves every frame.                     *)
VideoFinishes ==
  /\ program = "player" => AllShown
  /\ program = "encoder" => SavedUnlessStranded
=============================================================================
