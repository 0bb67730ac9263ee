------------------------------ MODULE GopOrder ------------------------------
(***************************************************************************)
(* encoding2display_order of src/hwEncode/testDemo/encodeTest.c: which     *)
(* picture, counted in display order, is encoded as the e-th one, and how. *)
(***************************************************************************)
EXTENDS Integers

CONSTANTS
  intra_period,      \* distance of I pictures, 0 for none
  intra_idr_period,  \* distance of IDR pictures, 0 for the first one only
  ip_period          \* distance of P pictures, one more than the Bs between

(* With I pictures among the others, intra_period / ip_period is a divisor. *)
ASSUME PeriodsAssumption ==
  /\ intra_period \in Nat /\ intra_idr_period \in Nat
  /\ ip_period \in Nat \ {0}
  /\ intra_period \in {0, 1} \/ ip_period <= intra_period

(* Without I pictures there are no IDR pictures but the first. *)
IdrPeriod == IF intra_period = 0 THEN 0 ELSE intra_idr_period

(* encoding_order_gop: the place of picture e in its group. *)
GopPlace(e) ==
  IF IdrPeriod = 0 THEN e
  ELSE e % (IdrPeriod + IF ip_period = 1 THEN 0 ELSE 1)

AllIntraIdr(e) == IF intra_idr_period = 0 THEN e = 0
                                          ELSE e % intra_idr_period = 0

(* B pictures are between two Ps, and are encoded after both. *)
IsB(e) == GopPlace(e) # 0 /\ (GopPlace(e) - 1) % ip_period # 0

IsI(e) ==
  /\ intra_period # 0
  /\ GopPlace(e) >= 2
  /\ \/ ip_period = 1 /\ GopPlace(e) % intra_period = 0
     \/ /\ ip_period >= 2
        /\ ((GopPlace(e) - 1) \div ip_period)
             % (intra_period \div ip_period) = 0

FrameType(e) ==
  CASE intra_period = 1 -> IF AllIntraIdr(e) THEN "IDR" ELSE "I"
    [] intra_period # 1 /\ GopPlace(e) = 0 -> "IDR"
    [] intra_period # 1 /\ IsB(e) -> "B"
    [] OTHER -> IF IsI(e) THEN "I" ELSE "P"

DisplayOrder(e) ==
  CASE intra_period = 1 \/ GopPlace(e) = 0 -> e
    [] intra_period # 1 /\ IsB(e) -> e - 1
    [] OTHER -> e + ip_period - 1
=============================================================================
