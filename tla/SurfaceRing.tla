----------------------------- MODULE SurfaceRing -----------------------------
(***************************************************************************)
(* The ring of VA surfaces of src/hwDecodeVaapi/vaapi/ffmpeg.c.  The codec *)
(* calls get_buffer for every picture and release_buffer when it no longer *)
(* needs one, in any order, always in the thread that decodes.  A surface  *)
(* that is lent stays in surface_ids until its place is written to again.  *)
(*                                                                         *)
(* A definition without a comment, just before the one it resembles, is a  *)
(* plausible bug of that one; no specification uses it.                    *)
(***************************************************************************)
EXTENDS Naturals, Sequences, SequencesExt

CONSTANTS surface_nums  \* NUM_VIDEO_SURFACES_* of the codec

ASSUME SurfaceNumsPositive == surface_nums \in Nat \ {0}

VARIABLES
  surface_ids, surface_head, surface_tail,
  lent,   \* what the codec holds: surface, picture, and whether the codec
          \* has still to return this picture
  drawn   \* surface -> the number of the last picture decoded into it

ringVars == <<surface_ids, surface_head, surface_tail, lent, drawn>>

Surfaces == 0..surface_nums - 1
AdvanceUnwrapped(place) == place + 1
Advance(place) == (place + 1) % surface_nums

RingInit ==
  /\ surface_ids = [s \in Surfaces |-> s]
  /\ surface_head = 0 /\ surface_tail = 0
  /\ lent = <<>>
  /\ drawn = [s \in Surfaces |-> 0]

(* The codec holds no more pictures than there are surfaces: the ring does *)
(* not look. *)
get_buffer(picture) ==
  /\ Len(lent) < surface_nums
  /\ LET surface == surface_ids[surface_head]
     IN /\ lent' = Append(lent, [surface |-> surface, picture |-> picture,
                                 due |-> TRUE])
        /\ drawn' = [drawn EXCEPT ![surface] = picture]
  /\ surface_head' = Advance(surface_head)
  /\ UNCHANGED <<surface_ids, surface_tail>>

(* av_buffer_create failed. *)
get_buffer_fails ==
  /\ Len(lent) < surface_nums
  /\ surface_head' = Advance(surface_head)
  /\ surface_ids' = [surface_ids EXCEPT
                       ![surface_tail] = surface_ids[surface_head]]
  /\ surface_tail' = Advance(surface_tail)
  /\ UNCHANGED <<lent, drawn>>

release_buffer_in_place(i) ==
  /\ ~lent[i].due
  /\ lent' = RemoveAt(lent, i)
  /\ surface_tail' = Advance(surface_tail)
  /\ UNCHANGED <<surface_ids, surface_head, drawn>>

(* Some picture that was returned is not needed any more. *)
release_buffer(i) ==
  /\ ~lent[i].due
  /\ lent' = RemoveAt(lent, i)
  /\ surface_ids' = [surface_ids EXCEPT ![surface_tail] = lent[i].surface]
  /\ surface_tail' = Advance(surface_tail)
  /\ UNCHANGED <<surface_head, drawn>>

RingTypeOK ==
  /\ surface_ids \in [Surfaces -> Surfaces]
  /\ surface_head \in Surfaces /\ surface_tail \in Surfaces
  /\ lent \in Seq([surface : Surfaces, picture : Nat, due : BOOLEAN])
  /\ Len(lent) <= surface_nums
  /\ drawn \in [Surfaces -> Nat]

(* The places from the head on that hold surfaces that are not lent. *)
FreePlaces ==
  {(surface_head + k) % surface_nums : k \in 0..surface_nums - 1 - Len(lent)}

(* No surface is lent twice, the ring has all the others, and nothing was  *)
(* decoded into a surface while the codec still holds its picture, however *)
(* the order of the releases differs from that of the loans.               *)
SurfacesApart ==
  /\ \A i, k \in DOMAIN lent : i # k => lent[i].surface # lent[k].surface
  /\ {lent[i].surface : i \in DOMAIN lent}
       \cup {surface_ids[p] : p \in FreePlaces} = Surfaces
  /\ \A i \in DOMAIN lent : drawn[lent[i].surface] = lent[i].picture
=============================================================================
