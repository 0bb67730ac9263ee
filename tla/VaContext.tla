------------------------------ MODULE VaContext ------------------------------
(***************************************************************************)
(* The life of the VA objects of the VA player: vaapi_init,                *)
(* vaapi_init_decoder and vaapi_exit of src/hwDecodeVaapi/vaapi/vaapi.c,   *)
(* called by main and, for every new format of the stream, by get_format   *)
(* of ffmpeg.c.  The driver gives a new object any free id, also one that  *)
(* was in use before.  SurfaceRing models the ring while the format stays; *)
(* here the ring lives through changes of the format.                      *)
(*                                                                         *)
(* A definition without a comment, just before the one it resembles, is a  *)
(* plausible bug of that one; no specification uses it.                    *)
(***************************************************************************)
EXTENDS Naturals, FiniteSets, SequencesExt

CONSTANTS
  VaIds,         \* the ids of configurations and contexts, from 1 on
  SurfaceIds,    \* the ids of surfaces
  NUM_SURFACES,  \* NUM_VIDEO_SURFACES_* of the codec
  MaxFormats     \* bound on the calls of get_format

ASSUME VaAssumption ==
  /\ NUM_SURFACES \in Nat \ {0} /\ MaxFormats \in Nat
  /\ VaIds \subseteq Nat \ {0} /\ SurfaceIds \subseteq Nat \ {0}

VARIABLES
  vaPlace,                 \* the place of main
  vaapi_context,           \* whether vaapi_init made it
  config_id, context_id,   \* its fields, 0 for none
  surface_ids, surface_nums, surface_head, surface_tail,
  configs, contexts, surfaces,  \* the objects that exist in the driver
  held,                    \* the surfaces of the pictures that the codec
                           \* holds, and whether they outlived their format
  avctx,                   \* the ids in the hwaccel_context of the codec
  formats,                 \* the calls of get_format
  badDestroy,              \* some object was destroyed twice
  formatFailed, outlived   \* a change of the format failed; one happened
                           \* while the codec held a picture

ring == <<surface_ids, surface_nums, surface_head, surface_tail>>
driver == <<configs, contexts, surfaces>>
vaVars == <<vaPlace, vaapi_context, config_id, context_id, ring, driver,
            held, avctx, formats, badDestroy, formatFailed, outlived>>

Places == 0..NUM_SURFACES - 1
None == [config |-> 0, context |-> 0]

VaInit ==
  /\ vaPlace = "start" /\ vaapi_context = FALSE
  /\ config_id = 0 /\ context_id = 0
  /\ surface_ids = [p \in Places |-> 0] /\ surface_nums = 0
  /\ surface_head = 0 /\ surface_tail = 0
  /\ configs = {} /\ contexts = {} /\ surfaces = {}
  /\ held = <<>> /\ avctx = None /\ formats = 0
  /\ badDestroy = FALSE /\ formatFailed = FALSE /\ outlived = FALSE

-----------------------------------------------------------------------------
(* main does not look at the result, and set_image_format follows the      *)
(* pointer to the context, whether it is there or not. *)
vaapi_init ==
  /\ vaPlace = "start"
  /\ \/ vaapi_context' = TRUE /\ vaPlace' = "decode"
     \/ vaapi_context' = FALSE /\ vaPlace' = "crashed"
  /\ UNCHANGED <<config_id, context_id, ring, driver, held, avctx, formats,
                 badDestroy, formatFailed, outlived>>

(* The surfaces that surface_ids names now, also those put there late.     *)
Named == {surface_ids[p] : p \in 0..surface_nums - 1}

(* An id that is passed to vaDestroyConfig, vaDestroyContext or            *)
(* vaDestroySurfaces but that is no object of the driver. *)
StaleConfig == config_id \notin configs \cup {0}
StaleContext == context_id \notin contexts \cup {0}
StaleSurfaces == Named \ surfaces # {} \/ Cardinality(Named) < surface_nums

(* The driver makes surfaces in any free ids. *)
NewSurfaces(free) ==
  {s \in [Places -> free] : \A p, q \in Places : p < q => s[p] < s[q]}

(* vaapi_init_decoder without the profile or the entry point. *)
InitRefused ==
  UNCHANGED <<config_id, context_id, ring, driver, badDestroy, formatFailed,
              outlived>>

InitConfigFailsForgets ==
  /\ configs' = configs \ {config_id}
  /\ badDestroy' = (badDestroy \/ StaleConfig)
  /\ formatFailed' = TRUE /\ surface_nums' = 0
  /\ UNCHANGED <<config_id, context_id, surface_ids, surface_head,
                 surface_tail, contexts, surfaces, outlived>>

(* The attributes or vaCreateConfig fail: the old configuration is gone,   *)
(* its id is kept. *)
InitConfigFails ==
  /\ configs' = configs \ {config_id}
  /\ badDestroy' = (badDestroy \/ StaleConfig)
  /\ formatFailed' = TRUE
  /\ UNCHANGED <<config_id, context_id, ring, contexts, surfaces, outlived>>

(* The old objects are destroyed and a new configuration and, unless       *)
(* vaCreateSurfaces fails, new surfaces made. *)
Renewed(config, made) ==
  /\ config \notin configs \ {config_id}
  /\ configs' = (configs \ {config_id}) \cup {config}
  /\ badDestroy' = (badDestroy \/ StaleConfig \/ StaleContext
                      \/ StaleSurfaces)
  /\ outlived' = (outlived \/ held # <<>>)
  /\ IF made
       THEN \E s \in NewSurfaces(SurfaceIds \ (surfaces \ Named)) :
              /\ surface_ids' = s
              /\ surfaces' = (surfaces \ Named) \cup {s[p] : p \in Places}
       ELSE surfaces' = surfaces \ Named /\ UNCHANGED surface_ids

(* vaCreateSurfaces or vaCreateContext fails: what is new is left behind,  *)
(* the old ids are kept. *)
InitContextFails ==
  /\ \E config \in VaIds, made \in BOOLEAN : Renewed(config, made)
  /\ contexts' = contexts \ {context_id}
  /\ surface_nums' = 0
  /\ formatFailed' = TRUE
  /\ UNCHANGED <<config_id, context_id, surface_head, surface_tail>>

InitSucceedsStaleConfig ==
  /\ \E config \in VaIds, context \in VaIds :
       /\ Renewed(config, TRUE)
       /\ context \notin contexts \ {context_id}
       /\ contexts' = (contexts \ {context_id}) \cup {context}
       /\ context_id' = context
  /\ surface_nums' = NUM_SURFACES
  /\ UNCHANGED <<config_id, surface_head, surface_tail, formatFailed>>

(* It succeeds: the ids are stored, the number of surfaces set; the head   *)
(* and the tail of the ring stay where they are. *)
InitSucceeds ==
  /\ \E config \in VaIds, context \in VaIds :
       /\ Renewed(config, TRUE)
       /\ context \notin contexts \ {context_id}
       /\ contexts' = (contexts \ {context_id}) \cup {context}
       /\ config_id' = config /\ context_id' = context
  /\ surface_nums' = NUM_SURFACES
  /\ UNCHANGED <<surface_head, surface_tail, formatFailed>>

(* The codec asks for the format again whenever the last call failed, and  *)
(* when the stream changes.  The pictures that it still holds keep their   *)
(* surfaces in name only. *)
get_format ==
  /\ vaPlace = "decode" /\ formats < MaxFormats
  /\ formats' = formats + 1
  /\ \/ InitSucceeds
          /\ avctx' = [config |-> config_id', context |-> context_id']
     \/ (InitRefused \/ InitConfigFails \/ InitContextFails)
          /\ avctx' = None
  /\ UNCHANGED <<vaPlace, vaapi_context, held>>

-----------------------------------------------------------------------------
StepUnwrapped(place) == place + 1
Step(place) == (place + 1) % surface_nums

(* A picture in the format that get_format returned. *)
get_buffer ==
  /\ vaPlace = "decode" /\ avctx # None
  /\ Len(held) < NUM_SURFACES
  /\ held' = Append(held, surface_ids[surface_head])
  /\ surface_head' = Step(surface_head)
  /\ UNCHANGED <<vaPlace, vaapi_context, config_id, context_id, surface_ids,
                 surface_nums, surface_tail, driver, avctx, formats,
                 badDestroy, formatFailed, outlived>>

GiveBackInPlace(i) ==
  /\ held' = RemoveAt(held, i)
  /\ surface_tail' = Step(surface_tail)
  /\ UNCHANGED surface_ids

GiveBack(i) ==
  /\ held' = RemoveAt(held, i)
  /\ surface_ids' = [surface_ids EXCEPT ![surface_tail] = held[i]]
  /\ surface_tail' = Step(surface_tail)

(* The codec drops a picture, while it decodes or in avcodec_close.  With  *)
(* no surfaces the remainder of the division by 0 ends the program. *)
release_buffer ==
  /\ vaPlace \in {"decode", "close"}
  /\ \E i \in DOMAIN held :
       IF surface_nums = 0
         THEN /\ vaPlace' = "crashed"
              /\ UNCHANGED <<held, surface_ids, surface_tail>>
         ELSE GiveBack(i) /\ UNCHANGED vaPlace
  /\ UNCHANGED <<vaapi_context, config_id, context_id, surface_nums,
                 surface_head, driver, avctx, formats, badDestroy,
                 formatFailed, outlived>>

avcodec_close ==
  /\ vaPlace = "decode" /\ vaPlace' = "close"
  /\ UNCHANGED <<vaapi_context, config_id, context_id, ring, driver, held,
                 avctx, formats, badDestroy, formatFailed, outlived>>
vaapi_exit_keeps_context ==
  /\ vaPlace = "close" /\ held = <<>>
  /\ vaPlace' = "done" /\ vaapi_context' = FALSE
  /\ badDestroy' = (badDestroy \/ StaleConfig \/ StaleSurfaces)
  /\ surfaces' = surfaces \ Named /\ surface_nums' = 0
  /\ configs' = configs \ {config_id} /\ config_id' = 0
  /\ context_id' = 0
  /\ UNCHANGED <<surface_ids, surface_head, surface_tail, held, avctx,
                 contexts, formats, formatFailed, outlived>>

(* vaapi_exit, when avcodec_close has released the pictures. *)
vaapi_exit ==
  /\ vaPlace = "close" /\ held = <<>>
  /\ vaPlace' = "done" /\ vaapi_context' = FALSE
  /\ badDestroy' = (badDestroy \/ StaleConfig \/ StaleContext
                      \/ StaleSurfaces)
  /\ surfaces' = surfaces \ Named /\ surface_nums' = 0
  /\ contexts' = contexts \ {context_id} /\ context_id' = 0
  /\ configs' = configs \ {config_id} /\ config_id' = 0
  /\ UNCHANGED <<surface_ids, surface_head, surface_tail, held, avctx,
                 formats, formatFailed, outlived>>

VaNext == \/ vaapi_init \/ get_format \/ get_buffer \/ release_buffer
          \/ avcodec_close \/ vaapi_exit

VaEnded == vaPlace \in {"crashed", "done"}

VaSpec == VaInit /\ [][VaNext]_vaVars

-----------------------------------------------------------------------------
(* Properties *)

(* Every variable has its type. *)
VaTypeOK ==
  /\ vaPlace \in {"start", "decode", "close", "crashed", "done"}
  /\ vaapi_context \in BOOLEAN
  /\ config_id \in VaIds \cup {0} /\ context_id \in VaIds \cup {0}
  /\ surface_ids \in [Places -> SurfaceIds \cup {0}]
  /\ surface_nums \in {0, NUM_SURFACES}
  /\ surface_head \in Places /\ surface_tail \in Places
  /\ configs \subseteq VaIds /\ contexts \subseteq VaIds
  /\ surfaces \subseteq SurfaceIds
  /\ held \in Seq(SurfaceIds) /\ Len(held) <= NUM_SURFACES
  /\ avctx \in [config : VaIds \cup {0}, context : VaIds \cup {0}]
  /\ formats \in 0..MaxFormats
  /\ {badDestroy, formatFailed, outlived} \subseteq BOOLEAN

(* What the codec decodes with exists: the ids in its hwaccel_context are  *)
(* those of the last vaapi_init_decoder, and no failure on the way and no  *)
(* change of the format left it with destroyed ones. *)
CodecContextLive ==
  vaPlace = "decode" /\ avctx # None =>
    /\ avctx = [config |-> config_id, context |-> context_id]
    /\ config_id \in configs /\ context_id \in contexts

RingPlaces ==
  {(surface_head + k) % NUM_SURFACES : k \in 0..NUM_SURFACES - 1 - Len(held)}

(* As long as the codec held no picture when its surfaces were destroyed,  *)
(* the pictures that it holds and the places from the head on are all the  *)
(* surfaces there are, each once, although a new format does not reset the *)
(* head and the tail. *)
RingSurvivesFormats ==
  surface_nums > 0 /\ ~outlived =>
    LET free == {surface_ids[p] : p \in RingPlaces}
    IN /\ ToSet(held) \cup free \subseteq surfaces
       /\ Cardinality(ToSet(held) \cup free) = NUM_SURFACES

(* Unless a change of the format failed half way or pictures outlived      *)
(* their surfaces, every object is destroyed once, the objects that exist  *)
(* are those whose ids are stored, and vaapi_exit leaves nothing behind.   *)
ObjectsAccounted ==
  ~formatFailed /\ ~outlived =>
    /\ ~badDestroy
    /\ configs = {config_id} \ {0}
    /\ contexts = {context_id} \ {0}
    /\ Cardinality(surfaces) = surface_nums

(* The program ends before vaapi_exit only because vaapi_init failed and   *)
(* main went on, or because a picture is released after a change of the    *)
(* format failed at its surfaces or its context. *)
CrashExplained ==
  vaPlace = "crashed" => ~vaapi_context \/ (formatFailed /\ outlived)

(* Over all openings and changes of the format the player and the codec    *)
(* use the VA objects that exist, and the player crashes only where a      *)
(* failure left it without them.                                           *)
VaObjectsSound ==
  CodecContextLive /\ RingSurvivesFormats /\ ObjectsAccounted /\ CrashExplained
=============================================================================
