---------------------------- MODULE ProgramProofs ----------------------------
(***************************************************************************)
(* Proofs about what Programs runs: the VA objects of the VA player, the   *)
(* three decoders of one thread, the rows out of the decompressor of       *)
(* libjpeg, the audio and video player, and the programs together, for     *)
(* every value of the constants.                                           *)
(***************************************************************************)
EXTENDS Programs, VirtualArrayProofs, PictureParamsProofs, FiniteSetTheorems

-----------------------------------------------------------------------------
(* The invariant of the player's objects *)

(* The surfaces in the hands of the codec and then those of the free       *)
(* places, from the head on. *)
Dealt(j) ==
  IF j < Len(held) THEN held[j + 1]
  ELSE surface_ids[(surface_head + (j - Len(held))) % NUM_SURFACES]

(* The tail is as many places behind the head as the codec holds pictures, *)
(* through all formats; when no picture outlived its format the surfaces   *)
(* are dealt out, each once. *)
RingWhole ==
  /\ surface_tail = (surface_head + (NUM_SURFACES - Len(held))) % NUM_SURFACES
  /\ surface_nums > 0 => surface_ids \in [Places -> SurfaceIds]
  /\ surface_nums > 0 /\ ~outlived =>
       /\ \A j \in Places : Dealt(j) \in surfaces
       /\ \A j, k \in Places : j # k => Dealt(j) # Dealt(k)

(* ObjectsAccounted, where a new format needs the set to be finite. *)
Accounted ==
  ~formatFailed /\ ~outlived =>
    /\ ~badDestroy
    /\ configs = {config_id} \ {0} /\ contexts = {context_id} \ {0}
    /\ IsFiniteSet(surfaces) /\ Cardinality(surfaces) = surface_nums

(* The codec decodes only with surfaces; that it holds pictures without    *)
(* any is the work of a failed change of the format. *)
Supplied ==
  /\ vaPlace = "start" => avctx = None
  /\ vaPlace = "decode" /\ avctx # None => surface_nums > 0
  /\ surface_nums = 0 /\ held # <<>> => formatFailed /\ outlived

VaInv ==
  /\ VaTypeOK /\ RingWhole /\ Accounted /\ Supplied
  /\ CodecContextLive /\ CrashExplained

-----------------------------------------------------------------------------
(* Facts about the ring *)

LEMMA ImageSize ==
  ASSUME NEW n \in Nat, NEW f, f = [j \in 0..n - 1 |-> f[j]],
         \A j, k \in 0..n - 1 : j # k => f[j] # f[k]
  PROVE  /\ IsFiniteSet({f[j] : j \in 0..n - 1})
         /\ Cardinality({f[j] : j \in 0..n - 1}) = n
<1> DEFINE S == 0..n - 1
           T == {f[j] : j \in S}
<1>1. IsFiniteSet(S) /\ Cardinality(S) = n
  <2>1. 0 \in Int /\ n - 1 \in Int
    OBVIOUS
  <2>2. IsFiniteSet(S) /\ Cardinality(S) = IF 0 > n - 1 THEN 0 ELSE n - 1 - 0 + 1
    BY <2>1, FS_Interval
  <2> QED
    BY <2>2
<1>2. f \in [S -> T] /\ DOMAIN f = S
  OBVIOUS
<1>3. \A j, k \in S : j # k => f[j] # f[k]
  OBVIOUS
<1> HIDE DEF S
<1>4. f \in Bijection(S, T)
  BY <1>2, <1>3 DEF Bijection, Injection, Surjection, IsInjective
<1> HIDE DEF T
<1>5. ExistsBijection(S, T)
  BY <1>4 DEF ExistsBijection
<1>6. IsFiniteSet(T) /\ Cardinality(T) = n
  BY <1>1, <1>5, FS_Bijection
<1> QED
  BY <1>6 DEF T, S

LEMMA ConstantsFit ==
  /\ NUM_SURFACES \in Nat \ {0} /\ Places = 0..NUM_SURFACES - 1
  /\ 0 \in Places /\ 0 \notin VaIds /\ 0 \notin SurfaceIds
  /\ SurfaceIds \subseteq Nat /\ VaIds \subseteq Nat
BY VaAssumption DEF Places

LEMMA HeldTyped ==
  ASSUME VaTypeOK
  PROVE  /\ held \in Seq(SurfaceIds) /\ Len(held) \in 0..NUM_SURFACES
         /\ DOMAIN held = 1..Len(held)
         /\ \A i \in 1..Len(held) : held[i] \in SurfaceIds
         /\ held = <<>> <=> Len(held) = 0
<1>1. held \in Seq(SurfaceIds) /\ Len(held) <= NUM_SURFACES
  BY DEF VaTypeOK
<1>2. Len(held) \in Nat /\ DOMAIN held = 1..Len(held)
  BY <1>1, LenProperties
<1>3. \A i \in 1..Len(held) : held[i] \in SurfaceIds
  BY <1>1, ElementOfSeq
<1>4. held = <<>> <=> Len(held) = 0
  BY <1>1, EmptySeq
<1> QED
  BY <1>1, <1>2, <1>3, <1>4, ConstantsFit

Dealing == {Dealt(j) : j \in Places}

LEMMA DealingSize ==
  ASSUME \A j, k \in Places : j # k => Dealt(j) # Dealt(k)
  PROVE  IsFiniteSet(Dealing) /\ Cardinality(Dealing) = NUM_SURFACES
<1> DEFINE f == [j \in Places |-> Dealt(j)]
<1>1. \A j \in Places : f[j] = Dealt(j)
  OBVIOUS
<1>2. f = [j \in 0..NUM_SURFACES - 1 |-> f[j]]
  BY ConstantsFit
<1>3. \A j, k \in 0..NUM_SURFACES - 1 : j # k => f[j] # f[k]
  BY <1>1, ConstantsFit
<1>4. Dealing = {f[j] : j \in 0..NUM_SURFACES - 1}
  BY <1>1, ConstantsFit DEF Dealing
<1> HIDE DEF f
<1>5. NUM_SURFACES \in Nat
  BY ConstantsFit
<1>6. /\ IsFiniteSet({f[j] : j \in 0..NUM_SURFACES - 1})
      /\ Cardinality({f[j] : j \in 0..NUM_SURFACES - 1}) = NUM_SURFACES
  BY <1>2, <1>3, <1>5, ImageSize
<1> QED
  BY <1>4, <1>6

(* What is dealt out is what RingSurvivesFormats speaks of. *)
LEMMA DealingIs ==
  ASSUME VaTypeOK
  PROVE  Dealing = ToSet(held) \cup {surface_ids[p] : p \in RingPlaces}
<1> DEFINE N == NUM_SURFACES
           L == Len(held)
           place(k) == (surface_head + k) % N
<1>1. N \in Nat \ {0} /\ L \in 0..N /\ Places = 0..N - 1
      /\ DOMAIN held = 1..L
  BY ConstantsFit, HeldTyped
<1>2. RingPlaces = {place(k) : k \in 0..N - 1 - L}
  BY DEF RingPlaces
<1>3. \A j \in Places : Dealt(j) = IF j < L THEN held[j + 1]
                                   ELSE surface_ids[place(j - L)]
  BY DEF Dealt
<1> HIDE DEF place, N, L
<1>4. ASSUME NEW j \in Places
      PROVE  Dealt(j) \in ToSet(held) \cup {surface_ids[p] : p \in RingPlaces}
  <2>1. CASE j < L
    <3>1. j + 1 \in DOMAIN held /\ Dealt(j) = held[j + 1]
      BY <2>1, <1>1, <1>3
    <3> QED
      BY <3>1 DEF ToSet
  <2>2. CASE ~(j < L)
    <3>1. j - L \in 0..N - 1 - L /\ Dealt(j) = surface_ids[place(j - L)]
      BY <2>2, <1>1, <1>3
    <3> QED
      BY <3>1, <1>2
  <2> QED
    BY <2>1, <2>2
<1>5. ASSUME NEW i \in DOMAIN held PROVE held[i] \in Dealing
  <2>1. i - 1 \in Places /\ i - 1 < L /\ (i - 1) + 1 = i
    BY <1>1
  <2>2. Dealt(i - 1) = held[i]
    BY <2>1, <1>3
  <2> QED
    BY <2>1, <2>2 DEF Dealing
<1>6. ASSUME NEW k \in 0..N - 1 - L PROVE surface_ids[place(k)] \in Dealing
  <2>1. k + L \in Places /\ ~(k + L < L) /\ (k + L) - L = k
    BY <1>1
  <2>2. Dealt(k + L) = surface_ids[place(k)]
    BY <2>1, <1>3
  <2> QED
    BY <2>1, <2>2 DEF Dealing
<1> QED
  BY <1>2, <1>4, <1>5, <1>6 DEF Dealing, ToSet

(* When the codec holds no picture all places are free. *)
LEMMA NamedDealt ==
  ASSUME VaTypeOK, held = <<>>, surface_nums > 0
  PROVE  Named = Dealing
<1>1. NUM_SURFACES \in Nat \ {0} /\ Places = 0..NUM_SURFACES - 1
      /\ surface_nums = NUM_SURFACES /\ surface_head \in Places
  BY ConstantsFit DEF VaTypeOK
<1>2. Len(held) = 0
  BY HeldTyped
<1>3. ASSUME NEW j \in Places
      PROVE  /\ Dealt(j) = surface_ids[(surface_head + j) % NUM_SURFACES]
             /\ (surface_head + j) % NUM_SURFACES \in Places
  <2>1. ~(j < 0) /\ j - 0 = j /\ j \in Nat
    BY <1>1
  <2>2. (surface_head + j) % NUM_SURFACES \in Places
    BY <1>1, <2>1, RoundFacts
  <2> QED
    BY <1>2, <2>1, <2>2 DEF Dealt
<1>4. ASSUME NEW p \in Places
      PROVE  \E j \in Places : (surface_head + j) % NUM_SURFACES = p
  BY <1>1, RoundReaches
<1>5. Named = {surface_ids[p] : p \in Places}
  BY <1>1 DEF Named
<1> QED
  BY <1>3, <1>4, <1>5 DEF Dealing

-----------------------------------------------------------------------------
(* The steps *)

LEMMA VaStarts == VaInit => VaInv
<1> SUFFICES ASSUME VaInit PROVE VaInv
  OBVIOUS
<1>1. NUM_SURFACES \in Nat \ {0} /\ 0 \in Places /\ MaxFormats \in Nat
  BY ConstantsFit, VaAssumption
<1>2. held = <<>> /\ Len(held) = 0 /\ held \in Seq(SurfaceIds)
  BY EmptySeq DEF VaInit
<1>3. VaTypeOK
  BY <1>1, <1>2 DEF VaInit, VaTypeOK, None
<1>4. RingWhole
  <2>1. 0 \in 0..NUM_SURFACES - 1 /\ 0 \in Nat
    BY <1>1
  <2>2. (0 + NUM_SURFACES) % NUM_SURFACES = 0
    BY <1>1, <2>1, RoundFacts
  <2>3. NUM_SURFACES - Len(held) = NUM_SURFACES
    BY <1>1, <1>2
  <2> QED
    BY <2>2, <2>3 DEF VaInit, RingWhole
<1>5. Accounted
  BY FS_EmptySet DEF VaInit, Accounted
<1>6. Supplied /\ CodecContextLive /\ CrashExplained
  BY DEF VaInit, Supplied, CodecContextLive, CrashExplained
<1> QED
  BY <1>3, <1>4, <1>5, <1>6 DEF VaInv

(* Nothing that RingWhole speaks of changes. *)
LEMMA RingStays ==
  ASSUME RingWhole, UNCHANGED <<ring, held, surfaces, outlived>>
  PROVE  RingWhole'
BY DEF RingWhole, Dealt, ring

LEMMA OpenKeeps ==
  ASSUME VaInv, vaapi_init PROVE VaInv'
<1>1. /\ vaPlace = "start" /\ vaPlace' \in {"decode", "crashed"}
      /\ vaapi_context' \in BOOLEAN
      /\ vaPlace' = "crashed" => ~vaapi_context'
      /\ UNCHANGED <<config_id, context_id, ring, driver, held, avctx,
                     formats, badDestroy, formatFailed, outlived>>
  BY DEF vaapi_init
<1>2. VaTypeOK'
  BY <1>1 DEF VaInv, VaTypeOK, ring, driver
<1>3. RingWhole'
  BY <1>1, RingStays DEF VaInv, driver
<1>4. Accounted'
  BY <1>1 DEF VaInv, Accounted, ring, driver
<1>5. Supplied' /\ CodecContextLive' /\ CrashExplained'
  BY <1>1 DEF VaInv, Supplied, CodecContextLive, CrashExplained, ring, None
<1> QED
  BY <1>2, <1>3, <1>4, <1>5 DEF VaInv

LEMMA CloseKeeps ==
  ASSUME VaInv, avcodec_close PROVE VaInv'
<1>1. /\ vaPlace' = "close"
      /\ UNCHANGED <<vaapi_context, config_id, context_id, ring, driver, held,
                     avctx, formats, badDestroy, formatFailed, outlived>>
  BY DEF avcodec_close
<1>2. VaTypeOK'
  BY <1>1 DEF VaInv, VaTypeOK, ring, driver
<1>3. RingWhole'
  BY <1>1, RingStays DEF VaInv, driver
<1>4. Accounted'
  BY <1>1 DEF VaInv, Accounted, ring, driver
<1>5. Supplied' /\ CodecContextLive' /\ CrashExplained'
  BY <1>1 DEF VaInv, Supplied, CodecContextLive, CrashExplained, ring
<1> QED
  BY <1>2, <1>3, <1>4, <1>5 DEF VaInv

-----------------------------------------------------------------------------
(* The surfaces that are to be destroyed exist, when nothing failed. *)
LEMMA NothingStale ==
  ASSUME VaInv, ~formatFailed, ~outlived, held = <<>>
  PROVE  /\ ~badDestroy /\ ~StaleConfig /\ ~StaleContext /\ ~StaleSurfaces
         /\ configs \ {config_id} = {} /\ contexts \ {context_id} = {}
         /\ surfaces \ Named = {}
<1>1. /\ ~badDestroy /\ configs = {config_id} \ {0}
      /\ contexts = {context_id} \ {0}
      /\ IsFiniteSet(surfaces) /\ Cardinality(surfaces) = surface_nums
  BY DEF VaInv, Accounted
<1>2. ~StaleConfig /\ ~StaleContext
      /\ configs \ {config_id} = {} /\ contexts \ {context_id} = {}
  BY <1>1 DEF StaleConfig, StaleContext
<1>3. surface_nums \in Nat /\ NUM_SURFACES \in Nat \ {0}
      /\ (surface_nums > 0 => surface_nums = NUM_SURFACES)
  BY ConstantsFit DEF VaInv, VaTypeOK
<1>4. CASE surface_nums = 0
  <2>1. Named = {}
    BY <1>4 DEF Named
  <2>2. surfaces = {} /\ Cardinality(Named) = 0
    BY <2>1, <1>1, <1>4, FS_EmptySet
  <2>3. ~StaleSurfaces
    BY <2>1, <2>2, <1>4 DEF StaleSurfaces
  <2> QED
    BY <2>2, <2>3, <1>1, <1>2
<1>5. CASE surface_nums > 0
  <2>1. Named = Dealing
    BY <1>5, NamedDealt DEF VaInv
  <2>2. /\ \A j \in Places : Dealt(j) \in surfaces
        /\ \A j, k \in Places : j # k => Dealt(j) # Dealt(k)
    BY <1>5 DEF VaInv, RingWhole
  <2>3. Cardinality(Named) = surface_nums
    BY <2>1, <2>2, <1>3, <1>5, DealingSize
  <2>4. Named \subseteq surfaces
    BY <2>1, <2>2 DEF Dealing
  <2>5. surfaces = Named
    BY <2>3, <2>4, <1>1, FS_Subset
  <2>6. ~StaleSurfaces
    BY <2>3, <2>5, <1>3 DEF StaleSurfaces
  <2> QED
    BY <2>5, <2>6, <1>1, <1>2
<1> QED
  BY <1>3, <1>4, <1>5

LEMMA ExitKeeps ==
  ASSUME VaInv, vaapi_exit PROVE VaInv'
<1>1. /\ vaPlace = "close" /\ held = <<>>
      /\ vaPlace' = "done" /\ vaapi_context' = FALSE
      /\ badDestroy' = (badDestroy \/ StaleConfig \/ StaleContext
                          \/ StaleSurfaces)
      /\ surfaces' = surfaces \ Named /\ surface_nums' = 0
      /\ contexts' = contexts \ {context_id} /\ context_id' = 0
      /\ configs' = configs \ {config_id} /\ config_id' = 0
      /\ UNCHANGED <<surface_ids, surface_head, surface_tail, held, avctx,
                     formats, formatFailed, outlived>>
  BY DEF vaapi_exit
<1>2. VaTypeOK'
  BY <1>1 DEF VaInv, VaTypeOK, StaleConfig, StaleContext, StaleSurfaces
<1>3. RingWhole'
  BY <1>1 DEF VaInv, RingWhole
<1>4. Accounted'
  <2> SUFFICES ASSUME ~formatFailed, ~outlived
               PROVE  /\ ~badDestroy' /\ configs' = {config_id'} \ {0}
                      /\ contexts' = {context_id'} \ {0}
                      /\ IsFiniteSet(surfaces')
                      /\ Cardinality(surfaces') = surface_nums'
    BY <1>1 DEF Accounted
  <2>1. /\ ~badDestroy /\ ~StaleConfig /\ ~StaleContext /\ ~StaleSurfaces
        /\ configs' = {} /\ contexts' = {} /\ surfaces' = {}
    BY <1>1, NothingStale
  <2> QED
    BY <2>1, <1>1, FS_EmptySet
<1>5. Supplied' /\ CodecContextLive' /\ CrashExplained'
  BY <1>1 DEF VaInv, Supplied, CodecContextLive, CrashExplained
<1> QED
  BY <1>2, <1>3, <1>4, <1>5 DEF VaInv

(* The new surfaces are different ones, and none of those that exist. *)
LEMMA RenewedSurfaces ==
  ASSUME VaTypeOK, NEW config, Renewed(config, TRUE)
  PROVE  /\ surface_ids' \in [Places -> SurfaceIds]
         /\ \A p, q \in Places : p # q => surface_ids'[p] # surface_ids'[q]
         /\ surfaces' = (surfaces \ Named) \cup {surface_ids'[p] : p \in Places}
         /\ surfaces' \subseteq SurfaceIds
<1>1. PICK s \in NewSurfaces(SurfaceIds \ (surfaces \ Named)) :
        /\ surface_ids' = s
        /\ surfaces' = (surfaces \ Named) \cup {s[p] : p \in Places}
  BY DEF Renewed
<1>2. /\ s \in [Places -> SurfaceIds \ (surfaces \ Named)]
      /\ \A p, q \in Places : p < q => s[p] < s[q]
  BY DEF NewSurfaces
<1>3. \A p \in Places : s[p] \in SurfaceIds
  BY <1>2
<1>4. ASSUME NEW p \in Places, NEW q \in Places, p # q PROVE s[p] # s[q]
  <2>a. p \in Int /\ q \in Int
    BY ConstantsFit
  <2>b. s[p] \in SurfaceIds /\ s[q] \in SurfaceIds
    BY <1>3
  <2>1. p \in Int /\ q \in Int /\ s[p] \in Nat /\ s[q] \in Nat
    BY <2>a, <2>b, ConstantsFit
  <2>2. p < q \/ q < p
    BY <2>1, <1>4
  <2> QED
    BY <2>1, <2>2, <1>2
<1>5. surfaces \subseteq SurfaceIds
  BY DEF VaTypeOK
<1> QED
  BY <1>1, <1>2, <1>3, <1>4, <1>5

(* What every new configuration does, whether it gets a context or not. *)
LEMMA RenewedKeeps ==
  ASSUME VaInv, NEW config \in VaIds, NEW made \in BOOLEAN,
         Renewed(config, made)
  PROVE  /\ configs' \subseteq VaIds /\ surfaces' \subseteq SurfaceIds
         /\ surface_ids' \in [Places -> SurfaceIds \cup {0}]
         /\ badDestroy' \in BOOLEAN /\ outlived' \in BOOLEAN
         /\ outlived' <=> outlived \/ held # <<>>
         /\ ~formatFailed /\ ~outlived' =>
              /\ ~badDestroy' /\ configs' = {config}
              /\ contexts \ {context_id} = {} /\ surfaces \ Named = {}
<1>1. /\ configs' = (configs \ {config_id}) \cup {config}
      /\ badDestroy' = (badDestroy \/ StaleConfig \/ StaleContext
                          \/ StaleSurfaces)
      /\ outlived' = (outlived \/ held # <<>>)
  BY DEF Renewed
<1>2. VaTypeOK
  BY DEF VaInv
<1>3. surface_ids' \in [Places -> SurfaceIds \cup {0}]
      /\ surfaces' \subseteq SurfaceIds
  <2>1. CASE made
    <3>1. Renewed(config, TRUE)
      BY <2>1 DEF Renewed
    <3>2. surface_ids' \in [Places -> SurfaceIds]
          /\ surfaces' \subseteq SurfaceIds
      BY <3>1, <1>2, RenewedSurfaces
    <3> QED
      BY <3>2
  <2>2. CASE ~made
    BY <2>2, <1>2 DEF Renewed, VaTypeOK
  <2> QED
    BY <2>1, <2>2
<1>4. configs' \subseteq VaIds
  BY <1>1, <1>2 DEF VaTypeOK
<1>5. badDestroy' \in BOOLEAN /\ outlived' \in BOOLEAN
  BY <1>1, <1>2 DEF VaTypeOK, StaleConfig, StaleContext, StaleSurfaces
<1>6. ASSUME ~formatFailed, ~outlived'
      PROVE  /\ ~badDestroy' /\ configs' = {config}
             /\ contexts \ {context_id} = {} /\ surfaces \ Named = {}
  <2>1. ~outlived /\ held = <<>>
    BY <1>1, <1>6
  <2> QED
    BY <2>1, <1>1, <1>6, NothingStale
<1> QED
  BY <1>1, <1>3, <1>4, <1>5, <1>6

LEMMA SuccessKeeps ==
  ASSUME VaInv, get_format, InitSucceeds,
         avctx' = [config |-> config_id', context |-> context_id']
  PROVE  VaInv'
<1>1. PICK config \in VaIds, context \in VaIds :
        /\ Renewed(config, TRUE)
        /\ contexts' = (contexts \ {context_id}) \cup {context}
        /\ config_id' = config /\ context_id' = context
  BY DEF InitSucceeds
<1>2. /\ surface_nums' = NUM_SURFACES
      /\ UNCHANGED <<surface_head, surface_tail, formatFailed>>
      /\ vaPlace = "decode" /\ formats < MaxFormats
      /\ formats' = formats + 1
      /\ UNCHANGED <<vaPlace, vaapi_context, held>>
  BY DEF InitSucceeds, get_format
<1>3. VaTypeOK /\ RingWhole /\ NUM_SURFACES \in Nat \ {0}
      /\ MaxFormats \in Nat /\ Places = 0..NUM_SURFACES - 1
  BY VaAssumption, ConstantsFit DEF VaInv
<1>4. /\ surface_ids' \in [Places -> SurfaceIds]
      /\ \A p, q \in Places : p # q => surface_ids'[p] # surface_ids'[q]
      /\ surfaces' = (surfaces \ Named) \cup {surface_ids'[p] : p \in Places}
      /\ surfaces' \subseteq SurfaceIds
  BY <1>1, <1>3, RenewedSurfaces
<1>5. /\ configs' \subseteq VaIds /\ badDestroy' \in BOOLEAN
      /\ outlived' \in BOOLEAN /\ (outlived' <=> outlived \/ held # <<>>)
      /\ ~formatFailed /\ ~outlived' =>
           /\ ~badDestroy' /\ configs' = {config}
           /\ contexts \ {context_id} = {} /\ surfaces \ Named = {}
  BY <1>1, RenewedKeeps
<1>6. config \in configs' /\ context \in contexts'
  BY <1>1 DEF Renewed
<1>7. VaTypeOK'
  <2>1. formats' \in 0..MaxFormats
    BY <1>2, <1>3 DEF VaTypeOK
  <2>2. contexts' \subseteq VaIds
    BY <1>1, <1>3 DEF VaTypeOK
  <2>3. /\ config_id' \in VaIds \cup {0} /\ context_id' \in VaIds \cup {0}
        /\ surface_ids' \in [Places -> SurfaceIds \cup {0}]
        /\ surface_nums' \in {0, NUM_SURFACES}
        /\ avctx' \in [config : VaIds \cup {0}, context : VaIds \cup {0}]
    BY <1>1, <1>2, <1>4
  <2> QED
    BY <2>1, <2>2, <2>3, <1>2, <1>3, <1>4, <1>5 DEF VaTypeOK
<1>8. RingWhole'
  <2>1. surface_tail'
          = (surface_head' + (NUM_SURFACES - Len(held'))) % NUM_SURFACES
    BY <1>2, <1>3 DEF RingWhole
  <2>2. ASSUME ~outlived'
        PROVE  /\ \A j \in Places : Dealt(j)' \in surfaces'
               /\ \A j, k \in Places : j # k => Dealt(j)' # Dealt(k)'
    <3>1. Len(held') = 0 /\ surface_head \in 0..NUM_SURFACES - 1
      BY <2>2, <1>2, <1>3, <1>5, HeldTyped DEF VaTypeOK
    <3> DEFINE place(j) == (surface_head + j) % NUM_SURFACES
    <3>2. ASSUME NEW j \in Places
          PROVE  Dealt(j)' = surface_ids'[place(j)] /\ place(j) \in Places
      <4>1. j \in Nat /\ ~(j < 0) /\ j - 0 = j
        BY <1>3
      <4>2. place(j) \in Places
        BY <4>1, <3>1, <1>3, RoundFacts
      <4>3. Dealt(j)' = surface_ids'[(surface_head + (j - 0)) % NUM_SURFACES]
        BY <4>1, <3>1, <1>2 DEF Dealt
      <4> QED
        BY <4>1, <4>2, <4>3
    <3>3. ASSUME NEW j \in Places, NEW k \in Places, j # k
          PROVE  place(j) # place(k)
      <4>1. /\ j \in Nat /\ k \in Nat /\ j - k < NUM_SURFACES
            /\ k - j < NUM_SURFACES
        BY <1>3
      <4> QED
        BY <4>1, <3>1, <3>3, <1>3, RoundApart
    <3> HIDE DEF place
    <3> QED
      BY <3>2, <3>3, <1>4
  <2> QED
    BY <2>1, <2>2, <1>4 DEF RingWhole
<1>9. Accounted'
  <2> SUFFICES ASSUME ~formatFailed, ~outlived'
               PROVE  /\ ~badDestroy' /\ configs' = {config_id'} \ {0}
                      /\ contexts' = {context_id'} \ {0}
                      /\ IsFiniteSet(surfaces')
                      /\ Cardinality(surfaces') = surface_nums'
    BY <1>2 DEF Accounted
  <2>1. /\ ~badDestroy' /\ configs' = {config} /\ contexts' = {context}
        /\ surfaces' = {surface_ids'[p] : p \in Places}
    BY <1>1, <1>4, <1>5
  <2>2. config # 0 /\ context # 0
    BY ConstantsFit
  <2>3. IsFiniteSet(surfaces') /\ Cardinality(surfaces') = NUM_SURFACES
    <3> DEFINE f == surface_ids'
    <3>1. /\ f = [j \in 0..NUM_SURFACES - 1 |-> f[j]]
          /\ \A j, k \in 0..NUM_SURFACES - 1 : j # k => f[j] # f[k]
          /\ surfaces' = {f[j] : j \in 0..NUM_SURFACES - 1}
          /\ NUM_SURFACES \in Nat
      BY <2>1, <1>3, <1>4
    <3> HIDE DEF f
    <3>2. /\ IsFiniteSet({f[j] : j \in 0..NUM_SURFACES - 1})
          /\ Cardinality({f[j] : j \in 0..NUM_SURFACES - 1}) = NUM_SURFACES
      BY <3>1, ImageSize
    <3> QED
      BY <3>1, <3>2
  <2> QED
    BY <2>1, <2>2, <2>3, <1>1, <1>2
<1>10. Supplied' /\ CodecContextLive' /\ CrashExplained'
  BY <1>1, <1>2, <1>3, <1>6
  DEF VaInv, Supplied, CodecContextLive, CrashExplained
<1> QED
  BY <1>7, <1>8, <1>9, <1>10 DEF VaInv

(* After a failure the codec has no context. *)
LEMMA FailureKeeps ==
  ASSUME VaInv, get_format, avctx' = None,
         InitRefused \/ InitConfigFails \/ InitContextFails
  PROVE  VaInv'
<1>1. /\ vaPlace = "decode" /\ formats < MaxFormats
      /\ formats' = formats + 1
      /\ UNCHANGED <<vaPlace, vaapi_context, held>>
  BY DEF get_format
<1>2. VaTypeOK /\ RingWhole /\ Accounted /\ Supplied /\ CrashExplained
      /\ NUM_SURFACES \in Nat \ {0} /\ MaxFormats \in Nat
  BY VaAssumption DEF VaInv
<1>3. /\ formats' \in 0..MaxFormats
      /\ avctx' \in [config : VaIds \cup {0}, context : VaIds \cup {0}]
  BY <1>1, <1>2 DEF VaTypeOK, None
<1>4. CASE InitRefused
  <2>1. UNCHANGED <<config_id, context_id, ring, driver, badDestroy,
                    formatFailed, outlived>>
    BY <1>4 DEF InitRefused
  <2>2. VaTypeOK'
    BY <2>1, <1>1, <1>2, <1>3 DEF VaTypeOK, ring, driver
  <2>3. RingWhole'
    BY <2>1, <1>1, <1>2, RingStays DEF driver
  <2>4. Accounted'
    BY <2>1, <1>2 DEF Accounted, ring, driver
  <2>5. Supplied' /\ CodecContextLive' /\ CrashExplained'
    BY <2>1, <1>1, <1>2 DEF Supplied, CodecContextLive, CrashExplained, ring
  <2> QED
    BY <2>2, <2>3, <2>4, <2>5 DEF VaInv
<1>5. CASE InitConfigFails
  <2>1. /\ configs' = configs \ {config_id}
        /\ badDestroy' = (badDestroy \/ StaleConfig)
        /\ formatFailed' = TRUE
        /\ UNCHANGED <<config_id, context_id, ring, contexts, surfaces,
                       outlived>>
    BY <1>5 DEF InitConfigFails
  <2>2. VaTypeOK'
    BY <2>1, <1>1, <1>2, <1>3 DEF VaTypeOK, ring, StaleConfig
  <2>3. RingWhole'
    BY <2>1, <1>1, <1>2, RingStays
  <2>4. Accounted'
    BY <2>1 DEF Accounted
  <2>5. Supplied' /\ CodecContextLive' /\ CrashExplained'
    BY <2>1, <1>1, <1>2 DEF Supplied, CodecContextLive, CrashExplained, ring
  <2> QED
    BY <2>2, <2>3, <2>4, <2>5 DEF VaInv
<1>6. CASE InitContextFails
  <2>1. PICK config \in VaIds, made \in BOOLEAN : Renewed(config, made)
    BY <1>6 DEF InitContextFails
  <2>2. /\ contexts' = contexts \ {context_id}
        /\ surface_nums' = 0 /\ formatFailed' = TRUE
        /\ UNCHANGED <<config_id, context_id, surface_head, surface_tail>>
    BY <1>6 DEF InitContextFails
  <2>3. /\ configs' \subseteq VaIds /\ surfaces' \subseteq SurfaceIds
        /\ surface_ids' \in [Places -> SurfaceIds \cup {0}]
        /\ badDestroy' \in BOOLEAN /\ outlived' \in BOOLEAN
        /\ (outlived' <=> outlived \/ held # <<>>)
    BY <2>1, RenewedKeeps
  <2>4. VaTypeOK'
    BY <2>2, <2>3, <1>1, <1>2, <1>3 DEF VaTypeOK
  <2>5. RingWhole'
    BY <2>2, <1>1, <1>2 DEF RingWhole
  <2>6. Accounted'
    BY <2>2 DEF Accounted
  <2>7. Supplied' /\ CodecContextLive' /\ CrashExplained'
    BY <2>2, <2>3, <1>1, <1>2 DEF Supplied, CodecContextLive, CrashExplained
  <2> QED
    BY <2>4, <2>5, <2>6, <2>7 DEF VaInv
<1> QED
  BY <1>4, <1>5, <1>6

-----------------------------------------------------------------------------
(* A picture takes the surface that was dealt next: the deal stays. *)
LEMMA PictureKeeps ==
  ASSUME VaInv, get_buffer PROVE VaInv'
<1> DEFINE N == NUM_SURFACES
<1>1. /\ vaPlace = "decode" /\ avctx # None /\ Len(held) < N
      /\ held' = Append(held, surface_ids[surface_head])
      /\ surface_head' = (surface_head + 1) % surface_nums
      /\ UNCHANGED <<vaPlace, vaapi_context, config_id, context_id,
                     surface_ids, surface_nums, surface_tail, driver, avctx,
                     formats, badDestroy, formatFailed, outlived>>
  BY DEF get_buffer, Step
<1>2. VaTypeOK /\ RingWhole /\ Supplied /\ N \in Nat \ {0}
      /\ Places = 0..N - 1
  BY ConstantsFit DEF VaInv
<1>3. surface_nums > 0 /\ surface_nums = N
  BY <1>1, <1>2 DEF Supplied, VaTypeOK
<1>4. PICK L \in Nat : L = Len(held)
  <2>1. Len(held) \in Nat
    BY <1>2, LenProperties DEF VaTypeOK
  <2> QED
    BY <2>1
<1>5. /\ L < N /\ surface_head \in 0..N - 1 /\ held \in Seq(SurfaceIds)
      /\ surface_ids \in [Places -> SurfaceIds]
  BY <1>1, <1>2, <1>3, <1>4 DEF VaTypeOK, RingWhole
<1> DEFINE x == surface_ids[surface_head]
<1>6. x \in SurfaceIds
  BY <1>2, <1>5
<1>7. /\ held' \in Seq(SurfaceIds) /\ Len(held') = L + 1
      /\ \A i \in 1..L : held'[i] = held[i]
      /\ held'[L + 1] = x
  <2> HIDE DEF x
  <2>1. /\ Append(held, x) \in Seq(SurfaceIds)
        /\ Len(Append(held, x)) = Len(held) + 1
        /\ \A i \in 1..Len(held) : Append(held, x)[i] = held[i]
        /\ Append(held, x)[Len(held) + 1] = x
    BY <1>5, <1>6, AppendProperties
  <2>2. held' = Append(held, x)
    BY <1>1 DEF x
  <2> QED
    BY <2>1, <2>2, <1>4
<1>8. /\ surface_head' = (surface_head + 1) % N
      /\ surface_head' \in 0..N - 1
  <2>1. (surface_head + 1) % N \in 0..N - 1
    BY <1>2, <1>5, RoundFacts
  <2> QED
    BY <2>1, <1>1, <1>3
<1>9. ASSUME NEW k \in Nat
      PROVE  (surface_head' + k) % N = (surface_head + (k + 1)) % N
  <2>1. (((surface_head + 1) % N) + k) % N = (surface_head + (k + 1)) % N
    BY <1>2, <1>5, RoundFacts
  <2> QED
    BY <2>1, <1>8
<1>10. (surface_head + 0) % N = surface_head
  <2>1. 0 \in Nat
    OBVIOUS
  <2> QED
    BY <2>1, <1>2, <1>5, RoundFacts
<1>11. VaTypeOK'
  <2>1. surface_head' \in Places /\ Len(held') <= NUM_SURFACES
    BY <1>2, <1>5, <1>7, <1>8
  <2> QED
    BY <2>1, <1>1, <1>2, <1>7 DEF VaTypeOK, driver
<1>12. surface_tail' = (surface_head' + (N - Len(held'))) % N
  <2>1. N - (L + 1) \in Nat /\ (N - (L + 1)) + 1 = N - L
    BY <1>2, <1>5
  <2>2. (surface_head' + (N - (L + 1))) % N
          = (surface_head + ((N - (L + 1)) + 1)) % N
    BY <2>1, <1>9
  <2>3. surface_tail = (surface_head + (N - L)) % N
    BY <1>2, <1>4 DEF RingWhole
  <2>4. surface_tail' = surface_tail
    BY <1>1
  <2> QED
    BY <2>1, <2>2, <2>3, <2>4, <1>7
<1>13. ASSUME NEW j \in Places PROVE Dealt(j)' = Dealt(j)
  <2>0. j \in Nat /\ j < N
    BY <1>2
  <2>1. /\ Dealt(j) = IF j < L THEN held[j + 1]
                      ELSE surface_ids[(surface_head + (j - L)) % N]
        /\ Dealt(j)' = IF j < L + 1 THEN held'[j + 1]
                       ELSE surface_ids[(surface_head' + (j - (L + 1))) % N]
    BY <1>1, <1>4, <1>7 DEF Dealt
  <2>2. CASE j < L
    <3>1. j + 1 \in 1..L /\ j < L + 1
      BY <2>0, <2>2
    <3> QED
      BY <3>1, <2>1, <2>2, <1>7
  <2>3. CASE j = L
    <3>1. j < L + 1 /\ ~(j < L) /\ j - L = 0
      BY <2>0, <2>3
    <3> QED
      BY <3>1, <2>1, <2>3, <1>7, <1>10
  <2>4. CASE j > L
    <3>1. ~(j < L + 1) /\ ~(j < L) /\ j - (L + 1) \in Nat
          /\ (j - (L + 1)) + 1 = j - L
      BY <2>0, <2>4
    <3>2. (surface_head' + (j - (L + 1))) % N
            = (surface_head + ((j - (L + 1)) + 1)) % N
      BY <3>1, <1>9
    <3> QED
      BY <3>1, <3>2, <2>1
  <2> QED
    BY <2>0, <2>2, <2>3, <2>4
<1>14. RingWhole'
  <2>1. /\ surface_nums' > 0 => surface_ids' \in [Places -> SurfaceIds]
        /\ surfaces' = surfaces /\ (outlived' <=> outlived)
    BY <1>1, <1>5 DEF driver
  <2>2. ~outlived => /\ \A j \in Places : Dealt(j) \in surfaces
                     /\ \A j, k \in Places : j # k => Dealt(j) # Dealt(k)
    BY <1>2, <1>3 DEF RingWhole
  <2> QED
    BY <2>1, <2>2, <1>12, <1>13 DEF RingWhole
<1>15. Accounted'
  BY <1>1 DEF VaInv, Accounted, driver
<1>16. Supplied' /\ CodecContextLive' /\ CrashExplained'
  BY <1>1, <1>3 DEF VaInv, Supplied, CodecContextLive, CrashExplained, driver
<1> QED
  BY <1>11, <1>14, <1>15, <1>16 DEF VaInv

(* Whatever picture the codec drops, its surface goes to the end of the    *)
(* deal: the others move up. *)
LEMMA ReleaseKeeps ==
  ASSUME VaInv, release_buffer PROVE VaInv'
<1> DEFINE N == NUM_SURFACES
<1>1. PICK i \in DOMAIN held :
        IF surface_nums = 0
          THEN vaPlace' = "crashed"
               /\ UNCHANGED <<held, surface_ids, surface_tail>>
          ELSE GiveBack(i) /\ UNCHANGED vaPlace
  BY DEF release_buffer
<1>2. /\ vaPlace \in {"decode", "close"}
      /\ UNCHANGED <<vaapi_context, config_id, context_id, surface_nums,
                     surface_head, driver, avctx, formats, badDestroy,
                     formatFailed, outlived>>
  BY DEF release_buffer
<1>3. VaTypeOK /\ RingWhole /\ Supplied /\ N \in Nat \ {0}
      /\ Places = 0..N - 1
  BY ConstantsFit DEF VaInv
<1>4. PICK L \in Nat : L = Len(held)
  <2>1. Len(held) \in Nat
    BY <1>3, LenProperties DEF VaTypeOK
  <2> QED
    BY <2>1
<1>5. i \in 1..L /\ L <= N /\ held # <<>> /\ held[i] \in SurfaceIds
      /\ held \in Seq(SurfaceIds)
  BY <1>3, <1>4, HeldTyped
<1>6. CASE surface_nums = 0
  <2>1. /\ vaPlace' = "crashed" /\ formatFailed /\ outlived
        /\ UNCHANGED <<ring, held, surfaces, outlived>>
    BY <1>1, <1>2, <1>3, <1>5, <1>6 DEF Supplied, ring, driver
  <2>2. VaTypeOK'
    BY <2>1, <1>2, <1>3 DEF VaTypeOK, ring, driver
  <2>3. RingWhole'
    BY <2>1, <1>3, RingStays
  <2>4. Accounted'
    BY <2>1, <1>2 DEF Accounted
  <2>5. Supplied' /\ CodecContextLive' /\ CrashExplained'
    BY <2>1, <1>2 DEF Supplied, CodecContextLive, CrashExplained
  <2> QED
    BY <2>2, <2>3, <2>4, <2>5 DEF VaInv
<1>7. CASE surface_nums # 0
  <2>1. /\ surface_nums = N /\ surface_nums > 0
        /\ held' = RemoveAt(held, i)
        /\ surface_ids' = [surface_ids EXCEPT ![surface_tail] = held[i]]
        /\ surface_tail' = (surface_tail + 1) % N
        /\ vaPlace' = vaPlace
    BY <1>1, <1>3, <1>7 DEF VaTypeOK, GiveBack, Step
  <2>2. /\ surface_head \in 0..N - 1 /\ surface_tail \in 0..N - 1
        /\ surface_ids \in [Places -> SurfaceIds]
        /\ surface_tail = (surface_head + (N - L)) % N
        /\ N - L \in Nat
    BY <2>1, <1>3, <1>4, <1>5 DEF VaTypeOK, RingWhole
  <2>3. /\ held' \in Seq(SurfaceIds) /\ Len(held') = L - 1
        /\ \A j \in 1..L - 1 : held'[j] = IF j < i THEN held[j] ELSE held[j + 1]
    BY <2>1, <1>4, <1>5, RemovedAt
  <2>4. surface_tail' \in 0..N - 1
    <3>1. 0 \in Nat
      OBVIOUS
    <3>2. (surface_tail + 1) % N \in 0..N - 1
      BY <3>1, <2>2, <1>3, RoundFacts
    <3> QED
      BY <3>2, <2>1
  <2>5. surface_ids' \in [Places -> SurfaceIds]
    BY <2>1, <2>2, <1>3, <1>5
  <2>6. VaTypeOK'
    <3>1. surface_tail' \in Places /\ Len(held') <= NUM_SURFACES
      BY <2>3, <2>4, <1>3, <1>5
    <3>2. surface_ids' \in [Places -> SurfaceIds \cup {0}]
      BY <2>5
    <3> QED
      BY <3>1, <3>2, <2>1, <2>3, <1>2, <1>3 DEF VaTypeOK, driver
  <2>7. surface_tail' = (surface_head' + (N - Len(held'))) % N
    <3>1. (((surface_head + (N - L)) % N) + 1) % N
            = (surface_head + ((N - L) + 1)) % N
      BY <2>2, <1>3, RoundFacts
    <3>2. (N - L) + 1 = N - (L - 1)
      BY <1>3
    <3>3. surface_head' = surface_head
      BY <1>2
    <3> QED
      BY <3>1, <3>2, <3>3, <2>1, <2>2, <2>3
  <2> DEFINE from(j) == IF j < i - 1 THEN j ELSE IF j = N - 1 THEN i - 1
                                                              ELSE j + 1
  <2>8. ASSUME NEW j \in Places
        PROVE  from(j) \in Places /\ Dealt(j)' = Dealt(from(j))
    <3>0. j \in Nat /\ j < N
      BY <1>3
    <3>1. from(j) \in Places
      BY <3>0, <1>3, <1>5
    <3>2. \A q \in Places : Dealt(q) =
            IF q < L THEN held[q + 1]
            ELSE surface_ids[(surface_head + (q - L)) % N]
      BY <1>4 DEF Dealt
    <3>3. Dealt(j)' = IF j < L - 1 THEN held'[j + 1]
                      ELSE surface_ids'[(surface_head + (j - (L - 1))) % N]
      BY <2>3, <1>2 DEF Dealt
    <3>4. CASE j < L - 1
      <4>1. j + 1 \in 1..L - 1 /\ j # N - 1 /\ (j + 1 < i <=> j < i - 1)
        BY <3>0, <3>4, <1>3, <1>5
      <4>2. Dealt(j)' = IF j < i - 1 THEN held[j + 1] ELSE held[(j + 1) + 1]
        BY <4>1, <3>3, <3>4, <2>3
      <4>3. j < L /\ j + 1 < L /\ j + 1 \in Places
        BY <3>0, <3>4, <1>3, <1>5
      <4>4. Dealt(j) = held[j + 1] /\ Dealt(j + 1) = held[(j + 1) + 1]
        BY <4>3, <3>2
      <4> QED
        BY <4>1, <4>2, <4>4, <3>1
    <3>5. CASE ~(j < L - 1) /\ j = N - 1
      <4>1. j - (L - 1) = N - L /\ ~(j < i - 1)
        BY <3>0, <3>5, <1>3, <1>5
      <4>2. Dealt(j)' = surface_ids'[surface_tail]
        BY <4>1, <3>3, <3>5, <2>2
      <4>3. surface_ids'[surface_tail] = held[i]
        BY <2>1, <2>2, <1>3
      <4>4. i - 1 \in Places /\ i - 1 < L /\ (i - 1) + 1 = i
        BY <1>3, <1>5
      <4>5. Dealt(i - 1) = held[i]
        BY <4>4, <3>2
      <4> QED
        BY <4>1, <4>2, <4>3, <4>5, <3>1, <3>5
    <3>6. CASE ~(j < L - 1) /\ j # N - 1
      <4>1. /\ ~(j < i - 1) /\ j - (L - 1) \in Nat /\ j - (L - 1) # N - L
            /\ (j - (L - 1)) - (N - L) < N /\ (N - L) - (j - (L - 1)) < N
            /\ j + 1 \in Places /\ ~(j + 1 < L)
            /\ (j + 1) - L = j - (L - 1)
        BY <3>0, <3>6, <1>3, <1>5
      <4>2. (surface_head + (j - (L - 1))) % N # surface_tail
        <5>1. (surface_head + (j - (L - 1))) % N
                # (surface_head + (N - L)) % N
          BY <4>1, <2>2, <1>3, RoundApart
        <5> QED
          BY <5>1, <2>2
      <4>3. (surface_head + (j - (L - 1))) % N \in Places
        BY <4>1, <2>2, <1>3, RoundFacts
      <4>4. Dealt(j)' = surface_ids[(surface_head + (j - (L - 1))) % N]
        BY <4>2, <4>3, <3>3, <3>6, <2>1, <2>2
      <4>5. Dealt(j + 1) = surface_ids[(surface_head + (j - (L - 1))) % N]
        BY <4>1, <3>2
      <4> QED
        BY <4>1, <4>4, <4>5, <3>1, <3>6
    <3> QED
      BY <3>4, <3>5, <3>6
  <2>9. ASSUME NEW j \in Places, NEW k \in Places, j # k
        PROVE  from(j) # from(k)
    BY <2>9, <1>3, <1>5
  <2> HIDE DEF from
  <2>10. RingWhole'
    <3>1. ~outlived => /\ \A j \in Places : Dealt(j) \in surfaces
                       /\ \A j, k \in Places : j # k => Dealt(j) # Dealt(k)
      BY <2>1, <1>3 DEF RingWhole
    <3>2. surfaces' = surfaces /\ (outlived' <=> outlived)
      BY <1>2 DEF driver
    <3>3. ~outlived => /\ \A j \in Places : Dealt(j)' \in surfaces
                       /\ \A j, k \in Places : j # k => Dealt(j)' # Dealt(k)'
      BY <3>1, <2>8, <2>9
    <3> QED
      BY <3>2, <3>3, <2>5, <2>7 DEF RingWhole
  <2>11. Accounted'
    BY <1>2 DEF VaInv, Accounted, driver
  <2>12. Supplied' /\ CodecContextLive' /\ CrashExplained'
    BY <2>1, <1>2 DEF VaInv, Supplied, CodecContextLive, CrashExplained,
                      driver
  <2> QED
    BY <2>6, <2>10, <2>11, <2>12 DEF VaInv
<1> QED
  BY <1>6, <1>7

LEMMA VaStepKeeps ==
  VaInv /\ [VaNext]_vaVars => VaInv'
<1> SUFFICES ASSUME VaInv, [VaNext]_vaVars PROVE VaInv'
  OBVIOUS
<1>1. CASE get_format
  <2>1. CASE InitSucceeds
             /\ avctx' = [config |-> config_id', context |-> context_id']
    BY <2>1, <1>1, SuccessKeeps
  <2>2. CASE (InitRefused \/ InitConfigFails \/ InitContextFails)
             /\ avctx' = None
    BY <2>2, <1>1, FailureKeeps
  <2> QED
    BY <2>1, <2>2, <1>1 DEF get_format
<1>2. CASE UNCHANGED vaVars
  <2>1. UNCHANGED <<vaPlace, vaapi_context, config_id, context_id, ring,
                    driver, held, avctx, formats, badDestroy, formatFailed,
                    outlived>>
    BY <1>2 DEF vaVars
  <2>2. VaTypeOK'
    BY <2>1 DEF VaInv, VaTypeOK, ring, driver
  <2>3. RingWhole'
    BY <2>1, RingStays DEF VaInv, driver
  <2>4. Accounted'
    BY <2>1 DEF VaInv, Accounted, ring, driver
  <2>5. Supplied' /\ CodecContextLive' /\ CrashExplained'
    BY <2>1 DEF VaInv, Supplied, CodecContextLive, CrashExplained, ring,
                driver
  <2> QED
    BY <2>2, <2>3, <2>4, <2>5 DEF VaInv
<1> QED
  BY <1>1, <1>2, OpenKeeps, PictureKeeps, ReleaseKeeps, CloseKeeps, ExitKeeps
  DEF VaNext

-----------------------------------------------------------------------------
(* The theorems *)

(* Over all openings and changes of the format the ring of surfaces, the   *)
(* objects of the driver and what the codec was told of them fit together. *)
THEOREM VaInvariant ==
  VaSpec => []VaInv
BY VaStarts, VaStepKeeps, PTL DEF VaSpec

(* Every variable of the VA player's objects has its type. *)
THEOREM VaTypeCorrect ==
  VaSpec => []VaTypeOK
<1>1. VaInv => VaTypeOK
  BY DEF VaInv
<1> QED
  BY <1>1, VaInvariant, PTL

(* The codec decodes with objects that exist and with surfaces of which    *)
(* none is lent twice; each is destroyed once, unless a change of the      *)
(* format fails or comes while the codec holds pictures; and only such a   *)
(* failure, or that of vaapi_init, can end the player early. *)
THEOREM VaObjectsLive ==
  VaSpec => []VaObjectsSound
<1>1. VaInv => VaObjectsSound
  <2> SUFFICES ASSUME VaInv PROVE VaObjectsSound
    OBVIOUS
  <2>1. RingSurvivesFormats
    <3> SUFFICES ASSUME surface_nums > 0, ~outlived
                 PROVE  /\ Dealing \subseteq surfaces
                        /\ Cardinality(Dealing) = NUM_SURFACES
      BY DealingIs DEF VaInv, RingSurvivesFormats
    <3>1. /\ \A j \in Places : Dealt(j) \in surfaces
          /\ \A j, k \in Places : j # k => Dealt(j) # Dealt(k)
      BY DEF VaInv, RingWhole
    <3> QED
      BY <3>1, DealingSize DEF Dealing
  <2>2. ObjectsAccounted
    BY DEF VaInv, Accounted, ObjectsAccounted
  <2> QED
    BY <2>1, <2>2 DEF VaInv, VaObjectsSound
<1> QED
  BY <1>1, VaInvariant, PTL

-----------------------------------------------------------------------------
(* The decoders of one thread *)

(* Where each program can be, what is allocated there, and where a frame   *)
(* has been received that is neither shown nor dropped yet. *)
HwPlaces == {"read", "send", "alloc", "receive", "transfer", "show", "fail",
             "closed"}

AllocatedAt ==
  /\ demoPlace \in {"receive", "transfer"} => allocated = {"frame", "sw_frame"}
  /\ demoPlace \notin {"receive", "transfer", "show", "fail"} => allocated = {}
  /\ ~overwritten
  /\ frame # 0 => demoPlace \in {"transfer", "show", "fail", "got"}
  /\ demoPlace \in {"transfer", "show", "got"} => frame # 0

(* The frames shown, the one in hand or 0, and those owed, in this order,  *)
(* and all of them of the first n packets. *)
LinedUp(shown, f, rest, n) ==
  /\ \A i, k \in 1..Len(shown) : i < k => shown[i] < shown[k]
  /\ \A i, k \in 1..Len(rest) : i < k => rest[i] < rest[k]
  /\ \A i \in 1..Len(shown), k \in 1..Len(rest) : shown[i] < rest[k]
  /\ \A k \in 1..Len(rest) : f < rest[k]
  /\ f # 0 => \A i \in 1..Len(shown) : shown[i] < f
  /\ \A i \in 1..Len(shown) : shown[i] <= n
  /\ \A k \in 1..Len(rest) : rest[k] <= n
  /\ f <= n

(* The packet that is being sent comes after all of them. *)
Ordered ==
  /\ LinedUp(onScreen, frame, owed, filePackets)
  /\ demoPlace = "send" /\ ~draining =>
       filePackets > 0 /\ LinedUp(onScreen, frame, owed, filePackets - 1)

(* What the codec still owes at the end *)
Owing ==
  /\ demoPlace = "choose" => owed = <<>> /\ notShown = <<>>
  /\ demo = "hw_decode" => demoPlace \in HwPlaces
  /\ demo # "hw_decode" =>
       /\ demoPlace \in {"choose", "read", "got", "closed", "aborted"}
       /\ Len(owed) <= MaxDelay
       /\ demoPlace # "aborted" => notShown = <<>>
  /\ demo = "hw_decode" /\ demoPlace = "closed" /\ ret = "ok" => owed = <<>>

DemoInv == DemoTypeOK /\ AllocatedAt /\ Ordered /\ Owing

Packets == 1..MaxFilePackets

LEMMA LineTakes ==
  ASSUME NEW shown \in Seq(Packets), NEW rest \in Seq(Packets), rest # <<>>,
         NEW n \in Nat, LinedUp(shown, 0, rest, n)
  PROVE  /\ Head(rest) \in Packets /\ Tail(rest) \in Seq(Packets)
         /\ Len(Tail(rest)) = Len(rest) - 1
         /\ LinedUp(shown, Head(rest), Tail(rest), n)
<1>1. /\ Head(rest) \in Packets /\ Tail(rest) \in Seq(Packets)
      /\ Len(Tail(rest)) = Len(rest) - 1 /\ Head(rest) = rest[1]
      /\ \A i \in 1..Len(rest) - 1 : Tail(rest)[i] = rest[i + 1]
      /\ Len(rest) \in Nat \ {0}
  BY HeadTailProperties, EmptySeq
<1>2. PICK l \in Nat \ {0} : l = Len(rest)
  BY <1>1
<1>3. \A i \in 1..l - 1 : i \in 1..l /\ i + 1 \in 1..l /\ 1 < i + 1
  OBVIOUS
<1>4. 1 \in 1..l /\ \A i, k \in 1..l - 1 : i < k => i + 1 < k + 1
  OBVIOUS
<1>5. /\ Len(Tail(rest)) = l - 1 /\ Head(rest) = rest[1]
      /\ \A i \in 1..l - 1 : Tail(rest)[i] = rest[i + 1]
  BY <1>1, <1>2
<1>6. LinedUp(shown, Head(rest), Tail(rest), n)
  BY <1>2, <1>3, <1>4, <1>5 DEF LinedUp
<1> QED
  BY <1>1, <1>6

LEMMA LineGrows ==
  ASSUME NEW shown \in Seq(Packets), NEW rest \in Seq(Packets),
         NEW m \in Packets, NEW n \in Nat, n < m, LinedUp(shown, 0, rest, n)
  PROVE  /\ Append(rest, m) \in Seq(Packets)
         /\ Len(Append(rest, m)) = Len(rest) + 1
         /\ LinedUp(shown, 0, Append(rest, m), m)
<1>1. /\ Append(rest, m) \in Seq(Packets)
      /\ Len(Append(rest, m)) = Len(rest) + 1
      /\ \A i \in 1..Len(rest) : Append(rest, m)[i] = rest[i]
      /\ Append(rest, m)[Len(rest) + 1] = m
  BY AppendProperties
<1>2. PICK l \in Nat : l = Len(rest)
  BY LenProperties
<1>3. \A i \in 1..l + 1 : i \in 1..l \/ i = l + 1
  OBVIOUS
<1>4. /\ \A i \in 1..Len(shown) : shown[i] \in Packets
      /\ \A i \in 1..l : rest[i] \in Packets
  BY <1>2, ElementOfSeq
<1> QED
  BY <1>1, <1>2, <1>3, <1>4 DEF LinedUp, Packets

LEMMA LineShows ==
  ASSUME NEW shown \in Seq(Packets), NEW rest \in Seq(Packets),
         NEW f \in Packets, NEW n \in Nat, LinedUp(shown, f, rest, n)
  PROVE  /\ Append(shown, f) \in Seq(Packets)
         /\ LinedUp(Append(shown, f), 0, rest, n)
<1>1. /\ Append(shown, f) \in Seq(Packets)
      /\ Len(Append(shown, f)) = Len(shown) + 1
      /\ \A i \in 1..Len(shown) : Append(shown, f)[i] = shown[i]
      /\ Append(shown, f)[Len(shown) + 1] = f
  BY AppendProperties
<1>2. PICK l \in Nat : l = Len(shown)
  BY LenProperties
<1>3. \A i \in 1..l + 1 : i \in 1..l \/ i = l + 1
  OBVIOUS
<1>4. /\ \A i \in 1..l : shown[i] \in Packets
      /\ \A i \in 1..Len(rest) : rest[i] \in Packets
  BY <1>2, ElementOfSeq
<1> QED
  BY <1>1, <1>2, <1>3, <1>4 DEF LinedUp, Packets

LEMMA LineDrops ==
  ASSUME NEW shown \in Seq(Packets), NEW rest \in Seq(Packets),
         NEW f \in Packets \cup {0}, NEW n \in Nat, LinedUp(shown, f, rest, n)
  PROVE  LinedUp(shown, 0, rest, n)
<1>1. \A i \in 1..Len(rest) : rest[i] \in Packets
  BY ElementOfSeq
<1> QED
  BY <1>1 DEF LinedUp, Packets

LEMMA LineWidens ==
  ASSUME NEW shown \in Seq(Packets), NEW rest \in Seq(Packets),
         NEW f \in Packets \cup {0}, NEW n \in Nat, NEW m \in Nat, n <= m,
         LinedUp(shown, f, rest, n)
  PROVE  LinedUp(shown, f, rest, m)
<1>1. /\ \A i \in 1..Len(shown) : shown[i] \in Packets
      /\ \A i \in 1..Len(rest) : rest[i] \in Packets
  BY ElementOfSeq
<1> QED
  BY <1>1 DEF LinedUp, Packets

(* What FramesInOrder says of the three parts put together. *)
InHand(f) == IF f = 0 THEN <<>> ELSE <<f>>

LEMMA InHandLen ==
  ASSUME NEW f \in Packets \cup {0}
  PROVE  /\ InHand(f) \in Seq(Packets)
         /\ \E m \in Nat : /\ m <= 1 /\ m = Len(InHand(f))
                           /\ m = 1 => f # 0 /\ InHand(f)[1] = f
<1>1. CASE f = 0
  BY <1>1, EmptySeq DEF InHand
<1>2. CASE f # 0
  <2>1. f \in Packets /\ InHand(f) = <<f>>
    BY <1>2 DEF InHand
  <2> HIDE DEF Packets
  <2> QED
    BY <1>2, <2>1
<1> QED
  BY <1>1, <1>2

LEMMA LineInOrder ==
  ASSUME NEW shown \in Seq(Packets), NEW rest \in Seq(Packets),
         NEW f \in Packets \cup {0}, NEW n \in Nat, LinedUp(shown, f, rest, n)
  PROVE  LET frames == shown \o InHand(f) \o rest
         IN \A i, k \in DOMAIN frames : i < k => frames[i] < frames[k]
<1> DEFINE front == shown \o InHand(f)
           frames == front \o rest
<1>1. PICK a \in Nat : a = Len(shown)
  BY LenProperties
<1>2. PICK b \in Nat : b = Len(rest)
  BY LenProperties
<1>3. PICK m \in Nat : /\ m <= 1 /\ m = Len(InHand(f))
                       /\ m = 1 => f # 0 /\ InHand(f)[1] = f
  BY InHandLen
<1>4. PICK c \in Nat : c = a + m
  OBVIOUS
<1>5. /\ front \in Seq(Packets) /\ Len(front) = c
      /\ \A i \in 1..a : front[i] = shown[i]
      /\ m = 1 => front[a + 1] = f
  <2>1. InHand(f) \in Seq(Packets)
    BY InHandLen
  <2> HIDE DEF Packets
  <2> QED
    BY <1>1, <1>3, <1>4, <2>1, ConcatProperties
<1> HIDE DEF front
<1>6. /\ DOMAIN frames = 1..c + b
      /\ \A i \in 1..c : frames[i] = front[i]
      /\ \A i \in c + 1..c + b : frames[i] = rest[i - c]
  <2> HIDE DEF Packets
  <2>1. frames \in Seq(Packets) /\ Len(frames) = c + b
    BY <1>2, <1>5, ConcatProperties
  <2>2. \A i \in 1..c + b : frames[i] = IF i <= c THEN front[i]
                                                  ELSE rest[i - c]
    BY <1>2, <1>5, ConcatProperties
  <2>3. DOMAIN frames = 1..c + b
    BY <2>1, LenProperties
  <2>4. /\ \A i \in 1..c : i \in 1..c + b /\ i <= c
        /\ \A i \in c + 1..c + b : i \in 1..c + b /\ ~(i <= c)
    BY <1>2
  <2> HIDE DEF frames
  <2> QED
    BY <2>2, <2>3, <2>4
<1> HIDE DEF frames
<1> SUFFICES ASSUME NEW i \in 1..c + b, NEW k \in 1..c + b, i < k
               PROVE  frames[i] < frames[k]
  BY <1>6 DEF frames, front
<1>7. \A x \in 1..c : x \in 1..a \/ (x = a + 1 /\ m = 1)
  BY <1>3, <1>4
<1>8. /\ \A x \in 1..a : x \in 1..c /\ frames[x] = shown[x]
      /\ m = 1 => a + 1 \in 1..c /\ frames[a + 1] = f /\ f # 0
  BY <1>3, <1>4, <1>5, <1>6
<1>9. \A x \in 1..c + b : x > c => /\ frames[x] = rest[x - c]
                                    /\ x - c \in 1..b
  <2> SUFFICES ASSUME NEW x \in 1..c + b, x > c
               PROVE  frames[x] = rest[x - c] /\ x - c \in 1..b
    OBVIOUS
  <2>1. x \in c + 1..c + b /\ x - c \in 1..b
    OBVIOUS
  <2> QED
    BY <2>1, <1>6
<1>10. /\ \A x, y \in 1..a : x < y => shown[x] < shown[y]
       /\ \A x, y \in 1..b : x < y => rest[x] < rest[y]
       /\ \A x \in 1..a, y \in 1..b : shown[x] < rest[y]
       /\ \A y \in 1..b : f < rest[y]
       /\ f # 0 => \A x \in 1..a : shown[x] < f
  BY <1>1, <1>2 DEF LinedUp
<1>11. CASE k <= c
  <2>1. i \in 1..c /\ k \in 1..c
    BY <1>11
  <2>2. i \in 1..a
    BY <1>7, <2>1
  <2>3. CASE k \in 1..a
    BY <1>8, <1>10, <2>2, <2>3
  <2>4. CASE k = a + 1 /\ m = 1
    BY <1>8, <1>10, <2>2, <2>4
  <2> QED
    BY <1>7, <2>1, <2>3, <2>4
<1>12. CASE k > c /\ i > c
  <2>1. i - c < k - c
    OBVIOUS
  <2> QED
    BY <1>9, <1>10, <1>12, <2>1
<1>13. CASE k > c /\ i <= c
  <2>1. i \in 1..c
    BY <1>13
  <2>2. CASE i \in 1..a
    BY <1>8, <1>9, <1>10, <1>13, <2>2
  <2>3. CASE i = a + 1 /\ m = 1
    BY <1>8, <1>9, <1>10, <1>13, <2>3
  <2> QED
    BY <1>7, <2>1, <2>2, <2>3
<1> QED
  BY <1>11, <1>12, <1>13
LEMMA DemoTyped ==
  ASSUME DemoTypeOK
  PROVE  /\ owed \in Seq(Packets) /\ onScreen \in Seq(Packets)
         /\ notShown \in Seq(Packets)
         /\ frame \in Packets \cup {0} /\ filePackets \in Nat
         /\ filePackets <= MaxFilePackets
         /\ Len(owed) \in Nat
         /\ MaxFilePackets \in Nat /\ MaxDelay \in Nat
<1>1. /\ MaxFilePackets \in Nat /\ MaxDelay \in Nat
      /\ filePackets \in Nat /\ filePackets <= MaxFilePackets
      /\ frame \in Packets \cup {0}
  BY DemoAssumption DEF DemoTypeOK, Packets
<1>2. /\ owed \in Seq(Packets) /\ onScreen \in Seq(Packets)
      /\ notShown \in Seq(Packets)
  BY DEF DemoTypeOK, Packets
<1> QED
  BY <1>1, <1>2, LenProperties

LEMMA DemoInvInit == DemoInit => DemoInv
<1> SUFFICES ASSUME DemoInit
             PROVE  DemoInv
  OBVIOUS
<1>1. DemoTypeOK
  <2>1. {owed, onScreen, notShown} \subseteq Seq(1..MaxFilePackets)
    BY EmptySeq DEF DemoInit
  <2>2. filePackets \in 0..MaxFilePackets /\ frame \in 0..MaxFilePackets
    BY DemoAssumption DEF DemoInit
  <2> QED
    BY <2>1, <2>2 DEF DemoInit, DemoTypeOK
<1>2. Ordered
  BY DEF DemoInit, Ordered, LinedUp
<1>3. AllocatedAt /\ Owing
  BY DemoAssumption DEF DemoInit, AllocatedAt, Owing
<1> QED
  BY <1>1, <1>2, <1>3 DEF DemoInv

(* The steps of hw_decode *)
LEMMA ReadNextKeeps == DemoInv /\ ReadNext => DemoInv'
<1> SUFFICES ASSUME DemoInv, ReadNext
             PROVE  DemoInv'
  OBVIOUS
<1>1. /\ DemoTypeOK /\ AllocatedAt /\ Ordered /\ Owing
  BY DEF DemoInv
<1>2. DemoTypeOK'
  <2>1. filePackets' \in 0..MaxFilePackets
    BY <1>1, DemoTyped DEF ReadNext
  <2>2. draining' \in BOOLEAN /\ demoPlace' = "send"
    BY DEF ReadNext
  <2>3. UNCHANGED <<demo, owed, ret, frame, allocated, overwritten, onScreen,
                    notShown>>
    BY DEF ReadNext, memory
  <2> QED
    BY <1>1, <2>1, <2>2, <2>3 DEF DemoTypeOK
<1>3. AllocatedAt' /\ Owing'
  BY <1>1 DEF ReadNext, memory, AllocatedAt, Owing, HwPlaces
<1>4. Ordered'
  <2>1. CASE filePackets' = filePackets + 1
    <3>1. /\ filePackets' \in Nat /\ filePackets <= filePackets'
          /\ filePackets' > 0 /\ filePackets' - 1 = filePackets
      BY <1>1, <2>1, DemoTyped
    <3>2. LinedUp(onScreen, frame, owed, filePackets)
      BY <1>1 DEF Ordered
    <3>3. LinedUp(onScreen, frame, owed, filePackets')
      BY <1>1, <3>1, <3>2, DemoTyped, LineWidens
    <3>4. UNCHANGED <<onScreen, frame, owed>>
      BY DEF ReadNext, memory
    <3> QED
      BY <3>1, <3>2, <3>3, <3>4 DEF Ordered
  <2>2. CASE draining' /\ filePackets' = filePackets
    BY <1>1, <2>2 DEF Ordered, ReadNext, memory
  <2> QED
    BY <2>1, <2>2 DEF ReadNext
<1> QED
  BY <1>2, <1>3, <1>4 DEF DemoInv

LEMMA SendPacketKeeps == DemoInv /\ SendPacket => DemoInv'
<1> SUFFICES ASSUME DemoInv, SendPacket
             PROVE  DemoInv'
  OBVIOUS
<1>1. /\ DemoTypeOK /\ AllocatedAt /\ Ordered /\ Owing
  BY DEF DemoInv
<1>2. CASE owed' = owed
  <2>1. DemoTypeOK'
    BY <1>1, <1>2 DEF SendPacket, ReturnTo, memory, DemoTypeOK
  <2>2. AllocatedAt' /\ Owing'
    BY <1>1, <1>2 DEF SendPacket, ReturnTo, memory, AllocatedAt, Owing, HwPlaces
  <2>3. Ordered'
    BY <1>1, <1>2 DEF SendPacket, ReturnTo, memory, Ordered
  <2> QED
    BY <2>1, <2>2, <2>3 DEF DemoInv
<1>3. CASE ~draining /\ owed' = Append(owed, filePackets)
              /\ demoPlace' = "alloc" /\ ret' = "ok"
  <2>1. frame = 0 /\ filePackets > 0
        /\ LinedUp(onScreen, 0, owed, filePackets - 1)
    BY <1>1, <1>3 DEF SendPacket, AllocatedAt, Ordered
  <2>2. filePackets \in Packets /\ filePackets - 1 \in Nat
        /\ filePackets - 1 < filePackets
    BY <1>1, <2>1, DemoTyped DEF Packets
  <2>3. owed' \in Seq(Packets) /\ LinedUp(onScreen, 0, owed', filePackets)
    BY <1>1, <1>3, <2>1, <2>2, DemoTyped, LineGrows
  <2>4. DemoTypeOK'
    BY <1>1, <1>3, <2>3 DEF SendPacket, memory, DemoTypeOK, Packets
  <2>5. AllocatedAt' /\ Owing'
    BY <1>1, <1>3 DEF SendPacket, memory, AllocatedAt, Owing, HwPlaces
  <2>6. Ordered'
    BY <1>3, <2>1, <2>3 DEF SendPacket, memory, Ordered
  <2> QED
    BY <2>4, <2>5, <2>6 DEF DemoInv
<1> QED
  BY <1>2, <1>3 DEF SendPacket, Accept

LEMMA AllocFramesKeeps == DemoInv /\ AllocFrames => DemoInv'
<1> SUFFICES ASSUME DemoInv, AllocFrames
             PROVE  DemoInv'
  OBVIOUS
<1>1. /\ DemoTypeOK /\ AllocatedAt /\ Ordered /\ Owing
  BY DEF DemoInv
<1>2. DemoTypeOK'
  BY <1>1 DEF AllocFrames, Allocate, DemoTypeOK
<1>3. AllocatedAt'
  BY <1>1 DEF AllocFrames, Allocate, AllocatedAt
<1>4. Ordered'
  BY <1>1 DEF AllocFrames, Ordered
<1>5. Owing'
  BY <1>1 DEF AllocFrames, Owing, HwPlaces
<1> QED
  BY <1>2, <1>3, <1>4, <1>5 DEF DemoInv

LEMMA ReceiveFrameKeeps == DemoInv /\ ReceiveFrame => DemoInv'
<1> SUFFICES ASSUME DemoInv, ReceiveFrame
             PROVE  DemoInv'
  OBVIOUS
<1>1. /\ DemoTypeOK /\ AllocatedAt /\ Ordered /\ Owing
  BY DEF DemoInv
<1>2. CASE owed' = owed /\ frame' = frame
  <2>1. DemoTypeOK'
    BY <1>1, <1>2 DEF ReceiveFrame, ReturnTo, DemoTypeOK
  <2>2. AllocatedAt'
    BY <1>1, <1>2 DEF ReceiveFrame, ReturnTo, AllocatedAt
  <2>3. Owing'
    BY <1>1, <1>2 DEF ReceiveFrame, ReturnTo, Owing, HwPlaces
  <2>4. Ordered'
    BY <1>1, <1>2 DEF ReceiveFrame, ReturnTo, Ordered
  <2> QED
    BY <2>1, <2>2, <2>3, <2>4 DEF DemoInv
<1>3. CASE owed # <<>> /\ frame' = Head(owed) /\ owed' = Tail(owed)
              /\ demoPlace' = "transfer" /\ ret' = "ok"
              /\ UNCHANGED allocated
  <2>1. LinedUp(onScreen, 0, owed, filePackets)
    BY <1>1 DEF ReceiveFrame, AllocatedAt, Ordered
  <2>2. frame' \in Packets /\ owed' \in Seq(Packets)
        /\ LinedUp(onScreen, frame', owed', filePackets)
    BY <1>1, <1>3, <2>1, DemoTyped, LineTakes
  <2>3. frame' # 0
    BY <2>2 DEF Packets
  <2>4. DemoTypeOK'
    BY <1>1, <1>3, <2>2 DEF ReceiveFrame, DemoTypeOK, Packets
  <2>5. AllocatedAt' /\ Owing'
    BY <1>1, <1>3, <2>3 DEF ReceiveFrame, AllocatedAt, Owing, HwPlaces
  <2>6. Ordered'
    BY <1>3, <2>2 DEF ReceiveFrame, Ordered
  <2> QED
    BY <2>4, <2>5, <2>6 DEF DemoInv
<1> QED
  BY <1>2, <1>3 DEF ReceiveFrame

LEMMA TransferFrameKeeps == DemoInv /\ TransferFrame => DemoInv'
<1> SUFFICES ASSUME DemoInv, TransferFrame
             PROVE  DemoInv'
  OBVIOUS
<1>1. /\ DemoTypeOK /\ AllocatedAt /\ Ordered /\ Owing
  BY DEF DemoInv
<1>2. DemoTypeOK'
  BY <1>1 DEF TransferFrame, Allocate, DemoTypeOK
<1>3. AllocatedAt'
  <2>1. allocated = {"frame", "sw_frame"} /\ ~overwritten /\ frame # 0
    BY <1>1 DEF TransferFrame, AllocatedAt
  <2>2. allocated \cap {"buffer"} = {}
    BY <2>1
  <2>3. ~overwritten'
    <3>1. CASE UNCHANGED overwritten
      BY <2>1, <3>1
    <3>2. CASE Allocate({"buffer"})
      BY <2>1, <2>2, <3>2, Zenon DEF Allocate
    <3> QED
      BY <3>1, <3>2 DEF TransferFrame
  <2>4. demoPlace' \in {"show", "fail"} /\ frame' = frame
    BY DEF TransferFrame
  <2> QED
    BY <2>1, <2>3, <2>4 DEF AllocatedAt
<1>4. Ordered'
  BY <1>1 DEF TransferFrame, Ordered
<1>5. Owing'
  BY <1>1 DEF TransferFrame, Owing, HwPlaces
<1> QED
  BY <1>2, <1>3, <1>4, <1>5 DEF DemoInv

LEMMA FrameShownKeeps == DemoInv /\ ShowFrame => DemoInv'
<1> SUFFICES ASSUME DemoInv, ShowFrame
             PROVE  DemoInv'
  OBVIOUS
<1>1. /\ DemoTypeOK /\ AllocatedAt /\ Ordered /\ Owing
  BY DEF DemoInv
<1>2. AllocatedAt' /\ Owing'
  BY <1>1 DEF ShowFrame, AllocatedAt, Owing, HwPlaces
<1>3. CASE onScreen' = Append(onScreen, frame) /\ frame' = 0
  <2>1. frame \in Packets
    BY <1>1, DemoTyped DEF ShowFrame, AllocatedAt
  <2>2. onScreen' \in Seq(Packets)
        /\ LinedUp(onScreen', 0, owed, filePackets)
    BY <1>1, <1>3, <2>1, DemoTyped, LineShows DEF Ordered
  <2>3. DemoTypeOK'
    BY <1>1, <1>3, <2>2, DemoTyped DEF ShowFrame, DemoTypeOK, Packets
  <2>4. Ordered'
    BY <1>3, <2>2 DEF ShowFrame, Ordered
  <2> QED
    BY <1>2, <2>3, <2>4 DEF DemoInv
<1>4. CASE UNCHANGED <<onScreen, frame>>
  <2>1. DemoTypeOK'
    BY <1>1, <1>4 DEF ShowFrame, DemoTypeOK
  <2>2. Ordered'
    BY <1>1, <1>4 DEF ShowFrame, Ordered
  <2> QED
    BY <1>2, <2>1, <2>2 DEF DemoInv
<1> QED
  BY <1>3, <1>4 DEF ShowFrame

LEMMA FailKeeps == DemoInv /\ Fail => DemoInv'
<1> SUFFICES ASSUME DemoInv, Fail
             PROVE  DemoInv'
  OBVIOUS
<1>1. /\ DemoTypeOK /\ AllocatedAt /\ Ordered /\ Owing
  BY DEF DemoInv
<1>2. notShown' \in Seq(Packets)
  <2>1. CASE frame = 0
    BY <1>1, <2>1, DemoTyped DEF Fail
  <2>2. CASE frame # 0
    BY <1>1, <2>2, DemoTyped, AppendProperties DEF Fail
  <2> QED
    BY <2>1, <2>2
<1>3. LinedUp(onScreen, 0, owed, filePackets)
  BY <1>1, DemoTyped, LineDrops DEF Ordered
<1>4. DemoTypeOK'
  BY <1>1, <1>2, DemoTyped DEF Fail, ReturnTo, DemoTypeOK, Packets
<1>5. AllocatedAt' /\ Owing'
  BY <1>1 DEF Fail, ReturnTo, AllocatedAt, Owing, HwPlaces
<1>6. Ordered'
  BY <1>3 DEF Fail, ReturnTo, Ordered
<1> QED
  BY <1>4, <1>5, <1>6 DEF DemoInv

(* The steps of the other two *)
LEMMA DecodePacketKeeps == DemoInv /\ DecodePacket => DemoInv'
<1> SUFFICES ASSUME DemoInv, DecodePacket
             PROVE  DemoInv'
  OBVIOUS
<1>1. /\ DemoTypeOK /\ AllocatedAt /\ Ordered /\ Owing
  BY DEF DemoInv
<1>2. /\ frame = 0 /\ filePackets' = filePackets + 1
      /\ filePackets' \in Packets /\ filePackets' \in Nat
      /\ filePackets < filePackets'
  BY <1>1, DemoTyped DEF DecodePacket, AllocatedAt, Packets
<1>3. LinedUp(onScreen, 0, owed, filePackets')
  BY <1>1, <1>2, DemoTyped, LineWidens DEF Ordered
<1>4. SUFFICES /\ frame' \in Packets \cup {0} /\ owed' \in Seq(Packets)
               /\ LinedUp(onScreen, frame', owed', filePackets')
               /\ Len(owed') <= MaxDelay
               /\ \/ demoPlace' = "got" /\ frame' # 0
                  \/ demoPlace' = "read" /\ frame' = 0
                  \/ demoPlace' = "aborted" /\ frame' = 0
  <2>1. DemoTypeOK'
    BY <1>1, <1>2, <1>4 DEF DecodePacket, DemoTypeOK, Packets
  <2>2. AllocatedAt' /\ Owing'
    BY <1>1, <1>4 DEF DecodePacket, AllocatedAt, Owing
  <2>3. Ordered'
    BY <1>4 DEF DecodePacket, Ordered
  <2> QED
    BY <2>1, <2>2, <2>3 DEF DemoInv
<1>5. Len(owed) <= MaxDelay
  BY <1>1 DEF DecodePacket, Owing
<1>6. CASE DecodeOne
  <2>1. PICK packets \in {owed, Append(owed, filePackets')} :
          \/ /\ packets # <<>>
             /\ frame' = Head(packets) /\ owed' = Tail(packets)
             /\ demoPlace' = "got"
          \/ /\ Len(packets) <= MaxDelay
             /\ owed' = packets /\ UNCHANGED <<frame, demoPlace>>
    BY <1>6 DEF DecodeOne
  <2>2. /\ packets \in Seq(Packets) /\ Len(packets) <= MaxDelay + 1
        /\ Len(packets) \in Nat
        /\ LinedUp(onScreen, 0, packets, filePackets')
    <3>1. CASE packets = owed
      BY <1>1, <1>3, <1>5, <3>1, DemoTyped
    <3>2. CASE packets = Append(owed, filePackets')
      <4>1. LinedUp(onScreen, 0, owed, filePackets)
        BY <1>1, <1>2 DEF Ordered
      <4>2. /\ packets \in Seq(Packets) /\ Len(packets) = Len(owed) + 1
            /\ LinedUp(onScreen, 0, packets, filePackets')
        BY <1>1, <1>2, <3>2, <4>1, DemoTyped, LineGrows
      <4> QED
        BY <1>1, <1>5, <4>2, DemoTyped
    <3> QED
      BY <2>1, <3>1, <3>2
  <2>3. CASE packets # <<>> /\ frame' = Head(packets)
              /\ owed' = Tail(packets) /\ demoPlace' = "got"
    <3>1. /\ frame' \in Packets /\ owed' \in Seq(Packets)
          /\ LinedUp(onScreen, frame', owed', filePackets')
          /\ Len(owed') = Len(packets) - 1
      BY <1>1, <1>2, <2>2, <2>3, DemoTyped, LineTakes
    <3>2. frame' # 0 /\ Len(owed') <= MaxDelay
      BY <1>1, <2>2, <3>1, DemoTyped DEF Packets
    <3> QED
      BY <2>3, <3>1, <3>2
  <2>4. CASE Len(packets) <= MaxDelay /\ owed' = packets
              /\ UNCHANGED <<frame, demoPlace>>
    BY <1>2, <2>2, <2>4 DEF DecodePacket
  <2> QED
    BY <2>1, <2>3, <2>4
<1>7. CASE DecodeError
  BY <1>1, <1>2, <1>3, <1>5, <1>7, DemoTyped DEF DecodeError
<1> QED
  BY <1>6, <1>7 DEF DecodePacket

LEMMA OutputKeeps == DemoInv /\ Output => DemoInv'
<1> SUFFICES ASSUME DemoInv, Output
             PROVE  DemoInv'
  OBVIOUS
<1>1. /\ DemoTypeOK /\ AllocatedAt /\ Ordered /\ Owing
  BY DEF DemoInv
<1>2. frame \in Packets /\ demo # "hw_decode"
  BY <1>1, DemoTyped DEF Output, AllocatedAt, Owing, HwPlaces
<1>3. AllocatedAt' /\ Owing'
  BY <1>1, <1>2 DEF Output, AllocatedAt, Owing
<1>4. CASE onScreen' = Append(onScreen, frame) /\ UNCHANGED notShown
  <2>1. onScreen' \in Seq(Packets)
        /\ LinedUp(onScreen', 0, owed, filePackets)
    BY <1>1, <1>2, <1>4, DemoTyped, LineShows DEF Ordered
  <2>2. DemoTypeOK'
    BY <1>1, <1>4, <2>1, DemoTyped DEF Output, DemoTypeOK, Packets
  <2>3. Ordered'
    BY <1>4, <2>1 DEF Output, Ordered
  <2> QED
    BY <1>3, <2>2, <2>3 DEF DemoInv
<1>5. CASE notShown' = Append(notShown, frame) /\ UNCHANGED onScreen
  <2>1. notShown' \in Seq(Packets)
    BY <1>1, <1>2, <1>5, DemoTyped, AppendProperties
  <2>2. LinedUp(onScreen, 0, owed, filePackets)
    BY <1>1, DemoTyped, LineDrops DEF Ordered
  <2>3. DemoTypeOK'
    BY <1>1, <1>5, <2>1, DemoTyped DEF Output, DemoTypeOK, Packets
  <2>4. Ordered'
    BY <1>1, <1>5, <2>2 DEF Output, Ordered
  <2> QED
    BY <1>3, <2>3, <2>4 DEF DemoInv
<1> QED
  BY <1>4, <1>5 DEF Output

LEMMA DemoInvStep == DemoInv /\ [DemoNext]_demoVars => DemoInv'
<1> SUFFICES ASSUME DemoInv, [DemoNext]_demoVars
             PROVE  DemoInv'
  OBVIOUS
<1>1. /\ DemoTypeOK /\ AllocatedAt /\ Ordered /\ Owing
  BY DEF DemoInv
<1>2. CASE ChooseDemo
  <2>1. DemoTypeOK'
    BY <1>1, <1>2 DEF ChooseDemo, memory, DemoTypeOK
  <2>2. AllocatedAt' /\ Owing'
    BY <1>1, <1>2, DemoTyped DEF ChooseDemo, memory, AllocatedAt, Owing,
                                 HwPlaces
  <2>3. Ordered'
    BY <1>1, <1>2 DEF ChooseDemo, memory, Ordered
  <2> QED
    BY <2>1, <2>2, <2>3 DEF DemoInv
<1>3. CASE HwDecode
  BY <1>3, ReadNextKeeps, SendPacketKeeps, AllocFramesKeeps,
     ReceiveFrameKeeps, TransferFrameKeeps, FrameShownKeeps, FailKeeps
     DEF HwDecode
<1>4. CASE DecodePacket
  BY <1>4, DecodePacketKeeps
<1>5. CASE Output
  BY <1>5, OutputKeeps
<1>6. CASE CloseFile
  <2>1. DemoTypeOK'
    BY <1>1, <1>6 DEF CloseFile, memory, DemoTypeOK
  <2>2. AllocatedAt' /\ Owing'
    BY <1>1, <1>6 DEF CloseFile, memory, AllocatedAt, Owing
  <2>3. Ordered'
    BY <1>1, <1>6 DEF CloseFile, memory, Ordered
  <2> QED
    BY <2>1, <2>2, <2>3 DEF DemoInv
<1>7. CASE UNCHANGED demoVars
  <2> USE <1>7 DEF demoVars, memory
  <2>1. DemoTypeOK'
    BY <1>1 DEF DemoTypeOK
  <2>2. AllocatedAt' /\ Owing'
    BY <1>1 DEF AllocatedAt, Owing
  <2>3. Ordered'
    BY <1>1 DEF Ordered
  <2> QED
    BY <2>1, <2>2, <2>3 DEF DemoInv
<1> QED
  BY <1>2, <1>3, <1>4, <1>5, <1>6, <1>7 DEF DemoNext

(* The programs that decode in one thread have what they think they have:  *)
(* every variable keeps its type, for any number of packets and any delay. *)
THEOREM DemoTypeCorrect == DemoSpec => []DemoTypeOK
<1>1. DemoInv => DemoTypeOK
  BY DEF DemoInv
<1> QED
  BY <1>1, DemoInvInit, DemoInvStep, PTL DEF DemoSpec

(* Whatever fails, decode_write frees what it allocates; frames are shown  *)
(* in the order of their packets, and none is left in the codec but what   *)
(* an end without a flush leaves. *)
THEOREM DemoFramesKept == DemoSpec => []DemoFramesSound
<1>1. DemoInv => DemoFramesSound
  <2> SUFFICES ASSUME DemoInv
               PROVE  DemoFramesSound
    OBVIOUS
  <2>1. /\ DemoTypeOK /\ AllocatedAt /\ Ordered /\ Owing
    BY DEF DemoInv
  <2>2. FramesFreed
    BY <2>1 DEF FramesFreed, AllocatedAt
  <2>3. FramesInOrder
    BY <2>1, DemoTyped, LineInOrder DEF FramesInOrder, Ordered, InHand
  <2>4. NothingOwed
    BY <2>1 DEF NothingOwed, Owing
  <2> QED
    BY <2>2, <2>3, <2>4 DEF DemoFramesSound
<1> QED
  BY <1>1, DemoInvInit, DemoInvStep, PTL DEF DemoSpec
-----------------------------------------------------------------------------
(* The rows that leave the decompressor *)

MainStates == [buffer_full : BOOLEAN, rowgroup_ctr : Nat, iMCU_rows : Nat]
UpsampleStates == [next_row_out : 0..V, rows_to_go : Int, group : Int,
                   spare_full : BOOLEAN]

(* The row group that the upsampler gets next, counted from the top. *)
NextGroup(m) ==
  (IF m.buffer_full THEN m.iMCU_rows - 1 ELSE m.iMCU_rows) * jrd.groups
    + m.rowgroup_ctr

(* How many rows of that group the upsampler has emitted. *)
EmittedOf(u) ==
  CASE ~jrd.merged -> IF u.next_row_out < V THEN u.next_row_out ELSE 0
    [] jrd.merged /\ V = 2 -> IF u.spare_full THEN 1 ELSE 0
    [] OTHER -> 0

(* The main controller and the upsampler stand at row p of the image. *)
Positioned(m, u, p) ==
  /\ m \in MainStates /\ u \in UpsampleStates
  /\ m.rowgroup_ctr < jrd.groups
  /\ IF m.buffer_full THEN m.iMCU_rows > 0 ELSE m.rowgroup_ctr = 0
  /\ p = NextGroup(m) * V + EmittedOf(u)
  /\ ~jrd.merged /\ u.next_row_out < V => u.group = NextGroup(m)
  /\ V # 1 \/ ~jrd.merged => u.rows_to_go = jrd.output_height - p

(* The image that is read *)
ImageTyped ==
  /\ jrd \in [output_height : 1..MaxOutputHeight,
              max_v_samp_factor : 1..4, groups : 1..MaxRowGroups,
              merged : BOOLEAN, quantize : {"no", "one pass", "two passes"}]
  /\ jrd.merged \/ jrd.quantize = "two passes" => V \in {1, 2}
  /\ jrdPlace \in {"start", "scanning"}
  /\ jrdPlace = "start" => jrd.quantize = "two passes"
  /\ output_scanline \in 0..jrd.output_height

(* The second pass, and the first before it, keep their place in the       *)
(* virtual array. *)
PassesAt ==
  /\ jrdPost \in [starting_row : Nat, next_row : 0..V - 1]
  /\ jrdPost.starting_row % V = 0
  /\ jrd.quantize = "two passes" =>
       /\ output_scanline = jrdPost.starting_row + jrdPost.next_row
       /\ whole_image =
            [r \in 0..(IF jrdPlace = "start" THEN output_scanline
                       ELSE jrd.output_height) - 1 |-> r]

JrdInv ==
  /\ ImageTyped /\ PassesAt
  /\ jrd.quantize # "two passes" \/ jrdPlace = "start" =>
       Positioned(jrdMain, upsample, output_scanline)
  /\ scanlines = Rows(0, IF jrdPlace = "start" THEN 0 ELSE output_scanline)

LEMMA MinOfThree ==
  ASSUME NEW a \in Int, NEW b \in Int, NEW c \in Int
  PROVE  /\ Min({a, b, c}) \in {a, b, c}
         /\ Min({a, b, c}) <= a /\ Min({a, b, c}) <= b /\ Min({a, b, c}) <= c
<1> DEFINE S == {a, b, c}
<1>1. \E x \in S : \A y \in S : x <= y
  <2>1. PICK p \in {a, b} : p <= a /\ p <= b
    OBVIOUS
  <2>2. PICK x \in {p, c} : x <= p /\ x <= c
    BY <2>1
  <2>3. x <= a /\ x <= b /\ x <= c /\ x \in S
    BY <2>1, <2>2
  <2> QED
    BY <2>3
<1> HIDE DEF S
<1>2. Min(S) \in S /\ \A y \in S : Min(S) <= y
  BY <1>1 DEF Min
<1> QED
  BY <1>2 DEF S

LEMMA LeastOfTwo ==
  ASSUME NEW a \in Int, NEW b \in Int
  PROVE  /\ Min({a, b}) \in {a, b}
         /\ Min({a, b}) <= a /\ Min({a, b}) <= b
<1>1. {a, b} = {a, a, b}
  OBVIOUS
<1> QED
  BY <1>1, MinOfThree

LEMMA ImageFacts ==
  ASSUME ImageTyped
  PROVE  /\ V \in 1..4 /\ jrd.groups \in Nat \ {0}
         /\ jrd.output_height \in Nat \ {0} /\ output_scanline \in Nat
         /\ output_scanline <= jrd.output_height
         /\ jrd.merged \in BOOLEAN /\ (jrd.merged => V \in {1, 2})
<1>1. {1..MaxOutputHeight, 1..MaxRowGroups} \subseteq SUBSET (Nat \ {0})
  BY JrdAssumption
<1>2. /\ jrd.output_height \in 1..MaxOutputHeight
      /\ jrd.groups \in 1..MaxRowGroups
      /\ jrd.max_v_samp_factor \in 1..4 /\ jrd.merged \in BOOLEAN
      /\ output_scanline \in 0..jrd.output_height
  BY DEF ImageTyped
<1>3. jrd.merged => V \in {1, 2}
  BY DEF ImageTyped
<1>4. jrd.output_height \in Nat \ {0} /\ jrd.groups \in Nat \ {0}
  BY <1>1, <1>2
<1> QED
  BY <1>2, <1>3, <1>4 DEF V

(* One row group further, or still at the same one. *)
LEMMA DrainedNext ==
  ASSUME ImageTyped, NEW m \in MainStates, m.buffer_full, m.iMCU_rows > 0,
         m.rowgroup_ctr < jrd.groups, NEW consumed \in BOOLEAN
  PROVE  LET d == Drained(m, consumed)
         IN  /\ d \in MainStates /\ d.rowgroup_ctr < jrd.groups
             /\ IF d.buffer_full THEN d.iMCU_rows > 0 ELSE d.rowgroup_ctr = 0
             /\ NextGroup(d) = NextGroup(m) + IF consumed THEN 1 ELSE 0
<1> DEFINE d == Drained(m, consumed)
           i == m.iMCU_rows
           c == m.rowgroup_ctr
           g == jrd.groups
<1>1. i \in Nat /\ c \in Nat /\ g \in Nat \ {0} /\ i > 0 /\ c < g
  BY ImageFacts DEF MainStates
<1>2. i * g = (i - 1) * g + g
  BY <1>1
<1>3. NextGroup(m) = (i - 1) * g + c /\ (i - 1) * g \in Int
  BY <1>1 DEF NextGroup
<1>4. CASE consumed /\ c + 1 >= g
  <2>1. d = [buffer_full |-> FALSE, rowgroup_ctr |-> 0, iMCU_rows |-> i]
    <3>1. d = [m EXCEPT !.buffer_full = FALSE, !.rowgroup_ctr = 0]
      BY <1>4, <1>1 DEF Drained
    <3> QED
      BY <3>1 DEF MainStates
  <2>2. /\ d \in MainStates /\ d.rowgroup_ctr = 0 /\ d.iMCU_rows = i
        /\ ~d.buffer_full
    BY <2>1 DEF MainStates
  <2>3. NextGroup(d) = i * g /\ c + 1 = g
    <3> HIDE DEF d
    <3>1. NextGroup(d) = i * g + 0 /\ i * g \in Int
      BY <1>1, <2>2 DEF NextGroup
    <3> QED
      BY <1>1, <1>4, <3>1
  <2>4. NextGroup(d) = NextGroup(m) + 1
    BY <1>1, <1>2, <1>3, <2>3
  <2>5. /\ d \in MainStates /\ d.rowgroup_ctr < g
        /\ IF d.buffer_full THEN d.iMCU_rows > 0 ELSE d.rowgroup_ctr = 0
        /\ NextGroup(d) = NextGroup(m) + 1
    <3> HIDE DEF d
    <3> QED
      BY <1>1, <2>2, <2>4
  <2> QED
    BY <1>4, <2>5
<1>5. CASE ~(consumed /\ c + 1 >= g)
  <2> DEFINE k == c + IF consumed THEN 1 ELSE 0
  <2>1. k \in Nat /\ k < g
    BY <1>1, <1>5
  <2>2. d = [m EXCEPT !.rowgroup_ctr = k]
    BY <1>1, <2>1 DEF Drained
  <2>3. /\ d \in MainStates /\ d.rowgroup_ctr = k /\ d.iMCU_rows = i
        /\ d.buffer_full
    BY <2>1, <2>2 DEF MainStates
  <2>4. NextGroup(d) = (i - 1) * g + k
    BY <2>3 DEF NextGroup
  <2> QED
    BY <1>1, <1>3, <2>1, <2>3, <2>4
<1> QED
  BY <1>4, <1>5

(* The upsampler emits the rows that come next, one at least. *)
LEMMA UpsampledNext ==
  ASSUME ImageTyped, Positioned(jrdMain, upsample, output_scanline),
         output_scanline < jrd.output_height, NEW room \in Nat \ {0}
  PROVE  \E n \in Nat \ {0} :
           /\ n <= room /\ output_scanline + n <= jrd.output_height
           /\ Upsampled(Filled, room).rows = Rows(output_scanline, n)
           /\ Positioned(Drained(Filled, Upsampled(Filled, room).consumed),
                         Upsampled(Filled, room).state, output_scanline + n)
<1> DEFINE m == Filled
           g == NextGroup(jrdMain)
           P == output_scanline
           E == jrd.output_height
           u == upsample
           up == Upsampled(Filled, room)
<1>1. /\ V \in 1..4 /\ jrd.groups \in Nat \ {0} /\ E \in Nat \ {0}
      /\ P \in Nat /\ P < E
      /\ jrd.merged \in BOOLEAN /\ (jrd.merged => V \in {1, 2})
  BY ImageFacts
<1>2. jrdMain \in MainStates /\ u \in UpsampleStates
      /\ P = g * V + EmittedOf(u)
  BY DEF Positioned
<1>3. /\ m \in MainStates /\ m.buffer_full /\ m.iMCU_rows > 0
      /\ m.rowgroup_ctr < jrd.groups
      /\ NextGroup(m) = g
      /\ Group(m) = g /\ g \in Nat
  <2>1. CASE jrdMain.buffer_full
    <3>1. m = jrdMain
      BY <2>1 DEF Filled
    <3>2. m.iMCU_rows - 1 \in Nat /\ m.rowgroup_ctr \in Nat
      BY <1>2, <2>1, <3>1 DEF Positioned, MainStates
    <3>3. (m.iMCU_rows - 1) * jrd.groups \in Nat
      BY <1>1, <3>2
    <3> QED
      BY <1>1, <1>2, <2>1, <3>1, <3>2, <3>3 DEF NextGroup, Group, Positioned
  <2>2. CASE ~jrdMain.buffer_full
    <3>1. m = [jrdMain EXCEPT !.buffer_full = TRUE, !.iMCU_rows = @ + 1]
      BY <2>2 DEF Filled
    <3>2. /\ m \in MainStates /\ m.buffer_full
          /\ m.iMCU_rows = jrdMain.iMCU_rows + 1
          /\ jrdMain.iMCU_rows \in Nat
          /\ m.rowgroup_ctr = 0 /\ jrdMain.rowgroup_ctr = 0
      <4>1. jrdMain.rowgroup_ctr = 0 /\ jrdMain.iMCU_rows \in Nat
        BY <1>2, <2>2 DEF Positioned, MainStates
      <4>2. m = [buffer_full |-> TRUE, rowgroup_ctr |-> 0,
                 iMCU_rows |-> jrdMain.iMCU_rows + 1]
        BY <1>2, <3>1, <4>1 DEF MainStates
      <4> QED
        BY <4>1, <4>2 DEF MainStates
    <3>3. (m.iMCU_rows - 1) * jrd.groups = jrdMain.iMCU_rows * jrd.groups
          /\ jrdMain.iMCU_rows * jrd.groups \in Nat
      BY <1>1, <3>2
    <3> QED
      BY <1>1, <2>2, <3>2, <3>3 DEF NextGroup, Group
  <2> QED
    BY <2>1, <2>2
<1>4. \A consumed \in BOOLEAN :
        LET d == Drained(m, consumed)
        IN  /\ d \in MainStates /\ d.rowgroup_ctr < jrd.groups
            /\ IF d.buffer_full THEN d.iMCU_rows > 0 ELSE d.rowgroup_ctr = 0
            /\ NextGroup(d) = g + IF consumed THEN 1 ELSE 0
  BY <1>3, DrainedNext
<1> HIDE DEF m, g
<1>5. CASE ~jrd.merged
  <2> DEFINE next == IF u.next_row_out >= V THEN 0 ELSE u.next_row_out
             n == Min({V - next, u.rows_to_go, room})
             done == next + n >= V
             new == [u EXCEPT !.group = g, !.next_row_out = next + n,
                              !.rows_to_go = @ - n]
  <2>1. u.rows_to_go = E - P /\ u.next_row_out \in 0..V
        /\ (u.next_row_out < V => u.group = g)
    BY <1>2, <1>5 DEF Positioned, UpsampleStates, g
  <2>2. next \in 0..V - 1 /\ P = g * V + next
    BY <1>1, <1>2, <1>3, <1>5, <2>1 DEF EmittedOf
  <2> HIDE DEF next
  <2>3. n \in Nat \ {0} /\ n <= V - next /\ n <= E - P /\ n <= room
    <3>1. V - next \in Nat \ {0} /\ u.rows_to_go \in Nat \ {0}
      BY <1>1, <2>1, <2>2
    <3> HIDE DEF next
    <3>2. V - next \in Int /\ u.rows_to_go \in Int /\ room \in Int
      BY <3>1
    <3>3. n \in {V - next, u.rows_to_go, room}
          /\ n <= V - next /\ n <= u.rows_to_go /\ n <= room
      BY <3>2, MinOfThree, Zenon
    <3> QED
      BY <2>1, <3>1, <3>3
  <2>4. /\ up.rows = Rows(g * V + next, n) /\ up.state = new
        /\ up.consumed = done
    <3>1. up = sep_upsample(m, room)
      BY <1>5 DEF Upsampled, m
    <3>2. g = IF u.next_row_out >= V THEN Group(m) ELSE u.group
      BY <1>1, <1>3, <2>1
    <3> QED
      BY <3>1, <3>2 DEF sep_upsample, next
  <2> HIDE DEF n
  <2>5. /\ new \in UpsampleStates /\ new.next_row_out = next + n
        /\ new.rows_to_go = E - (P + n) /\ new.group = g
    <3>1. u.rows_to_go - n = E - (P + n) /\ E - (P + n) \in Int
          /\ next + n \in 0..V /\ g \in Int
      BY <1>1, <1>3, <2>1, <2>2, <2>3
    <3> QED
      <4>1. PICK a \in 0..V : a = next + n
        BY <3>1
      <4>2. PICK b \in Int : b = u.rows_to_go - n
        BY <3>1
      <4>3. new = [u EXCEPT !.group = g, !.next_row_out = a, !.rows_to_go = b]
        BY <4>1, <4>2
      <4>4. /\ new \in UpsampleStates /\ new.next_row_out = a
            /\ new.rows_to_go = b /\ new.group = g
        <5> DEFINE to == [u EXCEPT !.group = g, !.next_row_out = a,
                                   !.rows_to_go = b]
        <5>1. u \in UpsampleStates /\ g \in Int
          BY <1>2, <3>1
        <5>2. /\ to \in UpsampleStates /\ to.next_row_out = a
              /\ to.rows_to_go = b /\ to.group = g
          BY <5>1 DEF UpsampleStates
        <5>3. new = to
          BY <4>3
        <5> HIDE DEF to, new
        <5> QED
          BY <5>2, <5>3
      <4> QED
        BY <3>1, <4>1, <4>2, <4>4
  <2> HIDE DEF new
  <2>6. done \in BOOLEAN
    OBVIOUS
  <2>7. P + n = NextGroup(Drained(m, done)) * V + EmittedOf(new)
    <3>1. CASE done
      <4>1. next + n = V /\ EmittedOf(new) = 0
        BY <1>1, <1>5, <2>2, <2>3, <2>5, <3>1 DEF EmittedOf
      <4>2. NextGroup(Drained(m, done)) = g + 1
        BY <1>4, <2>6, <3>1
      <4>3. (g + 1) * V = g * V + V /\ g * V \in Int
        BY <1>1, <1>3
      <4> QED
        BY <1>1, <2>2, <2>3, <4>1, <4>2, <4>3
    <3>2. CASE ~done
      <4>1. EmittedOf(new) = next + n
        BY <1>1, <1>5, <2>2, <2>3, <2>5, <3>2 DEF EmittedOf
      <4>2. NextGroup(Drained(m, done)) = g /\ g * V \in Int
        <5>1. NextGroup(Drained(m, done)) = g + 0
          BY <1>4, <2>6, <3>2
        <5> QED
          BY <1>1, <1>3, <5>1
      <4> QED
        BY <1>1, <2>2, <2>3, <4>1, <4>2
    <3> QED
      BY <3>1, <3>2
  <2>8. new.next_row_out < V => new.group = NextGroup(Drained(m, done))
    <3> SUFFICES ASSUME next + n < V
                 PROVE  NextGroup(Drained(m, done)) = g
      BY <2>5
    <3>1. ~done
      BY <1>1, <2>2, <2>3
    <3>2. NextGroup(Drained(m, done)) = g + 0
      BY <1>4, <2>6, <3>1
    <3> QED
      BY <1>3, <3>2
  <2>9. Positioned(Drained(m, done), new, P + n)
    BY <1>4, <1>5, <2>5, <2>6, <2>7, <2>8 DEF Positioned
  <2>10. P + n <= E
    BY <1>1, <2>3
  <2> QED
    BY <2>2, <2>3, <2>4, <2>9, <2>10 DEF m
<1>6. CASE jrd.merged /\ V = 2
  <2> DEFINE n == IF u.spare_full THEN 1 ELSE Min({2, u.rows_to_go, room})
             first == g * 2 + (IF u.spare_full THEN 1 ELSE 0)
             spare == ~u.spare_full /\ n <= 1
             new == [u EXCEPT !.spare_full = spare, !.rows_to_go = @ - n]
  <2>1. u.rows_to_go = E - P /\ u.spare_full \in BOOLEAN
    BY <1>2, <1>6 DEF Positioned, UpsampleStates
  <2>2. first = P
    BY <1>2, <1>6 DEF EmittedOf
  <2>3. n \in {1, 2} /\ n <= E - P /\ n <= room
        /\ (u.spare_full => n = 1)
    <3>1. CASE u.spare_full
      BY <1>1, <3>1
    <3>2. CASE ~u.spare_full
      <4>1. u.rows_to_go \in Nat \ {0}
        BY <1>1, <2>1
      <4>2. u.rows_to_go \in Int /\ room \in Int /\ 2 \in Int
        BY <4>1
      <4>3. n = Min({2, u.rows_to_go, room})
        BY <3>2
      <4>4. n \in {2, u.rows_to_go, room} /\ n <= 2 /\ n <= u.rows_to_go
            /\ n <= room
        <5>1. PICK two \in Int : two = 2
          OBVIOUS
        <5> HIDE DEF n
        <5>2. n = Min({two, u.rows_to_go, room})
          BY <4>3, <5>1
        <5>3. n \in {two, u.rows_to_go, room} /\ n <= two
              /\ n <= u.rows_to_go /\ n <= room
          BY <4>2, <5>1, <5>2, MinOfThree, Zenon
        <5> QED
          BY <5>1, <5>3
      <4> QED
        BY <2>1, <3>2, <4>1, <4>4
    <3> QED
      BY <3>1, <3>2
  <2>4. up.rows = Rows(first, n) /\ up.state = new /\ up.consumed = ~spare
    BY <1>3, <1>6 DEF Upsampled, merged_2v_upsample, m
  <2> HIDE DEF n
  <2>5. /\ new \in UpsampleStates /\ new.spare_full = spare
        /\ new.rows_to_go = E - (P + n)
    <3>1. u.rows_to_go - n = E - (P + n) /\ E - (P + n) \in Int
      BY <1>1, <2>1, <2>3
    <3>2. spare \in BOOLEAN
      OBVIOUS
    <3> QED
      <4>1. PICK b \in Int : b = u.rows_to_go - n
        BY <3>1
      <4>2. new = [u EXCEPT !.spare_full = spare, !.rows_to_go = b]
        BY <4>1
      <4> HIDE DEF spare
      <4>3. /\ new \in UpsampleStates /\ new.spare_full = spare
            /\ new.rows_to_go = b
        <5> DEFINE to == [u EXCEPT !.spare_full = spare, !.rows_to_go = b]
        <5>1. u \in UpsampleStates
          BY <1>2
        <5>2. /\ to \in UpsampleStates /\ to.spare_full = spare
              /\ to.rows_to_go = b
          BY <3>2, <5>1 DEF UpsampleStates
        <5>3. new = to
          BY <4>2
        <5> HIDE DEF to, new
        <5> QED
          BY <5>2, <5>3
      <4> QED
        BY <3>1, <4>1, <4>3
  <2> HIDE DEF new
  <2>6. NextGroup(Drained(m, ~spare)) = g + IF ~spare THEN 1 ELSE 0
    BY <1>4
  <2>7. P + n = NextGroup(Drained(m, ~spare)) * V + EmittedOf(new)
    <3>1. EmittedOf(new) = IF spare THEN 1 ELSE 0
      BY <1>6, <2>5 DEF EmittedOf
    <3>2. g \in Nat /\ P = g * 2 + (IF u.spare_full THEN 1 ELSE 0)
      BY <1>3, <2>2
    <3> QED
      BY <1>6, <2>1, <2>3, <2>6, <3>1, <3>2
  <2>8. Positioned(Drained(m, ~spare), new, P + n)
    BY <1>4, <1>6, <2>5, <2>7 DEF Positioned
  <2>9. P + n <= E /\ n \in Nat \ {0}
    BY <1>1, <2>3
  <2> QED
    BY <2>2, <2>3, <2>4, <2>8, <2>9 DEF m
<1>7. CASE jrd.merged /\ V # 2
  <2>1. V = 1
    BY <1>1, <1>7
  <2>2. up.rows = <<g>> /\ up.state = u /\ up.consumed = TRUE
    BY <1>3, <1>7 DEF Upsampled, merged_1v_upsample, m
  <2>3. P = g
    BY <1>2, <1>3, <1>7, <2>1 DEF EmittedOf
  <2>4. up.rows = Rows(P, 1)
    BY <1>1, <2>2, <2>3 DEF Rows
  <2>5. NextGroup(Drained(m, TRUE)) = g + 1
    BY <1>4
  <2>6. P + 1 = NextGroup(Drained(m, TRUE)) * V + EmittedOf(u)
    <3>1. EmittedOf(u) = 0
      BY <1>7, <2>1 DEF EmittedOf
    <3> QED
      <4>1. (g + 1) * V = g + 1
        BY <1>3, <2>1
      <4>2. NextGroup(Drained(m, TRUE)) * V = g + 1
        BY <2>5, <4>1
      <4> QED
        <5>1. PICK x \in Nat : x = g /\ NextGroup(Drained(m, TRUE)) * V = x + 1
          BY <1>3, <4>2
        <5>2. P + 1 = x + 1
          BY <2>3, <5>1
        <5>3. x + 1 = (x + 1) + 0
          OBVIOUS
        <5> QED
          BY <3>1, <5>1, <5>2, <5>3, Zenon
  <2>7. Positioned(Drained(m, TRUE), u, P + 1)
    BY <1>2, <1>4, <1>7, <2>1, <2>6 DEF Positioned
  <2>8. 1 <= room /\ P + 1 <= E /\ 1 \in Nat \ {0}
    BY <1>1
  <2> QED
    BY <2>2, <2>4, <2>7, <2>8 DEF m
<1> QED
  BY <1>5, <1>6, <1>7

LEMMA RowsFacts ==
  ASSUME NEW i \in Int, NEW n \in Nat
  PROVE  /\ Rows(i, n) \in Seq(Int) /\ Len(Rows(i, n)) = n
         /\ \A k \in 1..n : Rows(i, n)[k] = i + k - 1
<1>1. Rows(i, n) \in [1..n -> Int]
  BY DEF Rows
<1> QED
  BY <1>1, SeqDef, LenProperties DEF Rows

LEMMA RowsJoin ==
  ASSUME NEW p \in Nat, NEW n \in Nat
  PROVE  Rows(0, p) \o Rows(p, n) = Rows(0, p + n)
<1>1. PICK a \in Seq(Int) : /\ a = Rows(0, p) /\ Len(a) = p
                            /\ \A k \in 1..p : a[k] = k - 1
  <2>1. \A k \in 1..p : 0 + k - 1 = k - 1
    OBVIOUS
  <2> QED
    BY <2>1, RowsFacts
<1>2. PICK b \in Seq(Int) : /\ b = Rows(p, n) /\ Len(b) = n
                            /\ \A k \in 1..n : b[k] = p + k - 1
  BY RowsFacts
<1>3. PICK c \in Seq(Int) : /\ c = Rows(0, p + n) /\ Len(c) = p + n
                            /\ \A k \in 1..p + n : c[k] = k - 1
  <2>1. p + n \in Nat /\ \A k \in 1..p + n : 0 + k - 1 = k - 1
    OBVIOUS
  <2> QED
    BY <2>1, RowsFacts
<1>4. /\ a \o b \in Seq(Int) /\ Len(a \o b) = p + n
      /\ \A i \in 1..p + n : (a \o b)[i] = IF i <= p THEN a[i] ELSE b[i - p]
  <2>1. /\ a \o b \in Seq(Int) /\ Len(a \o b) = Len(a) + Len(b)
        /\ \A i \in 1..Len(a) + Len(b) :
             (a \o b)[i] = IF i <= Len(a) THEN a[i] ELSE b[i - Len(a)]
    BY ConcatProperties
  <2> QED
    BY <1>1, <1>2, <2>1
<1>5. \A i \in 1..p + n : (a \o b)[i] = c[i]
  <2> SUFFICES ASSUME NEW i \in 1..p + n
               PROVE  (a \o b)[i] = c[i]
    OBVIOUS
  <2>1. CASE i <= p
    <3>1. i \in 1..p
      BY <2>1
    <3> QED
      BY <1>1, <1>3, <1>4, <2>1, <3>1
  <2>2. CASE ~(i <= p)
    <3>1. i - p \in 1..n /\ p + (i - p) - 1 = i - 1
      BY <2>2
    <3> QED
      BY <1>2, <1>3, <1>4, <2>2, <3>1
  <2> QED
    BY <2>1, <2>2
<1>6. a \o b = c
  BY <1>3, <1>4, <1>5, SeqEqual
<1> QED
  BY <1>1, <1>2, <1>3, <1>6

LEMMA JrdInvInit ==
  ASSUME TwoPassVSampFactors \subseteq {1, 2}
  PROVE  JrdInit => JrdInv
<1> SUFFICES ASSUME JrdInit
             PROVE  JrdInv
  OBVIOUS
<1>1. ImageTyped
  <2>1. /\ jrd.output_height \in 1..MaxOutputHeight
        /\ jrd.groups \in 1..MaxRowGroups /\ jrd.merged \in BOOLEAN
        /\ jrd.quantize \in {"no", "one pass", "two passes"}
        /\ jrd.max_v_samp_factor \in 1..4
    BY JrdAssumption DEF JrdInit
  <2>2. jrd.merged \/ jrd.quantize = "two passes" => V \in {1, 2}
    <3>1. jrd.merged => V <= 2
      BY DEF JrdInit
    <3>2. jrd.quantize = "two passes" => V \in TwoPassVSampFactors
      BY DEF JrdInit
    <3>3. \A x \in 1..4 : x <= 2 => x \in {1, 2}
      OBVIOUS
    <3>4. V \in 1..4
      BY <2>1 DEF V
    <3>5. jrd.merged => V \in {1, 2}
      BY <3>1, <3>3, <3>4
    <3> QED
      BY <3>2, <3>5
  <2>3. jrd = [output_height |-> jrd.output_height,
               max_v_samp_factor |-> jrd.max_v_samp_factor,
               groups |-> jrd.groups, merged |-> jrd.merged,
               quantize |-> jrd.quantize]
    BY DEF JrdInit
  <2>4. /\ jrdPlace \in {"start", "scanning"}
        /\ jrdPlace = "start" => jrd.quantize = "two passes"
        /\ output_scanline = 0
    BY DEF JrdInit
  <2>5. 0 \in 0..jrd.output_height
    <3>1. 1..MaxOutputHeight \subseteq Nat \ {0}
      BY JrdAssumption
    <3>2. jrd.output_height \in Nat
      BY <2>1, <3>1
    <3> QED
      BY <3>2
  <2> QED
    BY <2>1, <2>2, <2>3, <2>4, <2>5 DEF ImageTyped
<1>2. V \in 1..4 /\ jrd.output_height \in Nat \ {0} /\ jrd.groups \in Nat \ {0}
  BY <1>1, ImageFacts
<1>3. /\ jrdPost = [starting_row |-> 0, next_row |-> 0]
      /\ jrdMain = [buffer_full |-> FALSE, rowgroup_ctr |-> 0, iMCU_rows |-> 0]
      /\ upsample = [next_row_out |-> V, rows_to_go |-> jrd.output_height,
                     group |-> 0, spare_full |-> FALSE]
      /\ output_scanline = 0 /\ scanlines = <<>>
      /\ whole_image = [r \in {} |-> 0]
      /\ jrd.quantize = "two passes" => jrdPlace = "start"
  BY DEF JrdInit
<1>4. PassesAt
  <2>1. 0 % V = 0
    BY <1>2
  <2>2. jrdPost.starting_row = 0 /\ jrdPost.next_row = 0
    BY <1>3
  <2>3. jrdPost \in [starting_row : Nat, next_row : 0..V - 1]
    <3>1. 0 \in Nat /\ 0 \in 0..V - 1
      BY <1>2
    <3> QED
      BY <1>3, <3>1
  <2>4. whole_image = [r \in 0..0 - 1 |-> r]
    <3>1. 0..0 - 1 = {}
      OBVIOUS
    <3>2. [r \in {} |-> r] = [r \in {} |-> 0]
      OBVIOUS
    <3> QED
      BY <1>3, <3>1, <3>2
  <2>5. jrd.quantize = "two passes" =>
          /\ output_scanline = jrdPost.starting_row + jrdPost.next_row
          /\ whole_image =
               [r \in 0..(IF jrdPlace = "start" THEN output_scanline
                          ELSE jrd.output_height) - 1 |-> r]
    <3>1. output_scanline = 0 /\ whole_image = [r \in {} |-> 0]
          /\ (jrd.quantize = "two passes" => jrdPlace = "start")
      BY <1>3
    <3>2. jrdPost.starting_row + jrdPost.next_row = 0
      BY <2>2
    <3> QED
      BY <2>4, <3>1, <3>2
  <2> QED
    BY <2>1, <2>2, <2>3, <2>5 DEF PassesAt
<1>5. Positioned(jrdMain, upsample, output_scanline)
  <2>1. jrdMain \in MainStates /\ upsample \in UpsampleStates
    <3>1. V \in 0..V /\ jrd.output_height \in Int
      BY <1>2
    <3>2. jrdMain \in MainStates
      BY <1>3 DEF MainStates
    <3>3. upsample = [next_row_out |-> V, rows_to_go |-> jrd.output_height,
                      group |-> 0, spare_full |-> FALSE]
      BY <1>3
    <3> HIDE DEF V
    <3>4. upsample \in UpsampleStates
      BY <3>1, <3>3 DEF UpsampleStates
    <3> QED
      BY <3>2, <3>4
  <2>2. jrdMain.rowgroup_ctr = 0 /\ ~jrdMain.buffer_full
        /\ jrdMain.iMCU_rows = 0 /\ upsample.next_row_out = V
        /\ upsample.rows_to_go = jrd.output_height
        /\ upsample.spare_full = FALSE
    BY <1>3
  <2>3. NextGroup(jrdMain) = 0
    BY <1>2, <2>2 DEF NextGroup
  <2>4. EmittedOf(upsample) = 0
    BY <1>2, <2>2 DEF EmittedOf
  <2> QED
    <3>1. output_scanline = NextGroup(jrdMain) * V + EmittedOf(upsample)
      <4>1. output_scanline = 0
        BY <1>3
      <4> QED
        BY <1>2, <2>3, <2>4, <4>1
    <3>2. ~(upsample.next_row_out < V)
      BY <1>2, <2>2
    <3>3. jrd.output_height - output_scanline = jrd.output_height
          /\ 0 < jrd.groups
      <4>1. output_scanline = 0
        BY <1>3
      <4> QED
        BY <1>2, <4>1
    <3> QED
      BY <2>1, <2>2, <3>1, <3>2, <3>3 DEF Positioned
<1>6. scanlines = Rows(0, IF jrdPlace = "start" THEN 0 ELSE output_scanline)
  <2>1. Rows(0, 0) = <<>>
    BY DEF Rows
  <2> QED
    BY <1>3, <2>1
<1> QED
  BY <1>1, <1>4, <1>5, <1>6 DEF JrdInv

(* A step that keeps the image keeps what it says of places in it. *)
LEMMA PositionedThen ==
  ASSUME jrd' = jrd, NEW m, NEW u, NEW p, Positioned(m, u, p),
         jrdMain' = m, upsample' = u, output_scanline' = p
  PROVE  Positioned(jrdMain, upsample, output_scanline)'
BY DEF Positioned, NextGroup, EmittedOf, MainStates, UpsampleStates, V

LEMMA ReadScanlinesKeeps ==
  ASSUME JrdInv, NEW max_lines \in 1..MaxOutputHeight,
         jpeg_read_scanlines(max_lines)
  PROVE  JrdInv'
<1> DEFINE room == Room(max_lines)
<1>1. /\ ImageTyped /\ PassesAt /\ jrd.quantize # "two passes"
      /\ jrdPlace = "scanning" /\ output_scanline < jrd.output_height
      /\ Positioned(jrdMain, upsample, output_scanline)
      /\ scanlines = Rows(0, output_scanline)
  BY DEF JrdInv, jpeg_read_scanlines
<1>2. /\ V \in 1..4 /\ output_scanline \in Nat /\ jrd.output_height \in Nat
  BY <1>1, ImageFacts
<1>3. max_lines \in Nat \ {0}
  BY JrdAssumption
<1>4. room \in Nat \ {0}
  <2>1. PICK v \in Int : v = V /\ v > 0
    BY <1>2
  <2>2. Min({max_lines, v}) \in {max_lines, v}
    BY <1>3, LeastOfTwo
  <2>3. Min({max_lines, V}) \in Nat \ {0}
    BY <1>3, <2>1, <2>2
  <2> QED
    BY <1>3, <2>3 DEF Room
<1> HIDE DEF room
<1>5. PICK n \in Nat \ {0} :
        /\ n <= room /\ output_scanline + n <= jrd.output_height
        /\ Upsampled(Filled, room).rows = Rows(output_scanline, n)
        /\ Positioned(Drained(Filled, Upsampled(Filled, room).consumed),
                      Upsampled(Filled, room).state, output_scanline + n)
  BY <1>1, <1>4, UpsampledNext
<1>6. /\ jrdMain' = Drained(Filled, Upsampled(Filled, room).consumed)
      /\ upsample' = Upsampled(Filled, room).state
      /\ scanlines' = scanlines \o Rows(output_scanline, n)
      /\ output_scanline' = output_scanline + n
      /\ UNCHANGED <<jrd, jrdPlace, jrdPost, whole_image>>
  <2>1. Len(Rows(output_scanline, n)) = n
    BY <1>2, RowsFacts
  <2> QED
    BY <1>5, <2>1 DEF jpeg_read_scanlines, room
<1>7. ImageTyped'
  <2>1. output_scanline' \in 0..jrd.output_height
    BY <1>2, <1>5, <1>6
  <2> QED
    BY <1>1, <1>6, <2>1 DEF ImageTyped, V
<1>8. PassesAt'
  BY <1>1, <1>6 DEF PassesAt, V
<1>9. Positioned(jrdMain, upsample, output_scanline)'
  BY <1>5, <1>6, PositionedThen
<1>10. scanlines' = Rows(0, output_scanline')
  BY <1>1, <1>2, <1>6, RowsJoin
<1>11. (scanlines = Rows(0, IF jrdPlace = "start" THEN 0
                           ELSE output_scanline))'
  BY <1>1, <1>6, <1>10 DEF Rows
<1> QED
  BY <1>7, <1>8, <1>9, <1>11 DEF JrdInv

(* With one or two rows in a strip, the strip that begins inside of the    *)
(* image is inside of the array. *)
LEMMA StripsFit ==
  ASSUME NEW s \in Nat, NEW e \in Nat, NEW v \in {1, 2}, s % v = 0, s < e
  PROVE  s + v <= ((e - 1) \div v + 1) * v
<1>1. CASE v = 1
  <2>1. (e - 1) \div 1 = e - 1
    OBVIOUS
  <2> QED
    BY <1>1, <2>1
<1>2. CASE v = 2
  <2>1. s % 2 = 0 => s + 2 <= ((e - 1) \div 2 + 1) * 2
    OBVIOUS
  <2> QED
    BY <1>2, <2>1
<1> QED
  BY <1>1, <1>2

LEMMA StripFound ==
  ASSUME ImageTyped, PassesAt
  PROVE  /\ jrd.quantize = "two passes"
         /\ output_scanline < jrd.output_height /\ jrdPost.next_row = 0
         => StripExists
<1>1. jrd.quantize = "two passes" => V \in {1, 2}
  BY DEF ImageTyped
<1>2. jrd.output_height \in Nat
  BY ImageFacts
<1>3. /\ jrdPost.starting_row \in Nat /\ jrdPost.starting_row % V = 0
      /\ jrd.quantize = "two passes" =>
           output_scanline = jrdPost.starting_row + jrdPost.next_row
  BY DEF PassesAt
<1>4. ASSUME jrd.quantize = "two passes", jrdPost.next_row = 0,
             output_scanline < jrd.output_height
      PROVE  StripExists
  <2>1. PICK s \in Nat : /\ s = jrdPost.starting_row /\ s % V = 0
                         /\ s = output_scanline
    <3>1. PICK s \in Nat : s = jrdPost.starting_row /\ s % V = 0
      BY <1>3
    <3>2. s + 0 = s
      OBVIOUS
    <3>3. output_scanline = s + 0
      BY <1>3, <1>4, <3>1, Zenon
    <3> QED
      BY <3>1, <3>2, <3>3
  <2>2. s < jrd.output_height /\ V \in {1, 2}
    BY <1>1, <1>4, <2>1
  <2>3. s + V <= ((jrd.output_height - 1) \div V + 1) * V
    BY <1>2, <2>1, <2>2, StripsFit
  <2> QED
    BY <2>1, <2>3 DEF StripExists, ImageHeight
<1> QED
  BY <1>4

(* The place in the virtual array goes on with the rows. *)
LEMMA AdvancedOn ==
  ASSUME PassesAt, V \in {1, 2}, NEW n \in Nat, n <= V - jrdPost.next_row
  PROVE  /\ Advanced(n) \in [starting_row : Nat, next_row : 0..V - 1]
         /\ Advanced(n).starting_row % V = 0
         /\ Advanced(n).starting_row + Advanced(n).next_row
              = jrdPost.starting_row + jrdPost.next_row + n
<1>1. PICK s \in Nat, r \in 0..V - 1 :
        jrdPost = [starting_row |-> s, next_row |-> r] /\ s % V = 0
  <2>1. /\ jrdPost \in [starting_row : Nat, next_row : 0..V - 1]
        /\ jrdPost.starting_row % V = 0
    BY DEF PassesAt
  <2>2. jrdPost = [starting_row |-> jrdPost.starting_row,
                   next_row |-> jrdPost.next_row]
        /\ jrdPost.starting_row \in Nat /\ jrdPost.next_row \in 0..V - 1
    BY <2>1
  <2> QED
    BY <2>1, <2>2
<1>2. jrdPost.starting_row = s /\ jrdPost.next_row = r
  BY <1>1
<1>3. CASE r + n >= V
  <2>1. r + n = V /\ s + V \in Nat /\ 0 \in 0..V - 1
    BY <1>2, <1>3
  <2>2. Advanced(n) = [starting_row |-> s + V, next_row |-> 0]
    BY <1>2, <1>3 DEF Advanced
  <2>3. (s + V) % V = 0
    <3>1. CASE V = 1
      BY <3>1
    <3>2. CASE V = 2
      BY <1>1, <3>2
    <3> QED
      BY <3>1, <3>2
  <2> QED
    BY <1>2, <2>1, <2>2, <2>3
<1>4. CASE ~(r + n >= V)
  <2>1. r + n \in 0..V - 1 /\ s + (r + n) = s + r + n
    BY <1>4
  <2>2. Advanced(n) = [starting_row |-> s, next_row |-> r + n]
    BY <1>1, <1>2, <1>4 DEF Advanced
  <2> QED
    BY <1>1, <1>2, <2>1, <2>2
<1> QED
  BY <1>3, <1>4

LEMMA DummyPassKeeps ==
  ASSUME JrdInv, DummyPass
  PROVE  JrdInv'
<1> DEFINE room == V - jrdPost.next_row
           p == output_scanline
<1>1. /\ ImageTyped /\ PassesAt /\ jrd.quantize = "two passes"
      /\ jrdPlace = "start" /\ p < jrd.output_height
      /\ Positioned(jrdMain, upsample, p)
      /\ scanlines = Rows(0, 0)
  BY DEF JrdInv, DummyPass, ImageTyped
<1>2. /\ V \in {1, 2} /\ p \in Nat /\ jrd.output_height \in Nat
  BY <1>1, ImageFacts DEF ImageTyped
<1>3. /\ jrdPost.next_row \in 0..V - 1
      /\ p = jrdPost.starting_row + jrdPost.next_row
      /\ whole_image = [r \in 0..p - 1 |-> r]
  BY <1>1 DEF PassesAt
<1>4. room \in Nat \ {0}
  BY <1>2, <1>3
<1> HIDE DEF room
<1>5. PICK n \in Nat \ {0} :
        /\ n <= room /\ p + n <= jrd.output_height
        /\ Upsampled(Filled, room).rows = Rows(p, n)
        /\ Positioned(Drained(Filled, Upsampled(Filled, room).consumed),
                      Upsampled(Filled, room).state, p + n)
  BY <1>1, <1>4, UpsampledNext
<1>6. Rows(p, n) # <<>> /\ Len(Rows(p, n)) = n
      /\ \A k \in 1..n : Rows(p, n)[k] = p + k - 1
  <2>1. Len(Rows(p, n)) = n /\ \A k \in 1..n : Rows(p, n)[k] = p + k - 1
    <3>1. p \in Int /\ n \in Nat
      BY <1>2
    <3> QED
      BY <3>1, RowsFacts, Zenon
  <2>2. Len(<<>>) = 0
    OBVIOUS
  <2> QED
    BY <2>1, <2>2
<1>7. /\ jrdMain' = Drained(Filled, Upsampled(Filled, room).consumed)
      /\ upsample' = Upsampled(Filled, room).state
      /\ whole_image' =
           [r \in DOMAIN whole_image \cup (p..p + n - 1) |->
              IF r >= p THEN Rows(p, n)[r - p + 1] ELSE whole_image[r]]
      /\ jrdPost' = Advanced(n)
      /\ output_scanline' = p + n
      /\ UNCHANGED <<jrd, scanlines>>
  BY <1>3, <1>5, <1>6 DEF DummyPass, room
<1>8. jrdPlace' = "start"
  <2>1. jrdPost.next_row = 0 => StripExists
    BY <1>1, StripFound
  <2> QED
    BY <1>5, <1>6, <2>1 DEF DummyPass, room
<1>9. ImageTyped'
  <2>1. p + n \in 0..jrd.output_height
    BY <1>2, <1>5
  <2> QED
    BY <1>1, <1>7, <1>8, <2>1 DEF ImageTyped, V
<1>10. whole_image' = [r \in 0..p + n - 1 |-> r]
  <2>1. DOMAIN whole_image \cup (p..p + n - 1) = 0..p + n - 1
    BY <1>2, <1>3
  <2>2. \A r \in 0..p + n - 1 :
          (IF r >= p THEN Rows(p, n)[r - p + 1] ELSE whole_image[r]) = r
    <3> SUFFICES ASSUME NEW r \in 0..p + n - 1
                 PROVE  (IF r >= p THEN Rows(p, n)[r - p + 1]
                                   ELSE whole_image[r]) = r
      OBVIOUS
    <3>1. CASE r >= p
      <4>1. r - p + 1 \in 1..n /\ p + (r - p + 1) - 1 = r
        BY <1>2, <3>1
      <4> QED
        BY <1>6, <3>1, <4>1
    <3>2. CASE ~(r >= p)
      <4>1. r \in 0..p - 1
        BY <1>2, <3>2
      <4> QED
        BY <1>3, <3>2, <4>1
    <3> QED
      BY <3>1, <3>2
  <2> QED
    BY <1>7, <2>1, <2>2
<1>11. PassesAt'
  <2>1. /\ jrdPost' \in [starting_row : Nat, next_row : 0..V - 1]
        /\ jrdPost'.starting_row % V = 0
        /\ jrdPost'.starting_row + jrdPost'.next_row = p + n
    BY <1>1, <1>2, <1>3, <1>5, <1>7, AdvancedOn DEF room
  <2>2. /\ jrdPlace' = "start" /\ output_scanline' = p + n /\ jrd' = jrd
        /\ whole_image' = [r \in 0..p + n - 1 |-> r]
    BY <1>7, <1>8, <1>10
  <2>3. (/\ jrdPost \in [starting_row : Nat, next_row : 0..V - 1]
         /\ jrdPost.starting_row % V = 0)'
    BY <2>1, <2>2 DEF V
  <2>4. (jrd.quantize = "two passes" =>
           /\ output_scanline = jrdPost.starting_row + jrdPost.next_row
           /\ whole_image =
                [r \in 0..(IF jrdPlace = "start" THEN output_scanline
                           ELSE jrd.output_height) - 1 |-> r])'
    <3> DEFINE top == IF jrdPlace' = "start" THEN output_scanline'
                      ELSE jrd'.output_height
    <3>1. top = p + n
      BY <2>2
    <3> HIDE DEF top
    <3>2. whole_image' = [r \in 0..top - 1 |-> r]
      BY <1>2, <2>2, <3>1
    <3> QED
      BY <2>1, <2>2, <3>2 DEF top
  <2> QED
    BY <2>3, <2>4 DEF PassesAt
<1>12. Positioned(jrdMain, upsample, output_scanline)'
  BY <1>5, <1>7, PositionedThen
<1>13. (scanlines = Rows(0, IF jrdPlace = "start" THEN 0
                           ELSE output_scanline))'
  BY <1>1, <1>7, <1>8 DEF Rows
<1> QED
  BY <1>9, <1>11, <1>12, <1>13 DEF JrdInv

LEMMA SecondPassKeeps ==
  ASSUME JrdInv, SecondPass
  PROVE  JrdInv'
<1>1. /\ ImageTyped /\ PassesAt /\ jrd.quantize = "two passes"
      /\ jrdPlace = "start" /\ scanlines = Rows(0, 0)
      /\ output_scanline >= jrd.output_height
      /\ jrdPlace' = "scanning" /\ output_scanline' = 0
      /\ jrdPost' = [starting_row |-> 0, next_row |-> 0]
      /\ UNCHANGED <<jrd, jrdMain, upsample, whole_image, scanlines>>
  BY DEF JrdInv, SecondPass, ImageTyped
<1>2. /\ V \in {1, 2} /\ output_scanline = jrd.output_height
      /\ jrd.output_height \in Nat
  <2>1. V \in {1, 2} /\ jrd.output_height \in Nat /\ output_scanline \in Nat
        /\ output_scanline <= jrd.output_height
    BY <1>1, ImageFacts DEF ImageTyped
  <2>2. output_scanline >= jrd.output_height
    BY <1>1
  <2>3. output_scanline = jrd.output_height
    BY <2>1, <2>2
  <2> QED
    BY <2>1, <2>3
<1>3. ImageTyped'
  <2>1. 0 \in 0..jrd.output_height
    BY <1>2
  <2> QED
    BY <1>1, <2>1 DEF ImageTyped, V
<1>4. PassesAt'
  <2>1. /\ jrdPost' \in [starting_row : Nat, next_row : 0..V - 1]
        /\ jrdPost'.starting_row % V = 0
        /\ jrdPost'.starting_row + jrdPost'.next_row = 0
    <3>1. 0 % V = 0 /\ 0 \in 0..V - 1 /\ 0 \in Nat
      BY <1>2
    <3>2. jrdPost'.starting_row = 0 /\ jrdPost'.next_row = 0
      BY <1>1
    <3>3. jrdPost' = [starting_row |-> 0, next_row |-> 0]
      BY <1>1
    <3> QED
      BY <3>1, <3>2, <3>3
  <2>2. whole_image = [r \in 0..jrd.output_height - 1 |-> r]
    BY <1>1, <1>2 DEF PassesAt
  <2> QED
    BY <1>1, <2>1, <2>2 DEF PassesAt, V
<1>5. (scanlines = Rows(0, IF jrdPlace = "start" THEN 0
                          ELSE output_scanline))'
  BY <1>1 DEF Rows
<1>6. ~(jrd'.quantize # "two passes" \/ jrdPlace' = "start")
  BY <1>1
<1> QED
  BY <1>3, <1>4, <1>5, <1>6 DEF JrdInv

LEMMA ReadScanlines2Keeps ==
  ASSUME JrdInv, NEW max_lines \in 1..MaxOutputHeight,
         jpeg_read_scanlines_2pass(max_lines)
  PROVE  JrdInv'
<1> DEFINE p == output_scanline
           n == TwoPassRows(max_lines)
           e == jrd.output_height
<1>1. /\ ImageTyped /\ PassesAt /\ jrd.quantize = "two passes"
      /\ jrdPlace = "scanning" /\ p < e /\ scanlines = Rows(0, p)
  BY DEF JrdInv, jpeg_read_scanlines_2pass
<1>2. V \in {1, 2} /\ p \in Nat /\ e \in Nat
  BY <1>1, ImageFacts DEF ImageTyped
<1>3. /\ jrdPost.next_row \in 0..V - 1 /\ jrdPost.starting_row \in Nat
      /\ p = jrdPost.starting_row + jrdPost.next_row
      /\ whole_image = [r \in 0..e - 1 |-> r]
  BY <1>1 DEF PassesAt
<1>4. n \in Nat \ {0} /\ n <= V - jrdPost.next_row /\ p + n <= e
  <2>1. PICK a \in Int : a = V - jrdPost.next_row
    BY <1>2, <1>3
  <2>2. PICK c \in Int : c = e - jrdPost.starting_row
    BY <1>2, <1>3
  <2>3. max_lines \in Nat \ {0}
    BY JrdAssumption
  <2>4. n = Min({a, max_lines, c})
    BY <2>1, <2>2 DEF TwoPassRows
  <2> HIDE DEF n
  <2>5. n \in {a, max_lines, c} /\ n <= a /\ n <= max_lines /\ n <= c
    <3>1. max_lines \in Int
      BY <2>3
    <3> QED
      BY <2>4, <3>1, MinOfThree, Zenon
  <2>6. a >= 1 /\ c >= 1 /\ n \in Nat \ {0}
    <3>1. a >= 1 /\ c >= 1
      <4>1. p < e
        BY <1>1
      <4> QED
        <5>1. a >= 1
          BY <1>2, <1>3, <2>1
        <5>2. PICK s \in Nat, k \in Nat :
                s = jrdPost.starting_row /\ k = jrdPost.next_row
          BY <1>2, <1>3
        <5>3. s + k < e /\ c = e - s
          BY <1>3, <2>2, <4>1, <5>2
        <5>4. c >= 1
          BY <1>2, <5>3
        <5> QED
          BY <5>1, <5>4
    <3> QED
      BY <2>3, <2>5, <3>1
  <2>7. jrdPost.next_row = 0 \/ a = 1
    BY <1>2, <1>3, <2>1
  <2>8. p + n <= e
    <3>1. jrdPost.next_row = 0 => p + c = e
      BY <1>2, <1>3, <2>2
    <3>2. n <= c /\ (a = 1 => n = 1)
      BY <2>5, <2>6
    <3> QED
      <4>1. p < e
        BY <1>1
      <4> QED
        BY <1>2, <2>2, <2>6, <2>7, <3>1, <3>2, <4>1
  <2> QED
    BY <2>1, <2>5, <2>6, <2>8
<1>5. /\ output_scanline' = p + n /\ jrdPost' = Advanced(n)
      /\ scanlines' = scanlines \o
           [k \in 1..n |-> IF jrdPost.starting_row + jrdPost.next_row + k - 1
                                \in DOMAIN whole_image
                           THEN whole_image[jrdPost.starting_row
                                              + jrdPost.next_row + k - 1]
                           ELSE -1]
      /\ UNCHANGED <<jrd, jrdMain, upsample, whole_image>>
  BY DEF jpeg_read_scanlines_2pass
<1>6. jrdPlace' = jrdPlace
  BY <1>1, StripFound DEF jpeg_read_scanlines_2pass
<1> HIDE DEF n
<1>7. ImageTyped'
  <2>1. p + n \in 0..jrd.output_height
    BY <1>2, <1>4
  <2> QED
    BY <1>1, <1>5, <1>6, <2>1 DEF ImageTyped, V
<1>8. PassesAt'
  <2>1. /\ jrdPost' \in [starting_row : Nat, next_row : 0..V - 1]
        /\ jrdPost'.starting_row % V = 0
        /\ jrdPost'.starting_row + jrdPost'.next_row = p + n
    BY <1>1, <1>2, <1>3, <1>4, <1>5, AdvancedOn
  <2> QED
    BY <1>1, <1>3, <1>5, <1>6, <2>1 DEF PassesAt, V
<1>9. scanlines' = Rows(0, p + n)
  <2>1. \A k \in 1..n : p + k - 1 \in 0..e - 1
    BY <1>2, <1>4
  <2>2. \A k \in 1..n :
          (IF p + k - 1 \in DOMAIN whole_image THEN whole_image[p + k - 1]
                                               ELSE -1) = p + k - 1
    BY <1>3, <2>1
  <2>3. scanlines' = scanlines \o Rows(p, n)
    BY <1>3, <1>5, <2>2 DEF Rows
  <2> QED
    BY <1>1, <1>2, <1>4, <2>3, RowsJoin
<1>10. (scanlines = Rows(0, IF jrdPlace = "start" THEN 0
                           ELSE output_scanline))'
  BY <1>1, <1>5, <1>6, <1>9 DEF Rows
<1>11. ~(jrd'.quantize # "two passes" \/ jrdPlace' = "start")
  BY <1>1, <1>5, <1>6
<1> QED
  BY <1>7, <1>8, <1>10, <1>11 DEF JrdInv

LEMMA JrdInvStep ==
  JrdInv /\ [JrdNext \/ (JrdEnded /\ UNCHANGED jrdVars)]_jrdVars => JrdInv'
<1> SUFFICES ASSUME JrdInv, [JrdNext \/ (JrdEnded /\ UNCHANGED jrdVars)]_jrdVars
             PROVE  JrdInv'
  OBVIOUS
<1>1. ASSUME NEW n \in 1..MaxOutputHeight, jpeg_read_scanlines(n)
      PROVE  JrdInv'
  BY <1>1, ReadScanlinesKeeps
<1>2. ASSUME NEW n \in 1..MaxOutputHeight, jpeg_read_scanlines_2pass(n)
      PROVE  JrdInv'
  BY <1>2, ReadScanlines2Keeps
<1>3. CASE DummyPass
  BY <1>3, DummyPassKeeps
<1>4. CASE SecondPass
  BY <1>4, SecondPassKeeps
<1>5. CASE UNCHANGED jrdVars
  BY <1>5 DEF jrdVars, JrdInv, ImageTyped, PassesAt, Positioned, NextGroup,
     EmittedOf, MainStates, UpsampleStates, V, Rows
<1> QED
  BY <1>1, <1>2, <1>3, <1>4, <1>5 DEF JrdNext

(* The application gets the rows of an image from the top, each once, and  *)
(* none below the bottom: for any height, any number of row groups, and    *)
(* however many rows it asks for at a time.  With a two-pass quantizer     *)
(* that is so for one or two rows in a group only. *)
THEOREM RowsLeaveInOrder ==
  ASSUME TwoPassVSampFactors \subseteq {1, 2}
  PROVE  JrdSpec => []RowsLeaveDecompressor
<1>1. JrdInv => RowsLeaveDecompressor
  <2> SUFFICES ASSUME JrdInv
               PROVE  RowsLeaveDecompressor
    OBVIOUS
  <2> DEFINE p == IF jrdPlace = "start" THEN 0 ELSE output_scanline
  <2>1. ImageTyped /\ scanlines = Rows(0, p)
    BY DEF JrdInv
  <2>2. output_scanline \in Nat /\ output_scanline <= jrd.output_height
    BY <2>1, ImageFacts
  <2>3. Len(scanlines) = p
    <3>1. p \in Nat /\ 0 \in Int
      BY <2>2
    <3> HIDE DEF p
    <3> QED
      BY <2>1, <3>1, RowsFacts
  <2>4. RowsInOrder
    BY <2>1, <2>3 DEF RowsInOrder, ImageTyped
  <2> QED
    BY <2>2, <2>4 DEF RowsLeaveDecompressor, StopsAtBottom
<1> QED
  BY <1>1, JrdInvInit, JrdInvStep, PTL DEF JrdSpec

(* The main controller gets no more iMCU rows than the image has.  Without *)
(* upsampling (V is 1, merged) the upsampler does not count its rows. *)
LEMMA EmittedKeepsTypes ==
  ASSUME JrdInv, JrdInv', JrdTypeOK, NEW room \in Nat \ {0},
         output_scanline < jrd.output_height,
         Positioned(jrdMain, upsample, output_scanline),
         Positioned(jrdMain, upsample, output_scanline)',
         jrdMain' = Drained(Filled, Upsampled(Filled, room).consumed),
         upsample' = Upsampled(Filled, room).state,
         jrd' = jrd
  PROVE  JrdTypeOK'
<1> DEFINE h == jrd.output_height
           size == V * jrd.groups
           bottomRow == (h - 1) \div size
           i == jrdMain.iMCU_rows
<1>1. /\ V \in 1..4 /\ jrd.groups \in Nat \ {0} /\ h \in Nat \ {0}
      /\ output_scanline \in Nat /\ (jrd.merged => V \in {1, 2})
      /\ jrd.merged \in BOOLEAN
  BY ImageFacts DEF JrdInv
<1>2. size \in Nat \ {0}
  BY <1>1
<1>3. /\ jrdMain \in MainStates /\ jrdMain' \in MainStates
      /\ jrdMain'.rowgroup_ctr < jrd.groups
      /\ upsample \in UpsampleStates /\ upsample' \in [next_row_out : 0..V,
            rows_to_go : Int, group : Int, spare_full : BOOLEAN]
      /\ V # 1 \/ ~jrd.merged =>
           upsample'.rows_to_go = h - output_scanline'
  BY DEF Positioned, MainStates, UpsampleStates, V
<1>4. output_scanline' \in 0..h /\ jrdPost'.next_row \in 0..V - 1
      /\ jrdPlace' \in {"start", "scanning"}
  BY DEF JrdInv, ImageTyped, PassesAt, V
<1>5. jrdMain'.iMCU_rows <= bottomRow + 1
  <2>1. i \in Nat /\ i <= bottomRow + 1 /\ jrdMain.buffer_full \in BOOLEAN
    BY <1>3 DEF JrdTypeOK, MainStates
  <2>2. jrdMain'.iMCU_rows = Filled.iMCU_rows
    <3>1. PICK f \in BOOLEAN, c \in Nat :
            jrdMain = [buffer_full |-> f, rowgroup_ctr |-> c, iMCU_rows |-> i]
      BY <1>3 DEF MainStates
    <3>2. i + 1 \in Nat
      BY <2>1
    <3>3. Filled \in MainStates
      BY <1>3, <2>1, <3>1, <3>2 DEF Filled, MainStates
    <3> HIDE DEF i
    <3> QED
      BY <3>3 DEF Drained, MainStates
  <2>3. CASE jrdMain.buffer_full
    BY <2>1, <2>2, <2>3 DEF Filled
  <2>4. CASE ~jrdMain.buffer_full
    <3>1. Filled.iMCU_rows = i + 1
      BY <1>3, <2>4 DEF Filled, MainStates
    <3>2. NextGroup(jrdMain) = i * jrd.groups
      <4>1. jrdMain.rowgroup_ctr = 0
        BY <2>4 DEF Positioned
      <4>2. i * jrd.groups \in Nat
        BY <1>1, <2>1
      <4> QED
        BY <2>4, <4>1, <4>2 DEF NextGroup
    <3>3. EmittedOf(upsample) \in Nat
      BY <1>1, <1>3 DEF EmittedOf, UpsampleStates
    <3>4. output_scanline = (i * jrd.groups) * V + EmittedOf(upsample)
      BY <3>2 DEF Positioned
    <3>5. (i * jrd.groups) * V = i * size /\ i * size \in Nat
      BY <1>1, <2>1
    <3>6. i * size <= h - 1
      <4> HIDE DEF size, i
      <4>1. PICK a \in Nat, c \in Nat :
              a = i * size /\ c = EmittedOf(upsample)
        BY <3>3, <3>5
      <4> QED
        BY <1>1, <3>4, <3>5, <4>1
    <3>7. i <= bottomRow
      <4> HIDE DEF size, i
      <4>1. h - 1 \in Nat
        BY <1>1
      <4>2. PICK k \in Nat : k = h - 1
        BY <4>1
      <4>3. i * size <= k => i <= k \div size
        <5>1. k \div size \in Nat /\ k < (k \div size + 1) * size
          BY <1>2
        <5>2. i >= k \div size + 1 => i * size >= (k \div size + 1) * size
          <6>1. PICK q \in Nat : q = k \div size
            BY <5>1
          <6>2. PICK d \in Int : d = i - (q + 1)
            BY <2>1
          <6>3. d >= 0 => d * size >= 0
            BY <1>2, <6>2
          <6>4. i * size = (q + 1) * size + d * size
            BY <1>2, <2>1, <6>2
          <6> QED
            BY <1>2, <2>1, <6>1, <6>2, <6>3, <6>4
        <5> QED
          BY <1>2, <2>1, <3>5, <5>1, <5>2
      <4> QED
        BY <3>6, <4>2, <4>3
    <3>8. bottomRow \in Int
      BY <1>1, <1>2
    <3> HIDE DEF i, bottomRow
    <3> QED
      BY <2>1, <2>2, <3>1, <3>7, <3>8
  <2> QED
    BY <2>1, <2>3, <2>4
<1>6. upsample'.rows_to_go \in 0..h
  <2>1. CASE V # 1 \/ ~jrd.merged
    BY <1>1, <1>3, <1>4, <2>1
  <2>2. CASE V = 1 /\ jrd.merged
    <3>1. upsample' = upsample
      BY <2>2 DEF Upsampled, merged_1v_upsample
    <3> QED
      BY <3>1 DEF JrdTypeOK
  <2> QED
    BY <2>1, <2>2
<1>7. jrdMain'.rowgroup_ctr \in 0..jrd.groups - 1
  BY <1>1, <1>3 DEF MainStates
<1>8. upsample'.next_row_out \in 0..V
  BY <1>3
<1> QED
  BY <1>4, <1>5, <1>6, <1>7, <1>8 DEF JrdTypeOK, V

LEMMA TypesStay ==
  ASSUME JrdInv, JrdInv', JrdTypeOK, UNCHANGED <<jrd, jrdMain, upsample>>
  PROVE  JrdTypeOK'
<1>1. jrdPost'.next_row \in 0..V - 1 /\ jrdPlace' \in {"start", "scanning"}
  BY DEF JrdInv, ImageTyped, PassesAt, V
<1> QED
  BY <1>1 DEF JrdTypeOK, V

LEMMA JrdTypesStep ==
  ASSUME JrdInv, JrdTypeOK, JrdInv',
         [JrdNext \/ (JrdEnded /\ UNCHANGED jrdVars)]_jrdVars
  PROVE  JrdTypeOK'
<1>1. ASSUME NEW n \in 1..MaxOutputHeight, jpeg_read_scanlines(n)
      PROVE  JrdTypeOK'
  <2>1. V \in 1..4 /\ n \in Nat \ {0}
    <3>1. n \in Nat \ {0}
      BY JrdAssumption
    <3> QED
      BY <3>1, ImageFacts DEF JrdInv
  <2>2. Room(n) \in Nat \ {0}
    <3>1. PICK v \in Int : v = V /\ v > 0
      BY <2>1
    <3>2. Min({n, v}) \in {n, v}
      BY <2>1, <3>1, LeastOfTwo
    <3>3. Min({n, V}) \in Nat \ {0}
      BY <2>1, <3>1, <3>2
    <3> QED
      BY <2>1, <3>3 DEF Room
  <2>3. /\ output_scanline < jrd.output_height
        /\ Positioned(jrdMain, upsample, output_scanline)
        /\ Positioned(jrdMain, upsample, output_scanline)'
        /\ jrdMain' = Drained(Filled, Upsampled(Filled, Room(n)).consumed)
        /\ upsample' = Upsampled(Filled, Room(n)).state
        /\ jrd' = jrd
    BY <1>1 DEF JrdInv, jpeg_read_scanlines
  <2> QED
    BY <2>2, <2>3, EmittedKeepsTypes
<1>2. CASE DummyPass
  <2>1. /\ V \in 1..4 /\ jrdPost.next_row \in 0..V - 1
        /\ jrdPlace = "start" /\ jrd.quantize = "two passes"
    BY <1>2, ImageFacts DEF JrdInv, PassesAt, ImageTyped, DummyPass
  <2>2. V - jrdPost.next_row \in Nat \ {0}
    <3>1. PICK v \in 1..4 : v = V
      BY <2>1
    <3>2. PICK k \in 0..v - 1 : k = jrdPost.next_row
      BY <2>1, <3>1
    <3>3. v - k \in Nat \ {0}
      OBVIOUS
    <3> QED
      BY <3>1, <3>2, <3>3
  <2>3. /\ output_scanline < jrd.output_height
        /\ Positioned(jrdMain, upsample, output_scanline)
        /\ jrdMain' = Drained(Filled,
              Upsampled(Filled, V - jrdPost.next_row).consumed)
        /\ upsample' = Upsampled(Filled, V - jrdPost.next_row).state
        /\ jrd' = jrd
    BY <1>2, <2>1 DEF JrdInv, DummyPass
  <2>4. Positioned(jrdMain, upsample, output_scanline)'
    <3>1. PICK n \in Nat \ {0} :
            /\ Upsampled(Filled, V - jrdPost.next_row).rows
                 = Rows(output_scanline, n)
            /\ Positioned(jrdMain', upsample', output_scanline + n)
      BY <2>2, <2>3, UpsampledNext DEF JrdInv
    <3>2. output_scanline \in Int
      <4>1. output_scanline \in Nat
        BY ImageFacts DEF JrdInv
      <4> QED
        BY <4>1
    <3>3. output_scanline' = output_scanline + n
      BY <1>2, <3>1, <3>2, RowsFacts DEF DummyPass
    <3> QED
      BY <2>3, <3>1, <3>3, PositionedThen
  <2> QED
    BY <2>2, <2>3, <2>4, EmittedKeepsTypes
<1>3. CASE SecondPass \/ UNCHANGED jrdVars
  BY <1>3, TypesStay DEF SecondPass, jrdVars
<1>4. ASSUME NEW n \in 1..MaxOutputHeight, jpeg_read_scanlines_2pass(n)
      PROVE  JrdTypeOK'
  BY <1>4, TypesStay DEF jpeg_read_scanlines_2pass
<1> QED
  BY <1>1, <1>2, <1>3, <1>4 DEF JrdNext

LEMMA JrdTypesInit == JrdInit /\ JrdInv => JrdTypeOK
<1> SUFFICES ASSUME JrdInit, JrdInv PROVE JrdTypeOK
  OBVIOUS
<1>1. /\ V \in 1..4 /\ jrd.groups \in Nat \ {0}
      /\ jrd.output_height \in Nat \ {0}
  BY ImageFacts DEF JrdInv
<1>2. V * jrd.groups \in Nat \ {0}
  BY <1>1
<1>3. (jrd.output_height - 1) \div (V * jrd.groups) \in Nat
  <2>1. \A k \in Nat, n \in Nat \ {0} : k \div n \in Nat
    OBVIOUS
  <2>2. jrd.output_height - 1 \in Nat
    BY <1>1
  <2> QED
    BY <1>2, <2>1, <2>2
<1>4. /\ jrdMain.rowgroup_ctr = 0 /\ jrdMain.iMCU_rows = 0
      /\ upsample.next_row_out = V /\ jrdPost.next_row = 0
      /\ upsample.rows_to_go = jrd.output_height
      /\ jrdPlace \in {"start", "scanning"}
  BY DEF JrdInit
<1>5. 0 <= (jrd.output_height - 1) \div (V * jrd.groups) + 1
  BY <1>3
<1> QED
  BY <1>1, <1>4, <1>5 DEF JrdTypeOK

(* JrdTypeOK: the counters of the main controller, the upsampler and the   *)
(* postprocessor stay inside the image, the iMCU row and the row group. *)
THEOREM RowsTypeCorrect ==
  ASSUME TwoPassVSampFactors \subseteq {1, 2}
  PROVE  JrdSpec => []JrdTypeOK
<1>1. JrdInit => JrdInv /\ JrdTypeOK
  BY JrdInvInit, JrdTypesInit
<1>2. JrdInv /\ JrdTypeOK
        /\ [JrdNext \/ (JrdEnded /\ UNCHANGED jrdVars)]_jrdVars
        => JrdInv' /\ JrdTypeOK'
  <2> SUFFICES ASSUME JrdInv, JrdTypeOK,
                      [JrdNext \/ (JrdEnded /\ UNCHANGED jrdVars)]_jrdVars
               PROVE  JrdInv' /\ JrdTypeOK'
    OBVIOUS
  <2>1. JrdInv'
    BY JrdInvStep
  <2> QED
    BY <2>1, JrdTypesStep
<1> QED
  BY <1>1, <1>2, PTL DEF JrdSpec

-----------------------------------------------------------------------------
(* The audio and video player, for files of any length.                    *)
(* Type correctness.  A thread that is about to enque or to decode has a   *)
(* packet in its hands; without that a 0 could get into a list.            *)

HandsFull ==
  /\ pc["reader"] \in {"video", "audio"} => hand["reader"] # 0
  /\ pc["decoder"] \in {"decode", "enque"} => hand["decoder"] # 0

(* The types of the control state, of the lists, and of all else.          *)
PcTyped ==
  /\ pc \in [Threads -> ReaderPC \cup DecoderPC \cup DisplayPC \cup SpeakerPC
                           \cup MainPC]
  /\ pc["reader"] \in ReaderPC /\ pc["decoder"] \in DecoderPC
  /\ pc["display"] \in DisplayPC /\ pc["speaker"] \in SpeakerPC
  /\ pc["main"] \in MainPC
  /\ failed \in SUBSET Jobs

RestTyped ==
  /\ hand \in [Jobs -> 0..MaxPackets]
  /\ read \in 0..MaxPackets
  /\ readThreadExit \in BOOLEAN /\ decThreadExit \in BOOLEAN
  /\ inCodec \in SUBSET (1..MaxPackets)

ListsTyped ==
  /\ queue \in [Lists -> Seq(1..MaxPackets)]
  /\ sent \in [Lists -> Seq(1..MaxPackets)]
  /\ got \in [Lists -> Seq(1..MaxPackets)]
  /\ owner \in [Lists -> Jobs \cup {"free"}]
  /\ asleep \subseteq {"decoder", "display", "speaker"}

Typed == PcTyped /\ ListsTyped /\ RestTyped /\ HandsFull

LEMMA TypedImpliesTypeOK == Typed => TypeOK
BY DEF Typed, TypeOK, PcTyped, ListsTyped, RestTyped

LEMMA TypedInit == Init => Typed
<1> SUFFICES ASSUME Init PROVE Typed
  OBVIOUS
<1> USE MaxPacketsNat DEF Init, Lists, Jobs, Threads
<1>1. /\ pc \in [Threads -> ReaderPC \cup DecoderPC \cup DisplayPC
                           \cup SpeakerPC \cup MainPC]
      /\ pc["reader"] = "read" /\ pc["decoder"] = "deque"
      /\ pc["display"] = "deque" /\ pc["speaker"] = "init"
      /\ pc["main"] = "wait"
  BY DEF ReaderPC, DecoderPC, DisplayPC, SpeakerPC, MainPC
<1>2. hand \in [Jobs -> 0..MaxPackets] /\ read \in 0..MaxPackets
  OBVIOUS
<1>3. /\ queue \in [Lists -> Seq(1..MaxPackets)]
      /\ sent \in [Lists -> Seq(1..MaxPackets)]
      /\ got \in [Lists -> Seq(1..MaxPackets)]
  OBVIOUS
<1>4. /\ owner \in [Lists -> Jobs \cup {"free"}]
      /\ asleep \subseteq {"decoder", "display", "speaker"}
      /\ readThreadExit \in BOOLEAN /\ decThreadExit \in BOOLEAN
      /\ inCodec \in SUBSET (1..MaxPackets)
      /\ failed \in SUBSET Jobs
  OBVIOUS
<1> HIDE DEF Init
<1> QED
  BY <1>1, <1>2, <1>3, <1>4
  DEF Typed, PcTyped, ListsTyped, RestTyped, HandsFull, ReaderPC, DecoderPC,
      DisplayPC, SpeakerPC, MainPC

(* What the parts of the enque and deque functions do to the types. *)
LEMMA EnqueTyped ==
  ASSUME TypeOK, NEW t \in Jobs, NEW q \in Lists, hand[t] # 0, Enque(t, q)
  PROVE  ListsTyped'
<1>1. hand[t] \in 1..MaxPackets
  BY MaxPacketsNat DEF TypeOK
<1>2. /\ Append(queue[q], hand[t]) \in Seq(1..MaxPackets)
      /\ Append(sent[q], hand[t]) \in Seq(1..MaxPackets)
  BY <1>1, AppendProperties DEF TypeOK
<1> QED
  BY <1>2 DEF Enque, TypeOK, ListsTyped

LEMMA TakeTyped ==
  ASSUME TypeOK, NEW t \in Jobs, NEW q \in Lists, Take(t, q)
  PROVE  /\ ListsTyped'
         /\ hand' \in [Jobs -> 0..MaxPackets]
         /\ hand'[t] # 0
         /\ \A u \in Jobs \ {t} : hand'[u] = hand[u]
<1>1. queue[q] \in Seq(1..MaxPackets) /\ queue[q] # <<>>
  BY DEF TypeOK, Take
<1>2. /\ Head(queue[q]) \in 1..MaxPackets
      /\ Tail(queue[q]) \in Seq(1..MaxPackets)
  BY <1>1, HeadTailProperties
<1>3. Append(got[q], Head(queue[q])) \in Seq(1..MaxPackets)
  BY <1>2, AppendProperties DEF TypeOK
<1> QED
  BY <1>2, <1>3, MaxPacketsNat DEF Take, TypeOK, ListsTyped, history

LEMMA SleepTyped ==
  ASSUME TypeOK, NEW t \in {"decoder", "display", "speaker"},
         NEW q \in Lists, Sleep(t, q)
  PROVE  ListsTyped' /\ UNCHANGED hand
BY DEF Sleep, TypeOK, ListsTyped, history

LEMMA GiveUpTyped ==
  ASSUME TypeOK, NEW t \in Jobs, NEW q \in Lists, GiveUp(t, q)
  PROVE  ListsTyped' /\ UNCHANGED hand
BY DEF GiveUp, TypeOK, ListsTyped, history

LEMMA TypedStep == Typed /\ [Next]_vars => Typed'
<1> SUFFICES ASSUME Typed, [Next]_vars PROVE Typed'
  OBVIOUS
<1>0. TypeOK /\ PcTyped /\ ListsTyped /\ RestTyped /\ HandsFull
  BY TypedImpliesTypeOK DEF Typed
<1> USE MaxPacketsNat
    DEF Goto, Fails, Lists, Jobs, Threads, ReaderPC, DecoderPC,
        DisplayPC, SpeakerPC, MainPC, flags, history
<1>1. CASE Reader
  <2>1. ASSUME NEW to \in {"video", "audio", "read"}, ReadPacket(to)
        PROVE Typed'
    <3>1. PcTyped'
      BY <2>1, <1>0 DEF ReadPacket, PcTyped
    <3>2. ListsTyped'
      BY <2>1, <1>0 DEF ReadPacket, ListsTyped, HandsFull
    <3>3. RestTyped' /\ HandsFull'
      BY <2>1, <1>0 DEF ReadPacket, RestTyped, PcTyped, HandsFull
    <3> QED
      BY <3>1, <3>2, <3>3 DEF Typed
  <2>2. CASE ReadEnd
    <3>1. PcTyped'
      BY <2>2, <1>0 DEF ReadEnd, PcTyped
    <3>2. ListsTyped'
      BY <2>2, <1>0 DEF ReadEnd, ListsTyped, HandsFull
    <3>3. RestTyped' /\ HandsFull'
      BY <2>2, <1>0 DEF ReadEnd, RestTyped, PcTyped, HandsFull
    <3> QED
      BY <3>1, <3>2, <3>3 DEF Typed
  <2>3. ASSUME NEW q \in {"video", "audio"}, EnquePacket(q) PROVE Typed'
    <3>1. PcTyped'
      BY <2>3, <1>0 DEF EnquePacket, PcTyped
    <3>2. ListsTyped'
      BY <2>3, <1>0, EnqueTyped
      DEF EnquePacket, ListsTyped, HandsFull, Goto
    <3>3. RestTyped' /\ HandsFull'
      BY <2>3, <1>0 DEF EnquePacket, Enque, RestTyped, PcTyped, HandsFull
    <3> QED
      BY <3>1, <3>2, <3>3 DEF Typed
  <2>4. ASSUME NEW q \in {"video", "audio"}, EnquePacketFails(q)
        PROVE Typed'
    <3>1. PcTyped'
      BY <2>4, <1>0 DEF EnquePacketFails, PcTyped
    <3>2. ListsTyped'
      BY <2>4, <1>0 DEF EnquePacketFails, ListsTyped, HandsFull
    <3>3. RestTyped' /\ HandsFull'
      BY <2>4, <1>0 DEF EnquePacketFails, RestTyped, PcTyped, HandsFull
    <3> QED
      BY <3>1, <3>2, <3>3 DEF Typed
  <2>5. CASE ExitVideo
    <3>1. PcTyped'
      BY <2>5, <1>0 DEF ExitVideo, PcTyped
    <3>2. ListsTyped'
      BY <2>5, <1>0 DEF ExitVideo, ListsTyped, HandsFull
    <3>3. RestTyped' /\ HandsFull'
      BY <2>5, <1>0 DEF ExitVideo, RestTyped, PcTyped, HandsFull
    <3> QED
      BY <3>1, <3>2, <3>3 DEF Typed
  <2>6. CASE ExitAudio
    <3>1. PcTyped'
      BY <2>6, <1>0 DEF ExitAudio, PcTyped
    <3>2. ListsTyped'
      BY <2>6, <1>0 DEF ExitAudio, ListsTyped, HandsFull
    <3>3. RestTyped' /\ HandsFull'
      BY <2>6, <1>0 DEF ExitAudio, RestTyped, PcTyped, HandsFull
    <3> QED
      BY <3>1, <3>2, <3>3 DEF Typed
  <2> QED
    BY <1>1, <2>1, <2>2, <2>3, <2>4, <2>5, <2>6 DEF Reader
<1>2. CASE Decoder
  <2>1. CASE DequeVideo
    <3>1. PcTyped'
      BY <2>1, <1>0 DEF DequeVideo, PcTyped
    <3>2. ListsTyped' /\ hand' \in [Jobs -> 0..MaxPackets]
      <4>1. CASE Take("decoder", "video")
        BY <4>1, <1>0, TakeTyped
      <4>2. CASE Sleep("decoder", "video")
        BY <4>2, <1>0, SleepTyped DEF RestTyped
      <4>3. CASE GiveUp("decoder", "video")
        BY <4>3, <1>0, GiveUpTyped DEF RestTyped
      <4> QED
        BY <2>1, <4>1, <4>2, <4>3 DEF DequeVideo
    <3>3. HandsFull'
      <4>1. CASE Take("decoder", "video")
        <5>1. /\ hand'["decoder"] # 0
              /\ \A u \in Jobs \ {"decoder"} : hand'[u] = hand[u]
          BY <4>1, <1>0, TakeTyped
        <5> QED
          BY <2>1, <5>1, <1>0 DEF DequeVideo, PcTyped, HandsFull
      <4>2. CASE Sleep("decoder", "video") \/ GiveUp("decoder", "video")
        BY <2>1, <4>2, <1>0
        DEF DequeVideo, Take, Sleep, GiveUp, PcTyped, HandsFull
      <4> QED
        BY <2>1, <4>1, <4>2 DEF DequeVideo, Sleep, GiveUp
    <3>4. RestTyped'
      BY <2>1, <3>2, <1>0 DEF DequeVideo, RestTyped
    <3> QED
      BY <3>1, <3>2, <3>3, <3>4 DEF Typed
  <2>2. CASE Decode
    <3>1. PcTyped'
      BY <2>2, <1>0 DEF Decode, PcTyped
    <3>2. ListsTyped'
      BY <2>2, <1>0 DEF Decode, ListsTyped, HandsFull
    <3>3. hand["decoder"] \in 1..MaxPackets
      BY <2>2, <1>0 DEF Decode, HandsFull, RestTyped, Jobs
    <3>4. /\ hand' \in [Jobs -> 0..MaxPackets]
          /\ inCodec' \in SUBSET (1..MaxPackets)
          /\ hand'["reader"] = hand["reader"]
          /\ pc'["decoder"] = "enque" => hand'["decoder"] # 0
          /\ pc'["decoder"] # "decode" /\ pc'["reader"] = pc["reader"]
      <4>1. ASSUME NEW p \in inCodec \cup {hand["decoder"]},
                   hand' = [hand EXCEPT !["decoder"] = p]
            PROVE  /\ hand' \in [Jobs -> 0..MaxPackets]
                   /\ hand'["reader"] = hand["reader"]
                   /\ hand'["decoder"] # 0
        BY <4>1, <3>3, <1>0 DEF RestTyped, Jobs
      <4>2. ASSUME hand' = [hand EXCEPT !["decoder"] = 0]
            PROVE  /\ hand' \in [Jobs -> 0..MaxPackets]
                   /\ hand'["reader"] = hand["reader"]
        BY <4>2, <1>0 DEF RestTyped, Jobs
      <4>3. inCodec' \in SUBSET (1..MaxPackets)
        BY <2>2, <3>3, <1>0 DEF Decode, RestTyped
      <4> QED
        BY <2>2, <4>1, <4>2, <4>3, <1>0
        DEF Decode, PcTyped, Threads, Jobs
    <3>5. RestTyped' /\ HandsFull'
      BY <2>2, <3>4, <1>0 DEF Decode, RestTyped, HandsFull
    <3> QED
      BY <3>1, <3>2, <3>5 DEF Typed
  <2>3. CASE DecodeFails
    <3>1. PcTyped'
      BY <2>3, <1>0 DEF DecodeFails, PcTyped
    <3>2. ListsTyped'
      BY <2>3, <1>0 DEF DecodeFails, ListsTyped, HandsFull
    <3>3. RestTyped' /\ HandsFull'
      BY <2>3, <1>0 DEF DecodeFails, RestTyped, PcTyped, HandsFull
    <3> QED
      BY <3>1, <3>2, <3>3 DEF Typed
  <2>4. CASE EnqueFrame
    <3>1. PcTyped'
      BY <2>4, <1>0 DEF EnqueFrame, PcTyped
    <3>2. ListsTyped'
      BY <2>4, <1>0, EnqueTyped
      DEF EnqueFrame, ListsTyped, HandsFull, Goto
    <3>3. RestTyped' /\ HandsFull'
      BY <2>4, <1>0 DEF EnqueFrame, RestTyped, PcTyped, HandsFull
    <3> QED
      BY <3>1, <3>2, <3>3 DEF Typed
  <2>5. CASE EnqueFrameFails
    <3>1. PcTyped'
      BY <2>5, <1>0 DEF EnqueFrameFails, PcTyped
    <3>2. ListsTyped'
      BY <2>5, <1>0 DEF EnqueFrameFails, ListsTyped, HandsFull
    <3>3. RestTyped' /\ HandsFull'
      BY <2>5, <1>0 DEF EnqueFrameFails, RestTyped, PcTyped, HandsFull
    <3> QED
      BY <3>1, <3>2, <3>3 DEF Typed
  <2>6. CASE ExitFrame
    <3>1. PcTyped'
      BY <2>6, <1>0 DEF ExitFrame, PcTyped
    <3>2. ListsTyped'
      BY <2>6, <1>0 DEF ExitFrame, ListsTyped, HandsFull
    <3>3. RestTyped' /\ HandsFull'
      BY <2>6, <1>0 DEF ExitFrame, RestTyped, PcTyped, HandsFull
    <3> QED
      BY <3>1, <3>2, <3>3 DEF Typed
  <2> QED
    BY <1>2, <2>1, <2>2, <2>3, <2>4, <2>5, <2>6 DEF Decoder
<1>3. CASE Display
  <2>1. CASE DequeFrame
    <3>1. PcTyped'
      BY <2>1, <1>0 DEF DequeFrame, PcTyped
    <3>2. ListsTyped' /\ hand' \in [Jobs -> 0..MaxPackets]
      <4>1. CASE Take("display", "frame")
        BY <4>1, <1>0, TakeTyped
      <4>2. CASE Sleep("display", "frame")
        BY <4>2, <1>0, SleepTyped DEF RestTyped
      <4>3. CASE GiveUp("display", "frame")
        BY <4>3, <1>0, GiveUpTyped DEF RestTyped
      <4> QED
        BY <2>1, <4>1, <4>2, <4>3 DEF DequeFrame
    <3>3. HandsFull'
      <4>1. CASE Take("display", "frame")
        <5>1. /\ hand'["display"] # 0
              /\ \A u \in Jobs \ {"display"} : hand'[u] = hand[u]
          BY <4>1, <1>0, TakeTyped
        <5> QED
          BY <2>1, <5>1, <1>0 DEF DequeFrame, PcTyped, HandsFull
      <4>2. CASE Sleep("display", "frame") \/ GiveUp("display", "frame")
        BY <2>1, <4>2, <1>0
        DEF DequeFrame, Take, Sleep, GiveUp, PcTyped, HandsFull
      <4> QED
        BY <2>1, <4>1, <4>2 DEF DequeFrame, Sleep, GiveUp
    <3>4. RestTyped'
      BY <2>1, <3>2, <1>0 DEF DequeFrame, RestTyped
    <3> QED
      BY <3>1, <3>2, <3>3, <3>4 DEF Typed
  <2>2. CASE Show
    <3>1. PcTyped'
      BY <2>2, <1>0 DEF Show, PcTyped
    <3>2. ListsTyped'
      BY <2>2, <1>0 DEF Show, ListsTyped, HandsFull
    <3>3. RestTyped' /\ HandsFull'
      BY <2>2, <1>0 DEF Show, RestTyped, PcTyped, HandsFull
    <3> QED
      BY <3>1, <3>2, <3>3 DEF Typed
  <2>3. CASE ShowFails
    <3>1. PcTyped'
      BY <2>3, <1>0 DEF ShowFails, PcTyped
    <3>2. ListsTyped'
      BY <2>3, <1>0 DEF ShowFails, ListsTyped, HandsFull
    <3>3. RestTyped' /\ HandsFull'
      BY <2>3, <1>0 DEF ShowFails, RestTyped, PcTyped, HandsFull
    <3> QED
      BY <3>1, <3>2, <3>3 DEF Typed
  <2> QED
    BY <1>3, <2>1, <2>2, <2>3 DEF Display
<1>4. CASE Speaker
  <2>1. CASE PcmInit
    <3>1. PcTyped'
      BY <2>1, <1>0 DEF PcmInit, PcTyped
    <3>2. ListsTyped'
      BY <2>1, <1>0 DEF PcmInit, ListsTyped, HandsFull
    <3>3. RestTyped' /\ HandsFull'
      BY <2>1, <1>0 DEF PcmInit, RestTyped, PcTyped, HandsFull
    <3> QED
      BY <3>1, <3>2, <3>3 DEF Typed
  <2>2. CASE DequeAudio
    <3>1. PcTyped'
      BY <2>2, <1>0 DEF DequeAudio, PcTyped
    <3>2. ListsTyped' /\ hand' \in [Jobs -> 0..MaxPackets]
      <4>1. CASE Take("speaker", "audio")
        BY <4>1, <1>0, TakeTyped
      <4>2. CASE Sleep("speaker", "audio")
        BY <4>2, <1>0, SleepTyped DEF RestTyped
      <4>3. CASE GiveUp("speaker", "audio")
        BY <4>3, <1>0, GiveUpTyped DEF RestTyped
      <4> QED
        BY <2>2, <4>1, <4>2, <4>3 DEF DequeAudio
    <3>3. HandsFull'
      <4>1. CASE Take("speaker", "audio")
        <5>1. /\ hand'["speaker"] # 0
              /\ \A u \in Jobs \ {"speaker"} : hand'[u] = hand[u]
          BY <4>1, <1>0, TakeTyped
        <5> QED
          BY <2>2, <5>1, <1>0 DEF DequeAudio, PcTyped, HandsFull
      <4>2. CASE Sleep("speaker", "audio") \/ GiveUp("speaker", "audio")
        BY <2>2, <4>2, <1>0
        DEF DequeAudio, Take, Sleep, GiveUp, PcTyped, HandsFull
      <4> QED
        BY <2>2, <4>1, <4>2 DEF DequeAudio, Sleep, GiveUp
    <3>4. RestTyped'
      BY <2>2, <3>2, <1>0 DEF DequeAudio, RestTyped
    <3> QED
      BY <3>1, <3>2, <3>3, <3>4 DEF Typed
  <2>3. CASE Play
    <3>1. PcTyped'
      BY <2>3, <1>0 DEF Play, PcTyped
    <3>2. ListsTyped'
      BY <2>3, <1>0 DEF Play, ListsTyped, HandsFull
    <3>3. RestTyped' /\ HandsFull'
      BY <2>3, <1>0 DEF Play, RestTyped, PcTyped, HandsFull
    <3> QED
      BY <3>1, <3>2, <3>3 DEF Typed
  <2> QED
    BY <1>4, <2>1, <2>2, <2>3 DEF Speaker
<1>5. CASE SpuriousWake
  BY <1>5, <1>0
  DEF Typed, SpuriousWake, PcTyped, ListsTyped, RestTyped, HandsFull
<1>6. CASE Main
  <2>1. PcTyped' /\ RestTyped'
    BY <1>6, <1>0 DEF Main, PcTyped, RestTyped
  <2>2. ListsTyped' /\ HandsFull'
    BY <1>6, <1>0 DEF Main, ListsTyped, HandsFull
  <2> QED
    BY <2>1, <2>2 DEF Typed
<1>7. CASE UNCHANGED vars
  <2>1. PcTyped' /\ RestTyped'
    BY <1>7, <1>0 DEF vars, PcTyped, RestTyped
  <2>2. ListsTyped' /\ HandsFull'
    BY <1>7, <1>0 DEF vars, ListsTyped, HandsFull
  <2> QED
    BY <2>1, <2>2 DEF Typed
<1> QED
  BY <1>1, <1>2, <1>3, <1>4, <1>5, <1>6, <1>7 DEF Next, Stopped

(* Every variable of the player keeps its type: src/videoAudioPlayer       *)
(* media.c and player.c. *)
THEOREM TypeCorrect == Spec => []TypeOK
<1> QED
  BY TypedImpliesTypeOK, TypedInit, TypedStep, PTL DEF Spec

LEMMA TypedAlways == Spec => []Typed
BY TypedInit, TypedStep, PTL DEF Spec

-----------------------------------------------------------------------------
(* The end of the stream.  The flags say where their producer is; a mutex  *)
(* that is taken along, and a consumer that stopped by itself, are the     *)
(* business of a queue whose producer is gone. *)

Flags ==
  /\ readThreadExit <=> pc["reader"] \in {"exitAudio", "done"}
  /\ decThreadExit <=> pc["decoder"] = "done"

Leak(q) == owner[q] # "free" =>
  /\ ProducerGone(q)
  /\ owner[q] = Consumer(q)
  /\ pc[Consumer(q)] \in {"exit", "done"}

Emptied(q) ==
  pc[Consumer(q)] \in {"exit", "done"} /\ Consumer(q) \notin failed =>
    queue[q] = <<>> /\ ProducerGone(q)

Woken(q) == Consumer(q) \in asleep =>
  /\ pc[Consumer(q)] = "deque"
  /\ queue[q] = <<>>
  /\ \/ ~ProducerGone(q)
     \/ q = "audio" /\ pc["reader"] = "exitAudio"

Ending(q) == Leak(q) /\ Emptied(q) /\ Woken(q)
Control == Flags /\ \A q \in Lists : Ending(q)

LEMMA ControlInit == Init => Control
BY DEF Init, Control, Flags, Ending, Leak, Emptied, Woken, Consumer,
       ProducerGone, Lists, Jobs, Threads

LEMMA ControlStep == Typed /\ Control /\ [Next]_vars => Control'
<1> SUFFICES ASSUME Typed, Control, [Next]_vars PROVE Control'
  OBVIOUS
<1> USE DEF Typed, PcTyped, Control, Flags, Ending, Leak, Emptied, Woken,
            Consumer, ProducerGone, Lists, Jobs, Threads, Goto, Fails, flags,
            history
<1>1. CASE Reader
  <2>1. ASSUME NEW to \in {"video", "audio", "read"}, ReadPacket(to)
        PROVE Control'
    BY <2>1 DEF ReadPacket
  <2>2. CASE ReadEnd
    BY <2>2 DEF ReadEnd
  <2>3. ASSUME NEW q \in {"video", "audio"}, EnquePacket(q) PROVE Control'
    <3>1. /\ q \in Lists /\ pc["reader"] = q
          /\ \A t \in Threads : t # "reader" => pc'[t] = pc[t]
          /\ pc'["reader"] = "read"
      BY <2>3 DEF EnquePacket
    <3>2. /\ UNCHANGED <<flags, owner, failed>>
          /\ asleep' = asleep \ {Consumer(q)}
          /\ \A k \in Lists : k # q => queue'[k] = queue[k]
      BY <2>3 DEF EnquePacket, Enque, ListsTyped
    <3>3. ~readThreadExit
      BY <3>1
    <3>4. Flags'
      BY <3>1, <3>2
    <3>5. ASSUME NEW k \in Lists PROVE Ending(k)'
      <4>1. Ending(k) /\ Consumer(k) \in Threads /\ Consumer(k) # "reader"
        OBVIOUS
      <4>2. Leak(k)'
        BY <3>1, <3>2, <4>1
      <4>3. Emptied(k)'
        BY <3>1, <3>2, <3>3, <4>1
      <4>4. Woken(k)'
        BY <3>1, <3>2, <4>1
      <4> QED
        BY <4>2, <4>3, <4>4
    <3> QED
      BY <3>4, <3>5
  <2>4. ASSUME NEW q \in {"video", "audio"}, EnquePacketFails(q)
        PROVE Control'
    BY <2>4 DEF EnquePacketFails
  <2>5. CASE ExitVideo
    BY <2>5 DEF ExitVideo
  <2>6. CASE ExitAudio
    BY <2>6 DEF ExitAudio
  <2> QED
    BY <1>1, <2>1, <2>2, <2>3, <2>4, <2>5, <2>6 DEF Reader
<1>2. CASE Decoder
  <2>1. CASE DequeVideo
    <3>0. UNCHANGED flags /\ failed \subseteq failed'
      BY <2>1 DEF DequeVideo
    <3>1. CASE Take("decoder", "video") /\ Goto("decoder", "deque", "decode")
              /\ UNCHANGED failed
      BY <3>1, <3>0, <2>1 DEF DequeVideo, Take, ListsTyped
    <3>2. CASE Take("decoder", "video") /\ Fails("decoder", "deque", "exit")
      BY <3>2, <3>0, <2>1 DEF DequeVideo, Take, ListsTyped
    <3>3. CASE Sleep("decoder", "video") /\ pc["decoder"] = "deque"
              /\ UNCHANGED <<pc, failed>>
      BY <3>3, <3>0, <2>1 DEF DequeVideo, Sleep, ListsTyped
    <3>4. CASE GiveUp("decoder", "video") /\ Goto("decoder", "deque", "exit")
              /\ UNCHANGED failed
      BY <3>4, <3>0, <2>1 DEF DequeVideo, GiveUp, ListsTyped
    <3> QED
      BY <2>1, <3>1, <3>2, <3>3, <3>4 DEF DequeVideo
  <2>2. CASE Decode
    BY <2>2 DEF Decode
  <2>3. CASE DecodeFails
    BY <2>3 DEF DecodeFails
  <2>4. CASE EnqueFrame
    BY <2>4 DEF EnqueFrame, Enque, ListsTyped
  <2>5. CASE EnqueFrameFails
    BY <2>5 DEF EnqueFrameFails
  <2>6. CASE ExitFrame
    BY <2>6 DEF ExitFrame
  <2> QED
    BY <1>2, <2>1, <2>2, <2>3, <2>4, <2>5, <2>6 DEF Decoder
<1>3. CASE Display
  <2>1. CASE DequeFrame
    <3>0. UNCHANGED flags /\ failed \subseteq failed'
      BY <2>1 DEF DequeFrame
    <3>1. CASE Take("display", "frame") /\ Goto("display", "deque", "show")
      BY <3>1, <3>0, <2>1 DEF DequeFrame, Take, ListsTyped
    <3>2. CASE Sleep("display", "frame") /\ pc["display"] = "deque"
              /\ UNCHANGED pc
      BY <3>2, <3>0, <2>1 DEF DequeFrame, Sleep, ListsTyped
    <3>3. CASE GiveUp("display", "frame") /\ Goto("display", "deque", "done")
      BY <3>3, <3>0, <2>1 DEF DequeFrame, GiveUp, ListsTyped
    <3> QED
      BY <2>1, <3>1, <3>2, <3>3 DEF DequeFrame
  <2>2. CASE Show
    BY <2>2 DEF Show
  <2>3. CASE ShowFails
    BY <2>3 DEF ShowFails
  <2> QED
    BY <1>3, <2>1, <2>2, <2>3 DEF Display
<1>4. CASE Speaker
  <2>1. CASE PcmInit
    BY <2>1 DEF PcmInit
  <2>2. CASE DequeAudio
    <3>0. UNCHANGED flags /\ failed \subseteq failed'
      BY <2>2 DEF DequeAudio
    <3>1. CASE Take("speaker", "audio") /\ Goto("speaker", "deque", "play")
              /\ UNCHANGED failed
      BY <3>1, <3>0, <2>2 DEF DequeAudio, Take, ListsTyped
    <3>2. CASE Take("speaker", "audio") /\ Fails("speaker", "deque", "done")
      BY <3>2, <3>0, <2>2 DEF DequeAudio, Take, ListsTyped
    <3>3. CASE Sleep("speaker", "audio") /\ pc["speaker"] = "deque"
              /\ UNCHANGED <<pc, failed>>
      BY <3>3, <3>0, <2>2 DEF DequeAudio, Sleep, ListsTyped
    <3>4. CASE GiveUp("speaker", "audio") /\ Goto("speaker", "deque", "done")
              /\ UNCHANGED failed
      BY <3>4, <3>0, <2>2 DEF DequeAudio, GiveUp, ListsTyped
    <3> QED
      BY <2>2, <3>1, <3>2, <3>3, <3>4 DEF DequeAudio
  <2>3. CASE Play
    BY <2>3 DEF Play
  <2> QED
    BY <1>4, <2>1, <2>2, <2>3 DEF Speaker
<1>5. CASE SpuriousWake
  BY <1>5 DEF SpuriousWake
<1>6. CASE Main
  BY <1>6 DEF Main
<1>7. CASE UNCHANGED vars
  BY <1>7 DEF vars
<1> QED
  BY <1>1, <1>2, <1>3, <1>4, <1>5, <1>6, <1>7 DEF Next, Stopped

LEMMA ControlAlways == Spec => []Control
BY TypedAlways, ControlInit, ControlStep, PTL DEF Spec

(* media.c:177, 223, 272: the mutex that a deque function keeps locked is  *)
(* one that nobody but the reader, at media.c:31, can still want. *)
THEOREM LeaksContained == Spec => []MutexLeakContained
<1>1. Typed /\ Control => MutexLeakContained
  BY DEF Typed, PcTyped, Control, Flags, Ending, Leak, MutexLeakContained,
         ProducerGone, Consumer, Lists
<1> QED
  BY <1>1, TypedAlways, ControlAlways, PTL

(* media.c:179, 225, 274: whoever sleeps on a list will be woken. *)
THEOREM SleepersWoken == Spec => []SleeperHasWaker
<1>1. Typed /\ Control => SleeperHasWaker
  BY DEF Typed, ListsTyped, Control, Ending, Leak, Woken, SleeperHasWaker
<1> QED
  BY <1>1, TypedAlways, ControlAlways, PTL

-----------------------------------------------------------------------------
(* The lists.  What was taken and what is queued is what was sent. *)

Balance == \A q \in Lists : got[q] \o queue[q] = sent[q]

LEMMA AppendCat ==
  ASSUME NEW S, NEW g \in Seq(S), NEW r \in Seq(S), NEW x \in S
  PROVE  g \o Append(r, x) = Append(g \o r, x)
OBVIOUS

LEMMA TakeCat ==
  ASSUME NEW S, NEW g \in Seq(S), NEW r \in Seq(S), r # <<>>
  PROVE  Append(g, Head(r)) \o Tail(r) = g \o r
OBVIOUS

LEMMA BalanceEnque ==
  ASSUME Typed, Balance, NEW t \in Jobs, NEW q \in Lists, hand[t] # 0,
         Enque(t, q)
  PROVE  Balance'
<1>1. hand[t] \in 1..MaxPackets
  BY MaxPacketsNat DEF Typed, RestTyped
<1>2. got[q] \o Append(queue[q], hand[t]) = Append(sent[q], hand[t])
  BY <1>1, AppendCat DEF Typed, ListsTyped, Balance
<1> QED
  BY <1>2 DEF Typed, ListsTyped, Balance, Enque

LEMMA BalanceTake ==
  ASSUME Typed, Balance, NEW t \in Jobs, NEW q \in Lists, Take(t, q)
  PROVE  Balance'
<1>1. Append(got[q], Head(queue[q])) \o Tail(queue[q]) = got[q] \o queue[q]
  BY TakeCat DEF Typed, ListsTyped, Take
<1> QED
  BY <1>1 DEF Typed, ListsTyped, Balance, Take

LEMMA BalanceStep == Typed /\ Balance /\ [Next]_vars => Balance'
<1> SUFFICES ASSUME Typed, Balance, [Next]_vars PROVE Balance'
  OBVIOUS
<1>1. ASSUME NEW q \in {"video", "audio"}, EnquePacket(q) PROVE Balance'
  BY <1>1, BalanceEnque
  DEF EnquePacket, Goto, Typed, HandsFull, Lists, Jobs
<1>2. CASE EnqueFrame
  BY <1>2, BalanceEnque DEF EnqueFrame, Goto, Typed, HandsFull, Lists, Jobs
<1>3. CASE DequeVideo
  BY <1>3, BalanceTake
  DEF DequeVideo, Sleep, GiveUp, Balance, history, Lists, Jobs
<1>4. CASE DequeFrame
  BY <1>4, BalanceTake
  DEF DequeFrame, Sleep, GiveUp, Balance, history, Lists, Jobs
<1>5. CASE DequeAudio
  BY <1>5, BalanceTake
  DEF DequeAudio, Sleep, GiveUp, Balance, history, Lists, Jobs
<1>6. CASE UNCHANGED <<queue, sent, got>>
  BY <1>6 DEF Balance
<1> QED
  BY <1>1, <1>2, <1>3, <1>4, <1>5, <1>6
  DEF Next, Reader, Decoder, Display, Speaker, ReadPacket, ReadEnd,
      EnquePacketFails, ExitVideo, ExitAudio, Decode, DecodeFails,
      EnqueFrameFails, ExitFrame, Show, ShowFails, PcmInit, Play,
      SpuriousWake, Main, Stopped, vars, history

LEMMA BalanceAlways == Spec => []Balance
<1>1. Init => Balance
  BY DEF Init, Balance
<1> QED
  BY <1>1, TypedAlways, BalanceStep, PTL DEF Spec

(* media.c:174, 220, 269: the exit flags cut nothing off a list. *)
THEOREM NothingIsCutOff == Spec => []NothingCutOff
<1>1. Typed /\ Control /\ Balance => NothingCutOff
  <2> SUFFICES ASSUME Typed, Control, Balance, NEW q \in Lists,
                      pc[Consumer(q)] \in {"exit", "done"},
                      Consumer(q) \notin failed
               PROVE  /\ got[q] = sent[q]
                      /\ pc[Producer(q)] \in {"exitAudio", "done"}
    BY DEF NothingCutOff
  <2>1. queue[q] = <<>> /\ ProducerGone(q)
    BY DEF Control, Ending, Emptied
  <2>2. got[q] = sent[q]
    BY <2>1, ConcatEmptySeq DEF Balance, Typed, ListsTyped
  <2>3. pc[Producer(q)] \in {"exitAudio", "done"}
    BY <2>1 DEF Control, Flags, ProducerGone, Producer
  <2> QED
    BY <2>2, <2>3
<1> QED
  BY <1>1, TypedAlways, ControlAlways, BalanceAlways, PTL

-----------------------------------------------------------------------------
(* The order of the packets and the pictures. *)

In(s, x) == \E i \in 1..Len(s) : s[i] = x

(* The reader numbers the packets upwards. *)
Upwards(q) ==
  /\ \A i, k \in 1..Len(sent[q]) : i < k => sent[q][i] < sent[q][k]
  /\ \A i \in 1..Len(sent[q]) : sent[q][i] <= read

Fresh ==
  pc["reader"] \in {"video", "audio"} =>
    /\ hand["reader"] = read
    /\ \A q \in {"video", "audio"} : \A i \in 1..Len(sent[q]) :
         sent[q][i] < read

Numbered == Fresh /\ Upwards("video") /\ Upwards("audio")

LEMMA NumberedStep == Typed /\ Numbered /\ [Next]_vars => Numbered'
<1> SUFFICES ASSUME Typed, Numbered, [Next]_vars PROVE Numbered'
  OBVIOUS
<1>0. /\ sent["video"] \in Seq(1..MaxPackets)
      /\ sent["audio"] \in Seq(1..MaxPackets)
      /\ read \in Nat
      /\ pc \in [Threads -> ReaderPC \cup DecoderPC \cup DisplayPC
                           \cup SpeakerPC \cup MainPC]
      /\ hand \in [Jobs -> 0..MaxPackets]
      /\ sent \in [Lists -> Seq(1..MaxPackets)]
  BY MaxPacketsNat DEF Typed, ListsTyped, RestTyped, PcTyped, Lists
<1>a. \A q \in {"video", "audio"} :
        /\ sent[q] \in Seq(1..MaxPackets)
        /\ Len(sent[q]) \in Nat
        /\ \A i \in 1..Len(sent[q]) : sent[q][i] \in Nat
  BY <1>0, MaxPacketsNat, LenProperties, ElementOfSeq
<1>b. \A q \in {"video", "audio"} : Upwards(q)
  BY DEF Numbered
<1>c. read \in Nat
  BY <1>0
<1>1. ASSUME NEW to \in {"video", "audio", "read"}, ReadPacket(to)
      PROVE  Numbered'
  <2>1. read' = read + 1 /\ UNCHANGED sent
    BY <1>1 DEF ReadPacket, history
  <2>2. hand'["reader"] = read'
    BY <1>0, <1>1 DEF ReadPacket, Jobs
  <2>3. \A q \in {"video", "audio"} : \A i \in 1..Len(sent[q]) :
          sent[q][i] < read + 1
    BY <1>0, <1>a, <1>b DEF Upwards
  <2>4. \A q \in {"video", "audio"} : Upwards(q)'
    <3> TAKE q \in {"video", "audio"}
    <3>1. \A i, k \in 1..Len(sent[q]) : i < k => sent[q][i] < sent[q][k]
      BY <1>b DEF Upwards
    <3>2. ASSUME NEW i \in 1..Len(sent[q]) PROVE sent[q][i] <= read'
      <4>1. sent[q][i] \in Nat /\ sent[q][i] < read + 1
        BY <1>a, <2>3
      <4> QED
        BY <1>c, <2>1, <4>1
    <3>3. sent'[q] = sent[q]
      BY <2>1
    <3> QED
      BY <3>1, <3>2, <3>3 DEF Upwards
  <2> QED
    BY <2>1, <2>2, <2>3, <2>4 DEF Numbered, Fresh
<1>2. ASSUME NEW q \in {"video", "audio"}, EnquePacket(q) PROVE Numbered'
  <2>1. /\ pc["reader"] = q /\ pc'["reader"] = "read"
        /\ hand["reader"] = read /\ UNCHANGED read
    BY <1>0, <1>2 DEF EnquePacket, Goto, Numbered, Fresh, Threads, Jobs
  <2>2. /\ sent'[q] = Append(sent[q], read)
        /\ \A r \in {"video", "audio"} \ {q} : sent'[r] = sent[r]
    BY <1>0, <1>2, <2>1 DEF EnquePacket, Enque, Lists
  <2>3. \A i \in 1..Len(sent[q]) : sent[q][i] < read
    BY <2>1 DEF Numbered, Fresh
  <2>4. Upwards(q)'
    <3>1. /\ sent[q] \in Seq(1..MaxPackets)
          /\ Len(sent'[q]) = Len(sent[q]) + 1
          /\ sent'[q][Len(sent[q]) + 1] = read
          /\ \A i \in 1..Len(sent[q]) : sent'[q][i] = sent[q][i]
      BY <1>0, <2>2, AppendProperties DEF Lists
    <3>2. /\ \A i, k \in 1..Len(sent[q]) : i < k => sent[q][i] < sent[q][k]
          /\ Len(sent[q]) \in Nat
          /\ \A i \in 1..Len(sent[q]) : sent[q][i] \in Nat
      BY <1>a, <1>b DEF Upwards
    <3>3. ASSUME NEW i \in 1..Len(sent'[q]) PROVE sent'[q][i] <= read'
      BY <1>c, <2>1, <2>3, <3>1, <3>2, <3>3
    <3>4. ASSUME NEW i \in 1..Len(sent'[q]), NEW k \in 1..Len(sent'[q]), i < k
          PROVE  sent'[q][i] < sent'[q][k]
      <4>1. i \in 1..Len(sent[q])
        BY <3>1, <3>2, <3>4
      <4>2. CASE k = Len(sent[q]) + 1
        BY <4>1, <4>2, <2>3, <3>1
      <4>3. CASE k \in 1..Len(sent[q])
        BY <4>1, <4>3, <3>1, <3>2, <3>4
      <4> QED
        BY <4>2, <4>3, <3>1, <3>2
    <3> QED
      BY <3>3, <3>4 DEF Upwards
  <2>5. \A r \in {"video", "audio"} \ {q} : Upwards(r)'
    BY <2>1, <2>2 DEF Numbered, Upwards
  <2> QED
    BY <2>1, <2>4, <2>5 DEF Numbered, Fresh
<1>3. CASE /\ UNCHANGED <<read, sent>>
           /\ pc'["reader"] \in {"video", "audio"} =>
                /\ pc'["reader"] = pc["reader"]
                /\ hand'["reader"] = hand["reader"]
  BY <1>3 DEF Numbered, Fresh, Upwards
<1>4. CASE EnqueFrame
  BY <1>0, <1>4
  DEF EnqueFrame, Enque, Goto, Numbered, Fresh, Upwards, Lists, Jobs, Threads
<1>5. CASE \/ ReadEnd \/ ExitVideo \/ ExitAudio
           \/ \E q \in {"video", "audio"} : EnquePacketFails(q)
  BY <1>0, <1>3, <1>5
  DEF ReadEnd, ExitVideo, ExitAudio, EnquePacketFails, Goto, Fails, history,
      Threads
<1>6. CASE Decode \/ DecodeFails \/ EnqueFrameFails \/ ExitFrame
  BY <1>0, <1>3, <1>6
  DEF Decode, DecodeFails, EnqueFrameFails, ExitFrame, Goto, Fails, history,
      Threads, Jobs
<1>7. CASE DequeVideo
  BY <1>0, <1>3, <1>7
  DEF DequeVideo, Take, Sleep, GiveUp, Goto, Fails, history, Threads, Jobs
<1>8. CASE DequeFrame
  BY <1>0, <1>3, <1>8
  DEF DequeFrame, Take, Sleep, GiveUp, Goto, history, Threads, Jobs
<1>9. CASE DequeAudio
  BY <1>0, <1>3, <1>9
  DEF DequeAudio, Take, Sleep, GiveUp, Goto, Fails, history, Threads, Jobs
<1>10. CASE Show \/ ShowFails \/ PcmInit \/ Play
  BY <1>0, <1>3, <1>10
  DEF Show, ShowFails, PcmInit, Play, Goto, Fails, history, Threads, Jobs
<1>11. CASE SpuriousWake \/ Main \/ UNCHANGED vars
  <2>1. UNCHANGED <<read, sent, hand>>
    BY <1>11 DEF SpuriousWake, Main, history, vars
  <2>2. pc'["reader"] = pc["reader"]
    BY <1>0, <1>11 DEF SpuriousWake, Main, Goto, vars, Threads, Jobs
  <2> QED
    BY <1>3, <2>1, <2>2
<1> QED
  BY <1>1, <1>2, <1>4, <1>5, <1>6, <1>7, <1>8, <1>9, <1>10, <1>11
  DEF Next, Reader, Decoder, Display, Speaker, Stopped

LEMMA NumberedAlways == Spec => []Numbered
<1>1. Init => Numbered
  BY DEF Init, Numbered, Fresh, Upwards, Lists, Threads, Jobs
<1> QED
  BY <1>1, TypedAlways, NumberedStep, PTL DEF Spec

(* A picture is at one place only: with the codec, in the hands of the     *)
(* decoder or among those sent; it comes from a packet the decoder got.    *)
Pictured(p) == In(got["video"], p) /\ ~In(sent["frame"], p)

PicturesHeld ==
  /\ \A i \in 1..Len(sent["frame"]) : In(got["video"], sent["frame"][i])
  /\ \A i, k \in 1..Len(sent["frame"]) :
       i # k => sent["frame"][i] # sent["frame"][k]
  /\ \A p \in inCodec : Pictured(p)
  /\ pc["decoder"] \in {"decode", "enque"} =>
       Pictured(hand["decoder"]) /\ hand["decoder"] \notin inCodec

LEMMA AppendIn ==
  ASSUME NEW S, NEW s \in Seq(S), NEW x \in S
  PROVE  \A y : In(Append(s, x), y) <=> In(s, y) \/ y = x
<1>1. /\ Len(s) \in Nat
      /\ Len(Append(s, x)) = Len(s) + 1
      /\ Append(s, x)[Len(s) + 1] = x
      /\ \A i \in 1..Len(s) : Append(s, x)[i] = s[i]
  BY AppendProperties, LenProperties
<1>2. ASSUME NEW y PROVE In(Append(s, x), y) <=> In(s, y) \/ y = x
  <2>1. \A i \in 1..Len(s) + 1 : i \in 1..Len(s) \/ i = Len(s) + 1
    BY <1>1
  <2>2. Len(s) + 1 \in 1..Len(s) + 1 /\ 1..Len(s) \subseteq 1..Len(s) + 1
    BY <1>1
  <2> QED
    BY <1>1, <2>1, <2>2 DEF In
<1> QED
  BY <1>2

(* What is taken from the video list was never taken before. *)
LEMMA HeadFresh ==
  ASSUME Typed, Numbered, Balance, queue["video"] # <<>>
  PROVE  ~In(got["video"], Head(queue["video"]))
<1> DEFINE g == got["video"]
           r == queue["video"]
           s == sent["video"]
<1>1. /\ g \in Seq(1..MaxPackets) /\ r \in Seq(1..MaxPackets)
      /\ g \o r = s
  BY DEF Typed, ListsTyped, Balance, Lists
<1>2. r # <<>> /\ Upwards("video")
  BY DEF Numbered
<1> HIDE DEF g, r, s
<1>3. /\ Len(g) \in Nat /\ Len(r) \in Nat \ {0}
      /\ Len(s) = Len(g) + Len(r)
      /\ \A i \in 1..Len(g) : s[i] = g[i] /\ s[i] \in 1..MaxPackets
      /\ s[Len(g) + 1] = Head(r) /\ s[Len(g) + 1] \in 1..MaxPackets
  <2>1. Len(g) \in Nat /\ Len(r) \in Nat \ {0} /\ r[1] = Head(r)
    BY <1>1, <1>2, LenProperties, HeadTailProperties, EmptySeq
  <2>2. /\ Len(s) = Len(g) + Len(r)
        /\ \A i \in 1..Len(g) + Len(r) :
             s[i] = IF i <= Len(g) THEN g[i] ELSE r[i - Len(g)]
    BY <1>1, ConcatProperties
  <2>3. \A i \in 1..Len(g) : g[i] \in 1..MaxPackets
    BY <1>1, ElementOfSeq
  <2>4. r[1] \in 1..MaxPackets
    BY <1>1, <1>2, <2>1, HeadTailProperties
  <2>5. ASSUME NEW i \in 1..Len(g) PROVE s[i] = g[i] /\ s[i] \in 1..MaxPackets
    <3>1. i \in 1..Len(g) + Len(r) /\ i <= Len(g)
      BY <2>1
    <3> QED
      BY <3>1, <2>2, <2>3
  <2>6. s[Len(g) + 1] = r[1]
    <3>1. /\ Len(g) + 1 \in 1..Len(g) + Len(r) /\ ~(Len(g) + 1 <= Len(g))
          /\ Len(g) + 1 - Len(g) = 1
      BY <2>1
    <3> QED
      BY <3>1, <2>2
  <2> QED
    BY <2>1, <2>2, <2>4, <2>5, <2>6
<1>4. \A i, k \in 1..Len(s) : i < k => s[i] < s[k]
  BY <1>2 DEF Upwards, s
<1>5. ASSUME NEW i \in 1..Len(g) PROVE g[i] # Head(r)
  <2>1. i \in 1..Len(s) /\ Len(g) + 1 \in 1..Len(s) /\ i < Len(g) + 1
    BY <1>3
  <2>2. s[i] < s[Len(g) + 1]
    BY <1>4, <2>1
  <2> QED
    BY <1>3, <2>2, MaxPacketsNat
<1> QED
  BY <1>5 DEF In, g, r

LEMMA PicturesStep ==
  Typed /\ Numbered /\ Balance /\ PicturesHeld /\ [Next]_vars => PicturesHeld'
<1> SUFFICES ASSUME Typed, Numbered, Balance, PicturesHeld, [Next]_vars
             PROVE  PicturesHeld'
  OBVIOUS
<1>0. /\ got["video"] \in Seq(1..MaxPackets)
      /\ sent["frame"] \in Seq(1..MaxPackets)
      /\ hand \in [Jobs -> 0..MaxPackets]
      /\ sent \in [Lists -> Seq(1..MaxPackets)]
      /\ got \in [Lists -> Seq(1..MaxPackets)]
      /\ pc["decoder"] \in {"decode", "enque"} =>
           hand["decoder"] \in 1..MaxPackets
  BY MaxPacketsNat DEF Typed, ListsTyped, RestTyped, HandsFull, Lists, Jobs
<1>f. pc \in [Threads -> ReaderPC \cup DecoderPC \cup DisplayPC
                        \cup SpeakerPC \cup MainPC]
  BY DEF Typed, PcTyped
<1>1. CASE /\ got'["video"] = got["video"]
           /\ sent'["frame"] = sent["frame"]
           /\ inCodec' = inCodec
           /\ pc'["decoder"] \in {"decode", "enque"} =>
                /\ pc["decoder"] \in {"decode", "enque"}
                /\ hand'["decoder"] = hand["decoder"]
  BY <1>1 DEF PicturesHeld, Pictured
<1>2. CASE Take("decoder", "video") /\ UNCHANGED inCodec
  <2> DEFINE h == Head(queue["video"])
  <2>1. h \in 1..MaxPackets /\ ~In(got["video"], h)
    BY <1>2, HeadFresh, HeadTailProperties
    DEF Take, Typed, ListsTyped, Lists
  <2>2. /\ got'["video"] = Append(got["video"], h)
        /\ sent'["frame"] = sent["frame"]
        /\ hand'["decoder"] = h
        /\ inCodec' = inCodec
    BY <1>0, <1>2 DEF Take, Lists, Jobs
  <2> HIDE DEF h
  <2>3. \A y : In(got'["video"], y) <=> In(got["video"], y) \/ y = h
    <3>1. \A y : In(Append(got["video"], h), y) <=>
                   In(got["video"], y) \/ y = h
      BY <1>0, <2>1, AppendIn
    <3> QED
      BY <2>2, <3>1
  <2>4. ~In(sent["frame"], h) /\ h \notin inCodec
    BY <2>1 DEF PicturesHeld, Pictured, In
  <2> QED
    BY <2>2, <2>3, <2>4 DEF PicturesHeld, Pictured
<1>3. CASE DequeVideo
  BY <1>0, <1>1, <1>2, <1>3, <1>f
  DEF DequeVideo, Sleep, GiveUp, Goto, history, Threads, Jobs
<1>4. CASE Decode
  <2>1. /\ got'["video"] = got["video"] /\ sent'["frame"] = sent["frame"]
        /\ \A p : Pictured(p)' <=> Pictured(p)
    BY <1>4 DEF Decode, history, Pictured
  <2>2. \A p \in inCodec \cup {hand["decoder"]} : Pictured(p)
    BY <1>4 DEF Decode, Goto, PicturesHeld
  <2>3. \/ /\ pc'["decoder"] = "deque"
           /\ inCodec' = inCodec \cup {hand["decoder"]}
        \/ \E p \in inCodec \cup {hand["decoder"]} :
             /\ hand'["decoder"] = p
             /\ inCodec' = (inCodec \cup {hand["decoder"]}) \ {p}
    BY <1>0, <1>4, <1>f DEF Decode, Goto, Threads, Jobs
  <2> QED
    BY <2>1, <2>2, <2>3 DEF PicturesHeld
<1>5. CASE EnqueFrame
  <2> DEFINE h == hand["decoder"]
  <2>1. /\ h \in 1..MaxPackets /\ Pictured(h) /\ h \notin inCodec
    BY <1>0, <1>5 DEF EnqueFrame, Goto, PicturesHeld
  <2>2. /\ got'["video"] = got["video"]
        /\ sent'["frame"] = Append(sent["frame"], h)
        /\ inCodec' = inCodec
        /\ pc'["decoder"] = "deque"
    BY <1>0, <1>5, <1>f DEF EnqueFrame, Enque, Goto, Lists, Jobs, Threads
  <2> HIDE DEF h
  <2>3. \A y : In(sent'["frame"], y) <=> In(sent["frame"], y) \/ y = h
    <3>1. \A y : In(Append(sent["frame"], h), y) <=>
                   In(sent["frame"], y) \/ y = h
      BY <1>0, <2>1, AppendIn
    <3> QED
      BY <2>2, <3>1
  <2>4. \A p \in inCodec' : Pictured(p)'
    BY <2>1, <2>2, <2>3 DEF PicturesHeld, Pictured
  <2>5. /\ Len(sent["frame"]) \in Nat
        /\ Len(sent'["frame"]) = Len(sent["frame"]) + 1
        /\ sent'["frame"][Len(sent["frame"]) + 1] = h
        /\ \A i \in 1..Len(sent["frame"]) :
             sent'["frame"][i] = sent["frame"][i]
    BY <1>0, <2>1, <2>2, AppendProperties, LenProperties
  <2>6. \A i \in 1..Len(sent'["frame"]) :
          i \in 1..Len(sent["frame"]) \/ i = Len(sent["frame"]) + 1
    BY <2>5
  <2>7. \A i \in 1..Len(sent'["frame"]) : In(got'["video"], sent'["frame"][i])
    BY <2>1, <2>2, <2>5, <2>6 DEF PicturesHeld, Pictured
  <2>8. \A i \in 1..Len(sent["frame"]) : sent["frame"][i] # h
    BY <2>1 DEF Pictured, In
  <2>9. \A i, k \in 1..Len(sent'["frame"]) :
          i # k => sent'["frame"][i] # sent'["frame"][k]
    BY <2>5, <2>6, <2>8 DEF PicturesHeld
  <2> QED
    BY <2>2, <2>4, <2>7, <2>9 DEF PicturesHeld
<1>6. CASE DecodeFails \/ EnqueFrameFails \/ ExitFrame
  BY <1>f, <1>1, <1>6
  DEF DecodeFails, EnqueFrameFails, ExitFrame, Goto, Fails, history, Threads,
      Jobs
<1>7. ASSUME NEW q \in {"video", "audio"}, EnquePacket(q) PROVE PicturesHeld'
  BY <1>0, <1>f, <1>1, <1>7
  DEF EnquePacket, Enque, Goto, Threads, Jobs, Lists
<1>8. CASE \/ \E to \in {"video", "audio", "read"} : ReadPacket(to)
           \/ ReadEnd \/ ExitVideo \/ ExitAudio
           \/ \E q \in {"video", "audio"} : EnquePacketFails(q)
  BY <1>0, <1>f, <1>1, <1>8
  DEF ReadPacket, ReadEnd, ExitVideo, ExitAudio, EnquePacketFails, Goto,
      Fails, history, Threads, Jobs
<1>9. CASE DequeFrame
  BY <1>0, <1>f, <1>1, <1>9
  DEF DequeFrame, Take, Sleep, GiveUp, Goto, history, Threads, Jobs, Lists
<1>10. CASE DequeAudio
  BY <1>0, <1>f, <1>1, <1>10
  DEF DequeAudio, Take, Sleep, GiveUp, Goto, Fails, history, Threads, Jobs,
      Lists
<1>11. CASE Show \/ ShowFails \/ PcmInit \/ Play \/ SpuriousWake \/ Main
  BY <1>0, <1>f, <1>1, <1>11
  DEF Show, ShowFails, PcmInit, Play, SpuriousWake, Main, Goto, Fails,
      history, Threads, Jobs
<1>12. CASE UNCHANGED vars
  BY <1>1, <1>12 DEF vars
<1> QED
  BY <1>3, <1>4, <1>5, <1>6, <1>7, <1>8, <1>9, <1>10, <1>11, <1>12
  DEF Next, Reader, Decoder, Display, Speaker, Stopped

(* media.c:163, 182, 209, 228, 258, 277: nothing is lost, doubled or       *)
(* reordered in a list, and no picture is shown twice, whatever failed.    *)
THEOREM ListsInOrder == Spec => []InOrder
<1>1. Init => PicturesHeld
  BY DEF Init, PicturesHeld, Pictured, Lists, Jobs, Threads
<1>2. Numbered /\ Balance /\ PicturesHeld => InOrder
  BY DEF Numbered, Upwards, Balance, PicturesHeld, In, InOrder
<1> QED
  BY <1>1, <1>2, TypedAlways, NumberedAlways, BalanceAlways, PicturesStep,
     PTL DEF Spec

-----------------------------------------------------------------------------
(* The programs together *)

LEMMA ProgramsStart ==
  ProgramsInit => /\ Init /\ VaInit /\ DemoInit /\ PpInit
                  /\ VirtInit /\ JpgInit /\ JrdInit
BY DEF ProgramsInit

(* A step of the one that runs is a step of its module, and leaves the     *)
(* others where they are. *)
LEMMA ProgramsStepOf ==
  ASSUME [ProgramsNext]_programVars
  PROVE  /\ [Next]_vars /\ [VaNext]_vaVars /\ [DemoNext]_demoVars
         /\ [PpNext \/ (PpEnded /\ UNCHANGED ppVars)]_ppVars
         /\ [VirtNext]_virtVars
         /\ [JpgNext \/ (JpgEnded /\ UNCHANGED jpgVars)]_jpgVars
         /\ [JrdNext \/ (JrdEnded /\ UNCHANGED jrdVars)]_jrdVars
<1>1. CASE UNCHANGED programVars
  BY <1>1 DEF programVars
<1>2. CASE ProgramsNext
  BY <1>2 DEF ProgramsNext, Runs
<1> QED
  BY <1>1, <1>2

(* Whichever program runs, each module is in the behaviours that its own   *)
(* specification allows, the runs of them together included: what is       *)
(* proved of the player, of the objects of the VA player, of the demos, of *)
(* the pictures and of the parts of libjpeg holds for the programs. *)
THEOREM ProgramsRunTheirParts ==
  ProgramsSpec => /\ Spec /\ VaSpec /\ DemoSpec /\ PpSpec
                  /\ VirtSpec /\ JpgSpec /\ JrdSpec
<1>1. ProgramsSpec => ProgramsInit /\ [][ProgramsNext]_programVars
  BY PTL DEF ProgramsSpec
<1> QED
  BY <1>1, ProgramsStart, ProgramsStepOf, PTL
    DEF Spec, VaSpec, DemoSpec, PpSpec, VirtSpec, JpgSpec, JrdSpec

(* libjpeg loses no row, repeats none and takes none for another: in a     *)
(* virtual array, on the way to its compressor and out of its              *)
(* decompressor, for every height, factor and size of the pieces; with a   *)
(* two-pass quantizer for one or two rows in a group only. *)
THEOREM JpegKeepsRows ==
  ASSUME TwoPassVSampFactors \subseteq {1, 2}
  PROVE  ProgramsSpec => []JpegRowsKept
<1>1. VirtInv => FileUpToDate
  BY DEF VirtInv
<1>2. VirtSpec => []FileUpToDate
  BY <1>1, ArrayInvariant, PTL
<1>3. FileUpToDate /\ RowsReachCompressor /\ RowsLeaveDecompressor
        => JpegRowsKept
  BY DEF JpegRowsKept
<1> QED
  BY <1>2, <1>3, ProgramsRunTheirParts, RowsReachTheCompressor,
     RowsLeaveInOrder, PTL

(* The programs are safe, for files of any length, any objects, periods    *)
(* and fields of the headers, and images of any size: but for the push     *)
(* reader of libpng, what is checked of every state holds in every state.  *)
THEOREM ProgramsAreSafe ==
  ASSUME TwoPassVSampFactors \subseteq {1, 2}
  PROVE  ProgramsSpec =>
           [](/\ TypeOK /\ VaTypeOK /\ DemoTypeOK /\ PpTypeOK
              /\ VirtTypeOK /\ JpgTypeOK /\ JrdTypeOK
              /\ MutexLeakContained /\ SleeperHasWaker /\ NothingCutOff
              /\ InOrder /\ VaObjectsSound /\ DemoFramesSound
              /\ DecoderFollows /\ JpegRowsKept)
<1>1. /\ Spec => []TypeOK /\ []MutexLeakContained /\ []SleeperHasWaker
      /\ Spec => []NothingCutOff /\ []InOrder
  BY TypeCorrect, LeaksContained, SleepersWoken, NothingIsCutOff,
     ListsInOrder, PTL
<1> QED
  BY <1>1, ArrayTypeCorrect, ProgramsRunTheirParts, VaTypeCorrect, VaObjectsLive,
     DemoTypeCorrect, DemoFramesKept, PicturesTypeCorrect, TheDecoderFollows,
     PrepTypeCorrect, JpegKeepsRows, RowsTypeCorrect, PTL
=============================================================================
