------------------------- MODULE PictureParamsProofs -------------------------
(***************************************************************************)
(* A decoder that has nothing but the packed headers comes to the same     *)
(* pictures as the driver, for every size of the fields, every number of   *)
(* references and of surfaces, and all periods.  First the headers: what   *)
(* is written is read back, element by element.  Then the numbers of the   *)
(* pictures of a group, the references with their surfaces, and the lists. *)
(***************************************************************************)
EXTENDS PictureParams, CommonFacts, FiniteSetTheorems

LEMMA LeastOf ==
  ASSUME NEW S \in SUBSET Int, NEW k \in S, \A j \in S : k <= j
  PROVE  Min(S) = k
<1>1. Min(S) \in S /\ \A y \in S : Min(S) <= y
  BY DEF Min
<1>2. Min(S) \in Int /\ k \in Int /\ Min(S) <= k /\ k <= Min(S)
  BY <1>1
<1> QED
  BY <1>2

(* Elements of headers, their names, and what the syntax says of them. *)
Names ==
  {"profile_idc", "constraint_set_flag", "reserved_zero_4bits", "level_idc",
   "seq_parameter_set_id", "chroma_format_idc", "bit_depth_luma_minus8",
   "bit_depth_chroma_minus8", "qpprime_y_zero_transform_bypass_flag",
   "seq_scaling_matrix_present_flag", "log2_max_frame_num_minus4",
   "pic_order_cnt_type", "log2_max_pic_order_cnt_lsb_minus4",
   "num_ref_frames", "gaps_in_frame_num_value_allowed_flag",
   "pic_width_in_mbs_minus1", "pic_height_in_map_units_minus1",
   "frame_mbs_only_flag", "direct_8x8_inference_flag",
   "frame_cropping_flag", "frame_crop_left_offset",
   "frame_crop_right_offset", "frame_crop_top_offset",
   "frame_crop_bottom_offset", "vui_parameters_present_flag",
   "first_mb_in_slice", "slice_type", "pic_parameter_set_id", "frame_num",
   "idr_pic_id", "pic_order_cnt_lsb", "direct_spatial_mv_pred_flag",
   "num_ref_idx_active_override_flag", "ref_pic_list_reordering_flag_l0",
   "ref_pic_list_reordering_flag_l1", "no_output_of_prior_pics_flag",
   "long_term_reference_flag", "adaptive_ref_pic_marking_mode_flag",
   "cabac_init_idc", "slice_qp_delta", "disable_deblocking_filter_idc",
   "slice_alpha_c0_offset_div2", "slice_beta_offset_div2"}
Codings == {"u", "ue", "se"} \X Int
Items == [name : Names, code : Codings, val : Int]
NamesOf(s) == {s[i].name : i \in 1..Len(s)}
Fields(s) == [i \in 1..Len(s) |-> <<s[i].name, s[i].code>>]
Fits(e) == e.code[1] = "u" => e.val \in 0..2^e.code[2] - 1
Coded(s, syntax) ==
  s \in Seq(Items) /\ Fields(s) = syntax /\ \A i \in 1..Len(s) : Fits(s[i])

LEMMA Codes ==
  /\ \A n \in Int : U(n) \in Codings
  /\ UE \in Codings /\ SE \in Codings
  /\ UE[1] # "u" /\ SE[1] # "u"
  /\ \A n \in Int : U(n)[1] = "u" /\ U(n)[2] = n
<1>2. UE \in Codings /\ SE \in Codings
  BY DEF UE, SE, Codings
<1>3. \A n \in Int : U(n) \in Codings
  BY DEF U, Codings
<1>4. UE[1] # "u" /\ SE[1] # "u"
  BY DEF UE, SE
<1>5. \A n \in Int : U(n)[1] = "u" /\ U(n)[2] = n
  BY DEF U
<1> QED
  BY <1>2, <1>3, <1>4, <1>5

LEMMA ElementIsItem ==
  ASSUME NEW name \in Names, NEW code \in Codings, NEW val \in Int
  PROVE  Element(name, code, val) \in Items
BY DEF Element, Items

LEMMA FlagIsItem ==
  ASSUME NEW name \in Names, NEW val \in {0, 1}
  PROVE  /\ Flag(name, val) \in Items /\ Fits(Flag(name, val))
         /\ Flag(name, val).name = name /\ Flag(name, val).code = U(1)
<1>1. 2^1 = 2
  OBVIOUS
<1>2. Flag(name, val) = Element(name, U(1), val)
  BY DEF Flag
<1>3. U(1) \in Codings /\ U(1)[1] = "u" /\ U(1)[2] = 1
  BY Codes
<1>4. val \in Int /\ val \in 0..2 - 1
  OBVIOUS
<1>5. Flag(name, val) \in Items
  BY <1>2, <1>3, <1>4, ElementIsItem
<1> DEFINE e == Flag(name, val)
<1>6. e.name = name /\ e.code = U(1) /\ e.val = val
  BY <1>2 DEF Element
<1> HIDE DEF e
<1>7. e.code[2] = 1 /\ e.val \in 0..2^1 - 1
  BY <1>1, <1>3, <1>4, <1>6
<1>8. Fits(e)
  BY <1>7 DEF Fits
<1> QED
  BY <1>5, <1>6, <1>8 DEF e

LEMMA JoinedSeqs ==
  ASSUME NEW S, NEW s \in Seq(S), NEW t \in Seq(S)
  PROVE  /\ s \o t \in Seq(S)
         /\ Len(s \o t) = Len(s) + Len(t) /\ Len(s) \in Nat /\ Len(t) \in Nat
         /\ \A i \in 1..Len(s) : (s \o t)[i] = s[i]
         /\ \A i \in 1..Len(t) : (s \o t)[Len(s) + i] = t[i]
OBVIOUS

LEMMA SeqByPlace ==
  ASSUME NEW S, NEW s \in Seq(S) PROVE s = [i \in 1..Len(s) |-> s[i]]
OBVIOUS

LEMMA JoinedItems ==
  ASSUME NEW s \in Seq(Items), NEW t \in Seq(Items)
  PROVE  /\ s \o t \in Seq(Items)
         /\ Len(s \o t) = Len(s) + Len(t) /\ Len(s) \in Nat /\ Len(t) \in Nat
         /\ \A i \in 1..Len(s) : (s \o t)[i] = s[i]
         /\ \A i \in 1..Len(t) : (s \o t)[Len(s) + i] = t[i]
OBVIOUS

LEMMA JoinedNames ==
  ASSUME NEW s \in Seq(Items), NEW t \in Seq(Items)
  PROVE  NamesOf(s \o t) = NamesOf(s) \cup NamesOf(t)
<1>1. /\ Len(s \o t) = Len(s) + Len(t) /\ Len(s) \in Nat /\ Len(t) \in Nat
      /\ \A i \in 1..Len(s) : (s \o t)[i] = s[i]
      /\ \A i \in 1..Len(t) : (s \o t)[Len(s) + i] = t[i]
  BY JoinedItems
<1>2. ASSUME NEW i \in 1..Len(s \o t)
      PROVE  (s \o t)[i].name \in NamesOf(s) \cup NamesOf(t)
  <2>1. CASE i \in 1..Len(s)
    BY <1>1, <2>1 DEF NamesOf
  <2>2. CASE i \notin 1..Len(s)
    <3>1. i - Len(s) \in 1..Len(t) /\ i = Len(s) + (i - Len(s))
      BY <1>1, <2>2
    <3> QED
      BY <1>1, <3>1 DEF NamesOf
  <2> QED
    BY <2>1, <2>2
<1>3. ASSUME NEW i \in 1..Len(s)
      PROVE  s[i].name \in NamesOf(s \o t)
  <2>1. i \in 1..Len(s \o t)
    BY <1>1
  <2> QED
    BY <1>1, <2>1 DEF NamesOf
<1>4. ASSUME NEW i \in 1..Len(t)
      PROVE  t[i].name \in NamesOf(s \o t)
  <2>1. Len(s) + i \in 1..Len(s \o t)
    BY <1>1
  <2> QED
    BY <1>1, <2>1 DEF NamesOf
<1> QED
  BY <1>2, <1>3, <1>4 DEF NamesOf

LEMMA JoinedCoded ==
  ASSUME NEW s, NEW t, NEW x, NEW y, Coded(s, x), Coded(t, y)
  PROVE  Coded(s \o t, x \o y)
<1>1. s \in Seq(Items) /\ t \in Seq(Items) /\ x = Fields(s) /\ y = Fields(t)
  BY DEF Coded
<1>2. /\ s \o t \in Seq(Items)
      /\ Len(s \o t) = Len(s) + Len(t) /\ Len(s) \in Nat /\ Len(t) \in Nat
      /\ \A i \in 1..Len(s) : (s \o t)[i] = s[i]
      /\ \A i \in 1..Len(t) : (s \o t)[Len(s) + i] = t[i]
  BY <1>1, JoinedItems
<1>3. ASSUME NEW u \in Seq(Items)
      PROVE  /\ Fields(u) \in Seq(Names \X Codings)
             /\ Len(Fields(u)) = Len(u) /\ Len(u) \in Nat
             /\ \A i \in 1..Len(u) : Fields(u)[i] = <<u[i].name, u[i].code>>
  <2>1. \A i \in 1..Len(u) : u[i] \in Items
    OBVIOUS
  <2>2. \A i \in 1..Len(u) :
          <<u[i].name, u[i].code>> \in Names \X Codings
    BY <2>1 DEF Items
  <2>3. Len(u) \in Nat
    OBVIOUS
  <2> QED
    BY <2>2, <2>3 DEF Fields
<1>4. /\ x \o y \in Seq(Names \X Codings)
      /\ Len(x \o y) = Len(s) + Len(t)
      /\ \A i \in 1..Len(s) : (x \o y)[i] = <<s[i].name, s[i].code>>
      /\ \A i \in 1..Len(t) : (x \o y)[Len(s) + i] = <<t[i].name, t[i].code>>
  <2>1. /\ x \in Seq(Names \X Codings) /\ Len(x) = Len(s)
        /\ \A i \in 1..Len(s) : x[i] = <<s[i].name, s[i].code>>
    BY <1>1, <1>3
  <2>2. /\ y \in Seq(Names \X Codings) /\ Len(y) = Len(t)
        /\ \A i \in 1..Len(t) : y[i] = <<t[i].name, t[i].code>>
    BY <1>1, <1>3
  <2> DEFINE T == Names \X Codings
  <2> HIDE DEF T
  <2>3. x \in Seq(T) /\ y \in Seq(T)
    BY <2>1, <2>2 DEF T
  <2>4. /\ x \o y \in Seq(T)
        /\ Len(x \o y) = Len(x) + Len(y)
        /\ \A i \in 1..Len(x) : (x \o y)[i] = x[i]
        /\ \A i \in 1..Len(y) : (x \o y)[Len(x) + i] = y[i]
    BY <2>3, JoinedSeqs
  <2> QED
    BY <2>1, <2>2, <2>4 DEF T
<1>5. ASSUME NEW i \in 1..Len(s \o t)
      PROVE  /\ (x \o y)[i] = <<(s \o t)[i].name, (s \o t)[i].code>>
             /\ Fits((s \o t)[i])
  <2>1. CASE i \in 1..Len(s)
    BY <1>2, <1>4, <2>1 DEF Coded
  <2>2. CASE i \notin 1..Len(s)
    <3>1. i - Len(s) \in 1..Len(t) /\ i = Len(s) + (i - Len(s))
      BY <1>2, <2>2
    <3> QED
      BY <1>2, <1>4, <3>1 DEF Coded
  <2> QED
    BY <2>1, <2>2
<1>6. Fields(s \o t) = x \o y
  <2>1. Len(x \o y) = Len(s \o t)
    BY <1>2, <1>4
  <2> DEFINE z == x \o y
             st == s \o t
  <2>2. z = [i \in 1..Len(st) |-> z[i]]
    BY <1>4, <2>1, SeqByPlace
  <2>3. \A i \in 1..Len(st) : z[i] = <<st[i].name, st[i].code>>
    BY <1>5
  <2> HIDE DEF z, st
  <2>4. z = [i \in 1..Len(st) |-> <<st[i].name, st[i].code>>]
    BY <2>2, <2>3
  <2> QED
    BY <2>4 DEF Fields, z, st
<1> QED
  BY <1>2, <1>5, <1>6 DEF Coded

LEMMA WhenCoded ==
  ASSUME NEW c \in BOOLEAN, NEW d \in BOOLEAN, c = d,
         NEW s, NEW x, c => Coded(s, x)
  PROVE  Coded(When(c, s), When(d, x))
<1>1. Coded(<<>>, <<>>)
  BY DEF Coded, Fields
<1> QED
  BY <1>1 DEF When

LEMMA NamesOfWhen ==
  ASSUME NEW c \in BOOLEAN, NEW s \in Seq(Items)
  PROVE  /\ When(c, s) \in Seq(Items)
         /\ NamesOf(When(c, s)) \subseteq NamesOf(s)
<1>1. NamesOf(<<>>) = {} /\ <<>> \in Seq(Items)
  BY DEF NamesOf
<1> QED
  BY <1>1 DEF When

(* The first element of a name is the one a decoder reads. *)
LEMMA ReadByName ==
  ASSUME NEW s, Len(s) \in Nat, NEW k \in 1..Len(s),
         \A j \in 1..k - 1 : s[j].name # s[k].name
  PROVE  Dictionary(s)[s[k].name] = s[k].val
<1> DEFINE name == s[k].name
           I == {i \in 1..Len(s) : s[i].name = name}
<1>1. k \in I /\ I \in SUBSET Int /\ \A j \in I : k <= j
  OBVIOUS
<1>2. Min(I) = k
  BY <1>1, LeastOf
<1>3. SelectInSeq(s, LAMBDA e : e.name = name) = k
  BY <1>1, <1>2 DEF SelectInSeq
<1>4. name \in {s[i].name : i \in 1..Len(s)}
  OBVIOUS
<1> QED
  BY <1>3, <1>4 DEF Dictionary

LEMMA FirstOfName ==
  ASSUME NEW s \in Seq(Items), NEW name \in NamesOf(s)
  PROVE  \E k \in 1..Len(s) :
           /\ s[k].name = name /\ \A j \in 1..k - 1 : s[j].name # name
           /\ Dictionary(s)[name] = s[k].val
<1> DEFINE I == {i \in 1..Len(s) : s[i].name = name}
<1>1. I \subseteq Nat /\ I # {} /\ Len(s) \in Nat
  BY DEF NamesOf
<1>2. PICK k \in I : \A j \in I : k <= j
  BY <1>1, LeastNumber
<1>3. k \in 1..Len(s) /\ s[k].name = name
  OBVIOUS
<1>4. \A j \in 1..k - 1 : s[j].name # name
  BY <1>1, <1>2, <1>3
<1>5. Dictionary(s)[name] = s[k].val
  BY <1>1, <1>3, <1>4, ReadByName
<1> QED
  BY <1>3, <1>4, <1>5

LEMMA ReadBefore ==
  ASSUME NEW s \in Seq(Items), NEW t \in Seq(Items), NEW name \in NamesOf(s)
  PROVE  Dictionary(s \o t)[name] = Dictionary(s)[name]
<1>1. PICK k \in 1..Len(s) :
        /\ s[k].name = name /\ \A j \in 1..k - 1 : s[j].name # name
        /\ Dictionary(s)[name] = s[k].val
  BY FirstOfName
<1>2. /\ Len(s \o t) = Len(s) + Len(t) /\ Len(s) \in Nat /\ Len(t) \in Nat
      /\ \A i \in 1..Len(s) : (s \o t)[i] = s[i]
  BY JoinedItems
<1> DEFINE st == s \o t
<1>3. /\ Len(st) \in Nat /\ k \in 1..Len(st) /\ st[k] = s[k]
      /\ \A j \in 1..k - 1 : st[j] = s[j]
  BY <1>2
<1> HIDE DEF st
<1>4. Dictionary(st)[st[k].name] = st[k].val
  BY <1>1, <1>3, ReadByName, ZenonT(60)
<1> QED
  BY <1>1, <1>3, <1>4 DEF st

LEMMA ReadAfter ==
  ASSUME NEW s \in Seq(Items), NEW t \in Seq(Items), NEW name \in NamesOf(t),
         name \notin NamesOf(s)
  PROVE  Dictionary(s \o t)[name] = Dictionary(t)[name]
<1>1. PICK k \in 1..Len(t) :
        /\ t[k].name = name /\ \A j \in 1..k - 1 : t[j].name # name
        /\ Dictionary(t)[name] = t[k].val
  BY FirstOfName
<1>2. /\ Len(s \o t) = Len(s) + Len(t) /\ Len(s) \in Nat /\ Len(t) \in Nat
      /\ \A i \in 1..Len(s) : (s \o t)[i] = s[i]
      /\ \A i \in 1..Len(t) : (s \o t)[Len(s) + i] = t[i]
  BY JoinedItems
<1> DEFINE st == s \o t
           n == Len(s) + k
<1>3. Len(st) \in Nat /\ n \in 1..Len(st) /\ st[n] = t[k]
  BY <1>2
<1>4. ASSUME NEW j \in 1..n - 1
      PROVE  st[j].name # name
  <2>1. CASE j \in 1..Len(s)
    BY <1>2, <2>1 DEF NamesOf
  <2>2. CASE j \notin 1..Len(s)
    <3>1. /\ j - Len(s) \in 1..k - 1 /\ j - Len(s) \in 1..Len(t)
          /\ j = Len(s) + (j - Len(s))
      BY <1>2, <2>2
    <3>2. st[j] = t[j - Len(s)]
      BY <1>2, <3>1
    <3> QED
      BY <1>1, <3>1, <3>2
  <2> QED
    BY <2>1, <2>2
<1> HIDE DEF st, n
<1>5. Dictionary(st)[st[n].name] = st[n].val
  BY <1>1, <1>3, <1>4, ReadByName
<1> QED
  BY <1>1, <1>3, <1>5 DEF st

-----------------------------------------------------------------------------
(* A slice header is written as a decoder reads it.                        *)
Types == {"IDR", "I", "P", "B"}

LEMMA CodedOne ==
  ASSUME NEW e \in Items, Fits(e)
  PROVE  Coded(<<e>>, <<<<e.name, e.code>>>>)
BY DEF Coded, Fields

LEMMA CodedTwo ==
  ASSUME NEW e \in Items, Fits(e), NEW f \in Items, Fits(f)
  PROVE  Coded(<<e, f>>, <<<<e.name, e.code>>, <<f.name, f.code>>>>)
BY DEF Coded, Fields

LEMMA CodedFour ==
  ASSUME NEW e \in Items, Fits(e), NEW f \in Items, Fits(f),
         NEW g \in Items, Fits(g), NEW h \in Items, Fits(h)
  PROVE  Coded(<<e, f, g, h>>,
               <<<<e.name, e.code>>, <<f.name, f.code>>,
                 <<g.name, g.code>>, <<h.name, h.code>>>>)
BY DEF Coded, Fields

LEMMA FreeItem ==
  ASSUME NEW name \in Names, NEW code \in {UE, SE}, NEW val \in Int
  PROVE  LET e == Element(name, code, val)
         IN  e \in Items /\ Fits(e) /\ e.name = name /\ e.code = code
             /\ e.val = val
<1>1. code \in Codings /\ code[1] # "u"
  BY Codes
<1>2. Element(name, code, val) \in Items
  BY <1>1, ElementIsItem
<1> QED
  BY <1>1, <1>2 DEF Element, Fits

LEMMA WideItem ==
  ASSUME NEW name \in Names, NEW n \in Int, NEW val \in Int, val \in 0..2^n - 1
  PROVE  LET e == Element(name, U(n), val)
         IN  e \in Items /\ Fits(e) /\ e.name = name /\ e.code = U(n)
             /\ e.val = val
<1>1. U(n) \in Codings /\ U(n)[2] = n
  BY Codes
<1> DEFINE e == Element(name, U(n), val)
<1>2. e \in Items
  BY <1>1, ElementIsItem
<1>3. e.name = name /\ e.code = U(n) /\ e.val = val
  BY DEF Element
<1> HIDE DEF e
<1>4. Fits(e)
  BY <1>1, <1>3 DEF Fits
<1> QED
  BY <1>2, <1>3, <1>4 DEF e

Opening(type, pic, sps) ==
  <<Element("first_mb_in_slice", UE, 0),
    Element("slice_type", UE, slice_type(type)),
    Element("pic_parameter_set_id", UE, 0),
    Element("frame_num", U(sps.log2_frame_num), pic.frame_num)>>
OpeningSyntax(n) ==
  <<<<"first_mb_in_slice", UE>>, <<"slice_type", UE>>,
    <<"pic_parameter_set_id", UE>>, <<"frame_num", U(n)>>>>

LEMMA OpeningCoded ==
  ASSUME NEW type \in Types, NEW pic, NEW sps, sps.log2_frame_num \in Int,
         pic.frame_num \in Int, pic.frame_num \in 0..2^sps.log2_frame_num - 1
  PROVE  Coded(Opening(type, pic, sps), OpeningSyntax(sps.log2_frame_num))
<1> DEFINE a == Element("first_mb_in_slice", UE, 0)
           b == Element("slice_type", UE, slice_type(type))
           c == Element("pic_parameter_set_id", UE, 0)
           d == Element("frame_num", U(sps.log2_frame_num), pic.frame_num)
<1>1. /\ "first_mb_in_slice" \in Names /\ "slice_type" \in Names
      /\ "pic_parameter_set_id" \in Names /\ "frame_num" \in Names
      /\ slice_type(type) \in Int /\ 0 \in Int
  BY DEF Names, slice_type
<1>2. a \in Items /\ Fits(a) /\ a.name = "first_mb_in_slice" /\ a.code = UE
  BY <1>1, FreeItem
<1>3. b \in Items /\ Fits(b) /\ b.name = "slice_type" /\ b.code = UE
  BY <1>1, FreeItem
<1>4. c \in Items /\ Fits(c) /\ c.name = "pic_parameter_set_id" /\ c.code = UE
  BY <1>1, FreeItem
<1>5. /\ d \in Items /\ Fits(d) /\ d.name = "frame_num"
      /\ d.code = U(sps.log2_frame_num)
  BY <1>1, WideItem
<1> HIDE DEF a, b, c, d
<1>6. Coded(<<a, b, c, d>>, <<<<a.name, a.code>>, <<b.name, b.code>>,
                             <<c.name, c.code>>, <<d.name, d.code>>>>)
  BY <1>2, <1>3, <1>4, <1>5, CodedFour
<1>7. OpeningSyntax(sps.log2_frame_num)
        = <<<<a.name, a.code>>, <<b.name, b.code>>,
            <<c.name, c.code>>, <<d.name, d.code>>>>
  BY <1>2, <1>3, <1>4, <1>5 DEF OpeningSyntax
<1>8. Opening(type, pic, sps) = <<a, b, c, d>>
  BY DEF Opening, a, b, c, d
<1> QED
  BY <1>6, <1>7, <1>8

(* What follows the order count, element by element and in the syntax.     *)
LEMMA ClosingCoded ==
  Coded(<<Element("slice_qp_delta", SE, 0),
          Element("disable_deblocking_filter_idc", UE, 0),
          Element("slice_alpha_c0_offset_div2", SE, 0),
          Element("slice_beta_offset_div2", SE, 0)>>,
        <<<<"slice_qp_delta", SE>>, <<"disable_deblocking_filter_idc", UE>>,
          <<"slice_alpha_c0_offset_div2", SE>>,
          <<"slice_beta_offset_div2", SE>>>>)
<1> DEFINE a == Element("slice_qp_delta", SE, 0)
           b == Element("disable_deblocking_filter_idc", UE, 0)
           c == Element("slice_alpha_c0_offset_div2", SE, 0)
           d == Element("slice_beta_offset_div2", SE, 0)
<1>1. /\ "slice_qp_delta" \in Names /\ "disable_deblocking_filter_idc" \in Names
      /\ "slice_alpha_c0_offset_div2" \in Names
      /\ "slice_beta_offset_div2" \in Names /\ 0 \in Int
  BY DEF Names
<1>2. a \in Items /\ Fits(a) /\ a.name = "slice_qp_delta" /\ a.code = SE
  BY <1>1, FreeItem
<1>3. /\ b \in Items /\ Fits(b) /\ b.name = "disable_deblocking_filter_idc"
      /\ b.code = UE
  BY <1>1, FreeItem
<1>4. /\ c \in Items /\ Fits(c) /\ c.name = "slice_alpha_c0_offset_div2"
      /\ c.code = SE
  BY <1>1, FreeItem
<1>5. /\ d \in Items /\ Fits(d) /\ d.name = "slice_beta_offset_div2"
      /\ d.code = SE
  BY <1>1, FreeItem
<1> HIDE DEF a, b, c, d
<1>6. Coded(<<a, b, c, d>>, <<<<a.name, a.code>>, <<b.name, b.code>>,
                             <<c.name, c.code>>, <<d.name, d.code>>>>)
  BY <1>2, <1>3, <1>4, <1>5, CodedFour
<1>7. Coded(<<a, b, c, d>>,
        <<<<"slice_qp_delta", SE>>, <<"disable_deblocking_filter_idc", UE>>,
          <<"slice_alpha_c0_offset_div2", SE>>,
          <<"slice_beta_offset_div2", SE>>>>)
  BY <1>2, <1>3, <1>4, <1>5, <1>6
<1> QED
  BY <1>7 DEF a, b, c, d

LEMMA FlagCoded ==
  ASSUME NEW name \in Names, NEW val \in {0, 1}
  PROVE  Coded(<<Flag(name, val)>>, <<<<name, U(1)>>>>)
<1> DEFINE e == Flag(name, val)
<1>1. e \in Items /\ Fits(e) /\ e.name = name /\ e.code = U(1)
  BY FlagIsItem
<1> HIDE DEF e
<1>2. Coded(<<e>>, <<<<e.name, e.code>>>>)
  BY <1>1, CodedOne
<1> QED
  BY <1>1, <1>2 DEF e

LEMMA FlagsCoded ==
  ASSUME NEW m \in Names, NEW n \in Names
  PROVE  Coded(<<Flag(m, 0), Flag(n, 0)>>, <<<<m, U(1)>>, <<n, U(1)>>>>)
<1> DEFINE e == Flag(m, 0)
           f == Flag(n, 0)
<1>1. /\ e \in Items /\ Fits(e) /\ e.name = m /\ e.code = U(1)
      /\ f \in Items /\ Fits(f) /\ f.name = n /\ f.code = U(1)
  BY FlagIsItem
<1> HIDE DEF e, f
<1>2. Coded(<<e, f>>, <<<<e.name, e.code>>, <<f.name, f.code>>>>)
  BY <1>1, CodedTwo
<1> QED
  BY <1>1, <1>2 DEF e, f

LEMMA FourJoined ==
  ASSUME NEW S, NEW a \in S, NEW b \in S, NEW c \in S, NEW d \in S
  PROVE  <<a>> \o <<b, c, d>> = <<a, b, c, d>>
<1> DEFINE s == <<a>>
           t == <<b, c, d>>
           u == <<a, b, c, d>>
<1>1. s \in Seq(S) /\ t \in Seq(S) /\ u \in Seq(S)
  OBVIOUS
<1>2. /\ Len(s) = 1 /\ Len(t) = 3 /\ Len(u) = 4
      /\ s[1] = a /\ t[1] = b /\ t[2] = c /\ t[3] = d
      /\ u[1] = a /\ u[2] = b /\ u[3] = c /\ u[4] = d
  OBVIOUS
<1> HIDE DEF s, t, u
<1>3. /\ s \o t \in Seq(S) /\ Len(s \o t) = Len(s) + Len(t)
      /\ \A i \in 1..Len(s) : (s \o t)[i] = s[i]
      /\ \A i \in 1..Len(t) : (s \o t)[Len(s) + i] = t[i]
  BY <1>1, JoinedSeqs
<1> DEFINE v == s \o t
<1>4. /\ v \in Seq(S) /\ Len(v) = 4
      /\ v[1] = s[1] /\ v[1 + 1] = t[1] /\ v[1 + 2] = t[2] /\ v[1 + 3] = t[3]
  BY <1>2, <1>3
<1>5. v[1] = u[1] /\ v[2] = u[2] /\ v[3] = u[3] /\ v[4] = u[4]
  BY <1>2, <1>4
<1>6. v = [i \in 1..4 |-> v[i]] /\ u = [i \in 1..4 |-> u[i]]
  BY <1>1, <1>2, <1>4, SeqByPlace
<1>7. \A i \in 1..4 : v[i] = u[i]
  <2>1. 1..4 = {1, 2, 3, 4}
    OBVIOUS
  <2> QED
    BY <1>5, <2>1
<1> HIDE DEF v
<1>8. v = u
  BY <1>6, <1>7
<1> QED
  BY <1>8 DEF v, s, t, u

LEMMA CodedInTwo ==
  ASSUME NEW s, NEW t, NEW x, NEW y, NEW z, Coded(s, x), Coded(t, y \o z),
         y \in Seq(Names \X Codings), z \in Seq(Names \X Codings)
  PROVE  Coded(s \o t, (x \o y) \o z)
<1>1. x \in Seq(Names \X Codings)
  <2>1. s \in Seq(Items) /\ x = Fields(s)
    BY DEF Coded
  <2>2. \A k \in 1..Len(s) : s[k] \in Items
    BY <2>1
  <2>3. \A k \in 1..Len(s) : <<s[k].name, s[k].code>> \in Names \X Codings
    BY <2>2 DEF Items
  <2> QED
    BY <2>1, <2>3 DEF Fields
<1>2. (x \o y) \o z = x \o (y \o z)
  BY <1>1, ConcatAssociative, SMTT(30)
<1> QED
  BY <1>2, JoinedCoded

(* A decoder reads in s what it reads in its beginning r. *)
ReadsAs(s, r) ==
  /\ s \in Seq(Items) /\ NamesOf(r) \subseteq NamesOf(s)
  /\ \A name \in NamesOf(r) : Dictionary(s)[name] = Dictionary(r)[name]

LEMMA ReadsOn ==
  ASSUME NEW s, NEW r, NEW t \in Seq(Items), ReadsAs(s, r)
  PROVE  ReadsAs(s \o t, r)
<1>1. s \in Seq(Items) /\ NamesOf(r) \subseteq NamesOf(s)
  BY DEF ReadsAs
<1>2. s \o t \in Seq(Items)
  BY <1>1, JoinedItems
<1>3. NamesOf(s) \subseteq NamesOf(s \o t)
  BY <1>1, JoinedNames
<1>4. ASSUME NEW name \in NamesOf(r)
      PROVE  Dictionary(s \o t)[name] = Dictionary(r)[name]
  <2>1. name \in NamesOf(s) /\ Dictionary(s)[name] = Dictionary(r)[name]
    BY DEF ReadsAs
  <2> QED
    BY <1>1, <2>1, ReadBefore
<1> QED
  BY <1>1, <1>2, <1>3, <1>4 DEF ReadsAs

Beginning(type, pic, sps) ==
  (Opening(type, pic, sps)
     \o When(type = "IDR", <<Element("idr_pic_id", UE, pic.idr_pic_id)>>))
  \o <<Element("pic_order_cnt_lsb", U(sps.log2_poc_lsb), pic.poc)>>

LEMMA SliceCoded ==
  ASSUME NEW type \in Types, NEW pic, NEW sps, NEW d, NEW pps,
         sps.log2_frame_num \in Int, sps.log2_poc_lsb \in Int,
         pic.frame_num \in Int, pic.frame_num \in 0..2^sps.log2_frame_num - 1,
         pic.poc \in Int, pic.poc \in 0..2^sps.log2_poc_lsb - 1,
         pic.idr_pic_id \in Int,
         d["log2_max_frame_num_minus4"] + 4 = sps.log2_frame_num,
         d["log2_max_pic_order_cnt_lsb_minus4"] + 4 = sps.log2_poc_lsb,
         pps["entropy_coding_mode_flag"] = 1,
         pps["deblocking_filter_control_present_flag"] = 1
  PROVE  /\ Coded(slice_header(type, pic, sps, 1),
                  SliceSyntax(nal_header(type), slice_type(type), d, pps))
         /\ ReadsAs(slice_header(type, pic, sps, 1),
                    Beginning(type, pic, sps))
         /\ Opening(type, pic, sps) \in Seq(Items)
<1> DEFINE n == slice_type(type)
           inter == n \in {0, 1}
           idr == nal_header(type).nal_unit_type = 5
           ref == nal_header(type).nal_ref_idc # 0
<1>1. /\ (type = "IDR") = idr /\ (type = "B") = (n = 1)
      /\ (type \in {"P", "B"}) = inter
      /\ (1 = 1 /\ n # 2) = (pps["entropy_coding_mode_flag"] = 1 /\ inter)
      /\ ref = (type # "B")
  BY DEF Types, slice_type, nal_header
<1> DEFINE A == Opening(type, pic, sps)
           B == <<Element("idr_pic_id", UE, pic.idr_pic_id)>>
           C == <<Element("pic_order_cnt_lsb", U(sps.log2_poc_lsb), pic.poc)>>
           D == <<Flag("direct_spatial_mv_pred_flag", 1)>>
           E == <<Flag("num_ref_idx_active_override_flag", 0),
                  Flag("ref_pic_list_reordering_flag_l0", 0)>>
           F == <<Flag("ref_pic_list_reordering_flag_l1", 0)>>
           G == <<Flag("no_output_of_prior_pics_flag", 0),
                  Flag("long_term_reference_flag", 0)>>
           H == <<Flag("adaptive_ref_pic_marking_mode_flag", 0)>>
           I == <<Element("cabac_init_idc", UE, 0)>>
           J == <<Element("slice_qp_delta", SE, 0),
                  Element("disable_deblocking_filter_idc", UE, 0),
                  Element("slice_alpha_c0_offset_div2", SE, 0),
                  Element("slice_beta_offset_div2", SE, 0)>>
           a == OpeningSyntax(sps.log2_frame_num)
           b == <<<<"idr_pic_id", UE>>>>
           c == <<<<"pic_order_cnt_lsb", U(sps.log2_poc_lsb)>>>>
           dd == <<<<"direct_spatial_mv_pred_flag", U(1)>>>>
           e == <<<<"num_ref_idx_active_override_flag", U(1)>>,
                  <<"ref_pic_list_reordering_flag_l0", U(1)>>>>
           f == <<<<"ref_pic_list_reordering_flag_l1", U(1)>>>>
           g == <<<<"no_output_of_prior_pics_flag", U(1)>>,
                  <<"long_term_reference_flag", U(1)>>>>
           h == <<<<"adaptive_ref_pic_marking_mode_flag", U(1)>>>>
           ii == <<<<"cabac_init_idc", UE>>>>
           j1 == <<<<"slice_qp_delta", SE>>>>
           j3 == <<<<"disable_deblocking_filter_idc", UE>>,
                   <<"slice_alpha_c0_offset_div2", SE>>,
                   <<"slice_beta_offset_div2", SE>>>>
<1>2. Coded(A, a)
  BY OpeningCoded
<1>3. Coded(B, b)
  <2> DEFINE x == Element("idr_pic_id", UE, pic.idr_pic_id)
  <2>0. "idr_pic_id" \in Names /\ UE \in {UE, SE} /\ pic.idr_pic_id \in Int
    BY DEF Names
  <2>1. x \in Items /\ Fits(x) /\ x.name = "idr_pic_id" /\ x.code = UE
    BY <2>0, FreeItem
  <2> HIDE DEF x
  <2>2. Coded(<<x>>, <<<<x.name, x.code>>>>)
    BY <2>1, CodedOne
  <2> QED
    BY <2>1, <2>2 DEF x
<1>4. Coded(C, c)
  <2> DEFINE x == Element("pic_order_cnt_lsb", U(sps.log2_poc_lsb), pic.poc)
  <2>1. /\ x \in Items /\ Fits(x) /\ x.name = "pic_order_cnt_lsb"
        /\ x.code = U(sps.log2_poc_lsb)
    BY WideItem, SMTT(30) DEF Names
  <2> HIDE DEF x
  <2>2. Coded(<<x>>, <<<<x.name, x.code>>>>)
    BY <2>1, CodedOne
  <2> QED
    BY <2>1, <2>2 DEF x
<1>5. Coded(D, dd) /\ Coded(F, f) /\ Coded(H, h)
  BY FlagCoded DEF Names
<1>6. Coded(E, e) /\ Coded(G, g)
  BY FlagsCoded DEF Names
<1>7. Coded(I, ii)
  <2> DEFINE x == Element("cabac_init_idc", UE, 0)
  <2>0. "cabac_init_idc" \in Names /\ UE \in {UE, SE} /\ 0 \in Int
    BY DEF Names
  <2>1. x \in Items /\ Fits(x) /\ x.name = "cabac_init_idc" /\ x.code = UE
    BY <2>0, FreeItem
  <2> HIDE DEF x
  <2>2. Coded(<<x>>, <<<<x.name, x.code>>>>)
    BY <2>1, CodedOne
  <2> QED
    BY <2>1, <2>2 DEF x
<1>8. Coded(J, j1 \o j3) /\ j1 \in Seq(Names \X Codings)
      /\ j3 \in Seq(Names \X Codings)
  <2> DEFINE w == <<"slice_qp_delta", SE>>
             x == <<"disable_deblocking_filter_idc", UE>>
             y == <<"slice_alpha_c0_offset_div2", SE>>
             z == <<"slice_beta_offset_div2", SE>>
             T == Names \X Codings
  <2>1. w \in T /\ x \in T /\ y \in T /\ z \in T
    BY Codes DEF Names
  <2> HIDE DEF w, x, y, z, T
  <2>2. <<w>> \o <<x, y, z>> = <<w, x, y, z>>
    BY <2>1, FourJoined
  <2>3. Coded(J, <<w, x, y, z>>)
    BY ClosingCoded DEF w, x, y, z
  <2>4. <<w>> \in Seq(T) /\ <<x, y, z>> \in Seq(T)
    BY <2>1
  <2> QED
    BY <2>2, <2>3, <2>4 DEF w, x, y, z, T
<1> DEFINE X1 == A \o When(type = "IDR", B)
           X2 == X1 \o C
           X3 == X2 \o When(type = "B", D)
           X4 == X3 \o When(type \in {"P", "B"}, E)
           X5 == X4 \o When(type = "B", F)
           X6 == X5 \o When(type = "IDR", G)
           X7 == X6 \o When(type \in {"I", "P"}, H)
           X8 == X7 \o When(1 = 1 /\ n # 2, I)
           X9 == X8 \o J
           x1 == a \o When(idr, b)
           x2 == x1 \o c
           x3 == x2 \o When(n = 1, dd)
           x4 == x3 \o When(inter, e)
           x5 == x4 \o When(n = 1, f)
           x7 == x5 \o When(ref, IF idr THEN g ELSE h)
           x8 == x7 \o When(pps["entropy_coding_mode_flag"] = 1 /\ inter, ii)
           x9 == (x8 \o j1)
                   \o When(pps["deblocking_filter_control_present_flag"] = 1, j3)
<1>9. X9 = slice_header(type, pic, sps, 1)
  BY DEF slice_header, Opening
<1>10. x9 = SliceSyntax(nal_header(type), n, d, pps)
  BY DEF SliceSyntax, OpeningSyntax
<1>21. X2 = Beginning(type, pic, sps)
  BY DEF Beginning
<1> HIDE DEF A, B, C, D, E, F, G, H, I, J, a, b, c, dd, e, f, g, h, ii, j1, j3,
             idr, inter, ref, n
<1>11. Coded(X1, x1)
  BY <1>1, <1>2, <1>3, WhenCoded, JoinedCoded
<1> HIDE DEF X1, x1
<1>12. Coded(X2, x2)
  BY <1>4, <1>11, JoinedCoded
<1> HIDE DEF X2, x2
<1>13. Coded(X3, x3)
  <2>1. Coded(When(type = "B", D), When(n = 1, dd))
    BY <1>1, <1>5, WhenCoded
  <2> QED
    BY <1>12, <2>1, JoinedCoded
<1> HIDE DEF X3, x3
<1>14. Coded(X4, x4)
  <2> DEFINE p == type \in {"P", "B"}
  <2>1. p \in BOOLEAN /\ inter \in BOOLEAN /\ p = inter
    BY <1>1 DEF inter
  <2> HIDE DEF p
  <2>2. Coded(When(p, E), When(inter, e))
    BY <1>6, <2>1, WhenCoded
  <2> QED
    BY <1>13, <2>2, JoinedCoded DEF p
<1> HIDE DEF X4, x4
<1>15. Coded(X5, x5)
  <2>1. Coded(When(type = "B", F), When(n = 1, f))
    BY <1>1, <1>5, WhenCoded
  <2> QED
    BY <1>14, <2>1, JoinedCoded
<1> HIDE DEF X5, x5
<1>16. Coded(X7, x7)
  <2>1. X5 \in Seq(Items) /\ G \in Seq(Items) /\ H \in Seq(Items)
    BY <1>5, <1>6, <1>15 DEF Coded
  <2>2. CASE type = "IDR"
    <3>1. /\ When(type = "IDR", G) = G /\ When(type \in {"I", "P"}, H) = <<>>
          /\ When(ref, IF idr THEN g ELSE h) = g
      BY <1>1, <2>2 DEF When
    <3>2. Coded(X5 \o G, x5 \o g)
      BY <1>6, <1>15, JoinedCoded
    <3>3. X5 \o G \in Seq(Items)
      BY <3>2 DEF Coded
    <3>4. (X5 \o G) \o <<>> = X5 \o G
      BY <3>3, ConcatEmptySeq
    <3> QED
      BY <3>1, <3>2, <3>4
  <2>3. CASE type \in {"I", "P"}
    <3>1. /\ When(type = "IDR", G) = <<>> /\ When(type \in {"I", "P"}, H) = H
          /\ When(ref, IF idr THEN g ELSE h) = h
      BY <1>1, <2>3 DEF When
    <3>2. Coded(X5 \o H, x5 \o h)
      BY <1>5, <1>15, JoinedCoded
    <3>3. X5 \o <<>> = X5
      BY <2>1, ConcatEmptySeq
    <3> QED
      BY <3>1, <3>2, <3>3
  <2>4. CASE type = "B"
    <3>1. /\ When(type = "IDR", G) = <<>> /\ When(type \in {"I", "P"}, H) = <<>>
          /\ When(ref, IF idr THEN g ELSE h) = <<>>
      BY <1>1, <2>4 DEF When
    <3>2. Coded(<<>>, <<>>)
      BY DEF Coded, Fields
    <3>3. Coded(X5 \o <<>>, x5 \o <<>>)
      BY <1>15, <3>2, JoinedCoded
    <3>4. X5 \o <<>> = X5
      BY <2>1, ConcatEmptySeq
    <3> QED
      BY <3>1, <3>3, <3>4
  <2> QED
    BY <2>2, <2>3, <2>4 DEF Types
<1> HIDE DEF X6, X7, x7
<1>17. Coded(X8, x8)
  <2>1. Coded(When(1 = 1 /\ n # 2, I),
              When(pps["entropy_coding_mode_flag"] = 1 /\ inter, ii))
    BY <1>1, <1>7, WhenCoded DEF inter
  <2> QED
    BY <1>16, <2>1, JoinedCoded
<1> HIDE DEF X8
<1>18. Coded(X9, (x8 \o j1) \o j3)
  BY <1>8, <1>17, CodedInTwo
<1>19. When(pps["deblocking_filter_control_present_flag"] = 1, j3) = j3
  BY DEF When
<1>20. ReadsAs(X9, X2)
  <2>1. /\ A \in Seq(Items) /\ D \in Seq(Items) /\ E \in Seq(Items)
        /\ F \in Seq(Items) /\ G \in Seq(Items) /\ H \in Seq(Items)
        /\ I \in Seq(Items) /\ J \in Seq(Items) /\ X2 \in Seq(Items)
    BY <1>2, <1>5, <1>6, <1>7, <1>8, <1>12 DEF Coded
  <2>2. /\ When(type = "B", D) \in Seq(Items)
        /\ When(type \in {"P", "B"}, E) \in Seq(Items)
        /\ When(type = "B", F) \in Seq(Items)
        /\ When(type = "IDR", G) \in Seq(Items)
        /\ When(type \in {"I", "P"}, H) \in Seq(Items)
        /\ When(1 = 1 /\ n # 2, I) \in Seq(Items)
    BY <2>1 DEF When
  <2>3. ReadsAs(X2, X2)
    BY <2>1 DEF ReadsAs
  <2>4. ReadsAs(X3, X2)
    BY <2>2, <2>3, ReadsOn DEF X3
  <2>5. ReadsAs(X4, X2)
    BY <2>2, <2>4, ReadsOn DEF X4
  <2>6. ReadsAs(X5, X2)
    BY <2>2, <2>5, ReadsOn DEF X5
  <2>7. ReadsAs(X6, X2)
    BY <2>2, <2>6, ReadsOn DEF X6
  <2>8. ReadsAs(X7, X2)
    BY <2>2, <2>7, ReadsOn DEF X7
  <2>9. ReadsAs(X8, X2)
    BY <2>2, <2>8, ReadsOn DEF X8
  <2> QED
    BY <2>1, <2>9, ReadsOn
<1>22. A \in Seq(Items)
  BY <1>2 DEF Coded
<1> QED
  BY <1>9, <1>10, <1>18, <1>19, <1>20, <1>21, <1>22 DEF n, A

LEMMA SliceRead ==
  ASSUME NEW type \in Types, NEW pic, NEW sps, NEW s,
         pic.idr_pic_id \in Int, pic.poc \in Int, sps.log2_poc_lsb \in Int,
         Opening(type, pic, sps) \in Seq(Items),
         ReadsAs(s, Beginning(type, pic, sps))
  PROVE  /\ Dictionary(s)["slice_type"] = slice_type(type)
         /\ Dictionary(s)["frame_num"] = pic.frame_num
         /\ Dictionary(s)["pic_order_cnt_lsb"] = pic.poc
         /\ type = "IDR" => Dictionary(s)["idr_pic_id"] = pic.idr_pic_id
<1> DEFINE A == Opening(type, pic, sps)
           B == <<Element("idr_pic_id", UE, pic.idr_pic_id)>>
           C == <<Element("pic_order_cnt_lsb", U(sps.log2_poc_lsb), pic.poc)>>
           W == When(type = "IDR", B)
<1>1. B \in Seq(Items) /\ C \in Seq(Items) /\ W \in Seq(Items)
  <2>1. /\ "idr_pic_id" \in Names /\ "pic_order_cnt_lsb" \in Names
        /\ UE \in Codings /\ U(sps.log2_poc_lsb) \in Codings
    BY Codes DEF Names
  <2>2. /\ Element("idr_pic_id", UE, pic.idr_pic_id) \in Items
        /\ Element("pic_order_cnt_lsb", U(sps.log2_poc_lsb), pic.poc) \in Items
    BY <2>1, ElementIsItem
  <2> QED
    BY <2>2 DEF When
<1>2. /\ Len(A) = 4
      /\ A[1].name = "first_mb_in_slice"
      /\ A[2].name = "slice_type" /\ A[2].val = slice_type(type)
      /\ A[3].name = "pic_parameter_set_id"
      /\ A[4].name = "frame_num" /\ A[4].val = pic.frame_num
  BY DEF Opening, Element
<1>3. /\ Len(B) = 1 /\ B[1].name = "idr_pic_id" /\ B[1].val = pic.idr_pic_id
      /\ Len(C) = 1 /\ C[1].name = "pic_order_cnt_lsb" /\ C[1].val = pic.poc
  BY DEF Element
<1>4. NamesOf(W) \subseteq NamesOf(B)
  BY <1>1, NamesOfWhen
<1>5. type = "IDR" => W = B
  BY DEF When
<1>6. A \in Seq(Items)
  OBVIOUS
<1>7. Beginning(type, pic, sps) = (A \o W) \o C
  BY DEF Beginning
<1> HIDE DEF A, B, C, W
<1>8. NamesOf(B) = {"idr_pic_id"} /\ NamesOf(C) = {"pic_order_cnt_lsb"}
  BY <1>3 DEF NamesOf
<1>9. /\ "slice_type" \in NamesOf(A) /\ "frame_num" \in NamesOf(A)
      /\ "idr_pic_id" \notin NamesOf(A)
      /\ "pic_order_cnt_lsb" \notin NamesOf(A)
  <2>1. NamesOf(A) = {A[1].name, A[2].name, A[3].name, A[4].name}
    <3>1. 1..4 = {1, 2, 3, 4}
      OBVIOUS
    <3> QED
      BY <1>2, <3>1 DEF NamesOf
  <2> QED
    BY <1>2, <2>1
<1>10. /\ Dictionary(A)["slice_type"] = slice_type(type)
       /\ Dictionary(A)["frame_num"] = pic.frame_num
  <2>1. 1..2 - 1 = {1} /\ 1..4 - 1 = {1, 2, 3}
    OBVIOUS
  <2>2. /\ \A j \in 1..2 - 1 : A[j].name # A[2].name
        /\ \A j \in 1..4 - 1 : A[j].name # A[4].name
    BY <1>2, <2>1
  <2>3. Len(A) \in Nat /\ 2 \in 1..Len(A) /\ 4 \in 1..Len(A)
    BY <1>2
  <2>4. /\ Dictionary(A)[A[2].name] = A[2].val
        /\ Dictionary(A)[A[4].name] = A[4].val
    BY <2>2, <2>3, ReadByName
  <2> QED
    BY <1>2, <2>4
<1>11. /\ Dictionary(B)["idr_pic_id"] = pic.idr_pic_id
       /\ Dictionary(C)["pic_order_cnt_lsb"] = pic.poc
  <2>1. Len(B) \in Nat /\ 1 \in 1..Len(B) /\ \A j \in 1..1 - 1 : FALSE
    BY <1>3
  <2>2. Len(C) \in Nat /\ 1 \in 1..Len(C)
    BY <1>3
  <2>3. /\ Dictionary(B)[B[1].name] = B[1].val
        /\ Dictionary(C)[C[1].name] = C[1].val
    BY <2>1, <2>2, ReadByName
  <2> QED
    BY <1>3, <2>3
<1> DEFINE AW == A \o W
<1>12. AW \in Seq(Items) /\ NamesOf(AW) = NamesOf(A) \cup NamesOf(W)
  BY <1>1, <1>6, JoinedItems, JoinedNames
<1>13. /\ Dictionary(AW)["slice_type"] = slice_type(type)
       /\ Dictionary(AW)["frame_num"] = pic.frame_num
  BY <1>1, <1>6, <1>9, <1>10, ReadBefore
<1>14. /\ type = "IDR" => Dictionary(AW)["idr_pic_id"] = pic.idr_pic_id
  BY <1>1, <1>5, <1>6, <1>8, <1>9, <1>11, ReadAfter
<1> HIDE DEF AW
<1> DEFINE R == AW \o C
<1>15. NamesOf(R) = NamesOf(AW) \cup NamesOf(C)
  BY <1>1, <1>12, JoinedNames
<1>16. /\ Dictionary(R)["slice_type"] = slice_type(type)
       /\ Dictionary(R)["frame_num"] = pic.frame_num
  BY <1>1, <1>9, <1>12, <1>13, ReadBefore
<1>17. type = "IDR" => /\ "idr_pic_id" \in NamesOf(R)
                       /\ Dictionary(R)["idr_pic_id"] = pic.idr_pic_id
  BY <1>1, <1>5, <1>8, <1>12, <1>14, <1>15, ReadBefore
<1>18. "pic_order_cnt_lsb" \notin NamesOf(AW)
  BY <1>4, <1>8, <1>9, <1>12
<1>19. Dictionary(R)["pic_order_cnt_lsb"] = pic.poc
  BY <1>1, <1>8, <1>11, <1>12, <1>18, ReadAfter
<1>20. Beginning(type, pic, sps) = R
  BY <1>7 DEF AW
<1> HIDE DEF R
<1> QED
  BY <1>8, <1>9, <1>12, <1>15, <1>16, <1>17, <1>19, <1>20 DEF ReadsAs

-----------------------------------------------------------------------------
(* What a decoder reads in the parameter sets.                             *)
SpsHead(sps) ==
  ((<<Element("profile_idc", U(8), sps.profile_idc)>>
      \o [i \in 1..4 |-> Flag("constraint_set_flag",
                             IF i - 1 \in sps.constraint_set_flag THEN 1 ELSE 0)])
     \o <<Element("reserved_zero_4bits", U(4), 0),
          Element("level_idc", U(8), 41),
          Element("seq_parameter_set_id", UE, 0)>>)
  \o When(sps.profile_idc = 100,
          <<Element("chroma_format_idc", UE, 1),
            Element("bit_depth_luma_minus8", UE, 0),
            Element("bit_depth_chroma_minus8", UE, 0),
            Flag("qpprime_y_zero_transform_bypass_flag", 0),
            Flag("seq_scaling_matrix_present_flag", 0)>>)
SpsBody(sps) ==
  <<Element("log2_max_frame_num_minus4", UE, sps.log2_frame_num - 4),
    Element("pic_order_cnt_type", UE, 0),
    Element("log2_max_pic_order_cnt_lsb_minus4", UE, sps.log2_poc_lsb - 4),
    Element("num_ref_frames", UE, sps.num_ref_frames),
    Flag("gaps_in_frame_num_value_allowed_flag", 0),
    Element("pic_width_in_mbs_minus1", UE, sps.width_in_mbs - 1),
    Element("pic_height_in_map_units_minus1", UE, sps.height_in_mbs - 1),
    Flag("frame_mbs_only_flag", 1), Flag("direct_8x8_inference_flag", 1),
    Flag("frame_cropping_flag", IF sps.cropping THEN 1 ELSE 0)>>
SpsCrop(sps) ==
  <<Element("frame_crop_left_offset", UE, 0),
    Element("frame_crop_right_offset", UE, sps.crop_right),
    Element("frame_crop_top_offset", UE, 0),
    Element("frame_crop_bottom_offset", UE, sps.crop_bottom)>>
SpsNames == {"log2_max_frame_num_minus4", "log2_max_pic_order_cnt_lsb_minus4",
             "num_ref_frames", "pic_width_in_mbs_minus1",
             "frame_cropping_flag", "frame_crop_left_offset",
             "frame_crop_right_offset"}

LEMMA HeadNames ==
  ASSUME NEW sps, sps.profile_idc = 100
  PROVE  SpsHead(sps) \in Seq(Items) /\ NamesOf(SpsHead(sps)) \cap SpsNames = {}
<1> DEFINE A == <<Element("profile_idc", U(8), sps.profile_idc)>>
           B == [i \in 1..4 |-> Flag("constraint_set_flag",
                             IF i - 1 \in sps.constraint_set_flag THEN 1 ELSE 0)]
           C == <<Element("reserved_zero_4bits", U(4), 0),
                  Element("level_idc", U(8), 41),
                  Element("seq_parameter_set_id", UE, 0)>>
           D == <<Element("chroma_format_idc", UE, 1),
                  Element("bit_depth_luma_minus8", UE, 0),
                  Element("bit_depth_chroma_minus8", UE, 0),
                  Flag("qpprime_y_zero_transform_bypass_flag", 0),
                  Flag("seq_scaling_matrix_present_flag", 0)>>
           W == When(sps.profile_idc = 100, D)
<1>1. U(8) \in Codings /\ U(4) \in Codings /\ UE \in Codings
  BY Codes
<1>2. A \in Seq(Items) /\ NamesOf(A) = {"profile_idc"}
  <2>1. /\ Element("profile_idc", U(8), sps.profile_idc) \in Items
        /\ Element("profile_idc", U(8), sps.profile_idc).name = "profile_idc"
    <3>1. "profile_idc" \in Names /\ sps.profile_idc \in Int
      BY DEF Names
    <3> QED
      BY <1>1, <3>1, ElementIsItem DEF Element
  <2> QED
    BY <2>1 DEF NamesOf
<1>3. B \in Seq(Items) /\ NamesOf(B) = {"constraint_set_flag"}
  <2>1. ASSUME NEW i \in 1..4
        PROVE  B[i] \in Items /\ B[i].name = "constraint_set_flag"
    <3>1. "constraint_set_flag" \in Names
      BY DEF Names
    <3>2. (IF i - 1 \in sps.constraint_set_flag THEN 1 ELSE 0) \in {0, 1}
      OBVIOUS
    <3> QED
      BY <3>1, <3>2, FlagIsItem
  <2>2. B = [i \in 1..4 |-> B[i]]
    OBVIOUS
  <2> HIDE DEF B
  <2>3. [i \in 1..4 |-> B[i]] \in Seq(Items)
    BY <2>1
  <2>4. B \in Seq(Items) /\ Len(B) = 4
    <3>1. Len([i \in 1..4 |-> B[i]]) = 4
      OBVIOUS
    <3> QED
      BY <2>2, <2>3, <3>1
  <2>5. 1 \in 1..4
    OBVIOUS
  <2> QED
    BY <2>1, <2>4, <2>5 DEF NamesOf
<1>4. /\ C \in Seq(Items)
      /\ NamesOf(C) = {"reserved_zero_4bits", "level_idc",
                       "seq_parameter_set_id"}
  <2> DEFINE x == Element("reserved_zero_4bits", U(4), 0)
             y == Element("level_idc", U(8), 41)
             z == Element("seq_parameter_set_id", UE, 0)
  <2>1. x \in Items /\ y \in Items /\ z \in Items
    <3>1. /\ "reserved_zero_4bits" \in Names /\ "level_idc" \in Names
          /\ "seq_parameter_set_id" \in Names
      BY DEF Names
    <3> QED
      BY <1>1, <3>1, ElementIsItem
  <2>2. /\ x.name = "reserved_zero_4bits" /\ y.name = "level_idc"
        /\ z.name = "seq_parameter_set_id"
    BY DEF Element
  <2> HIDE DEF x, y, z
  <2>3. <<x, y, z>> \in Seq(Items)
    BY <2>1
  <2>4. NamesOf(<<x, y, z>>) = {x.name, y.name, z.name}
    <3>1. 1..3 = {1, 2, 3}
      OBVIOUS
    <3> QED
      BY <3>1 DEF NamesOf
  <2> QED
    BY <2>2, <2>3, <2>4 DEF x, y, z
<1>5. D \in Seq(Items) /\ NamesOf(D) \cap SpsNames = {}
  <2> DEFINE v == Element("chroma_format_idc", UE, 1)
             w == Element("bit_depth_luma_minus8", UE, 0)
             x == Element("bit_depth_chroma_minus8", UE, 0)
             y == Flag("qpprime_y_zero_transform_bypass_flag", 0)
             z == Flag("seq_scaling_matrix_present_flag", 0)
  <2>1. v \in Items /\ w \in Items /\ x \in Items /\ y \in Items /\ z \in Items
    <3>1. /\ "chroma_format_idc" \in Names /\ "bit_depth_luma_minus8" \in Names
          /\ "bit_depth_chroma_minus8" \in Names
          /\ "qpprime_y_zero_transform_bypass_flag" \in Names
          /\ "seq_scaling_matrix_present_flag" \in Names
      BY DEF Names
    <3> QED
      BY <1>1, <3>1, ElementIsItem, FlagIsItem
  <2>2. /\ v.name = "chroma_format_idc" /\ w.name = "bit_depth_luma_minus8"
        /\ x.name = "bit_depth_chroma_minus8"
        /\ y.name = "qpprime_y_zero_transform_bypass_flag"
        /\ z.name = "seq_scaling_matrix_present_flag"
    BY DEF Element, Flag
  <2> HIDE DEF v, w, x, y, z
  <2>3. <<v, w, x, y, z>> \in Seq(Items)
    BY <2>1
  <2>4. NamesOf(<<v, w, x, y, z>>) = {v.name, w.name, x.name, y.name, z.name}
    <3>1. 1..5 = {1, 2, 3, 4, 5}
      OBVIOUS
    <3> QED
      BY <3>1 DEF NamesOf
  <2>5. {v.name, w.name, x.name, y.name, z.name} \cap SpsNames = {}
    BY <2>2 DEF SpsNames
  <2> QED
    BY <2>3, <2>4, <2>5 DEF v, w, x, y, z
<1>6. W = D
  BY DEF When
<1>7. SpsHead(sps) = ((A \o B) \o C) \o W
  BY DEF SpsHead
<1> HIDE DEF A, B, C, D, W
<1>8. A \o B \in Seq(Items) /\ NamesOf(A \o B) = NamesOf(A) \cup NamesOf(B)
  BY <1>2, <1>3, JoinedItems, JoinedNames
<1> DEFINE AB == A \o B
<1> HIDE DEF AB
<1>9. /\ AB \o C \in Seq(Items)
      /\ NamesOf(AB \o C) = NamesOf(AB) \cup NamesOf(C)
  BY <1>4, <1>8, JoinedItems, JoinedNames DEF AB
<1> DEFINE ABC == AB \o C
<1> HIDE DEF ABC
<1>10. /\ ABC \o W \in Seq(Items)
       /\ NamesOf(ABC \o W) = NamesOf(ABC) \cup NamesOf(W)
  BY <1>5, <1>6, <1>9, JoinedItems, JoinedNames DEF ABC
<1>11. NamesOf(ABC) = {"profile_idc", "constraint_set_flag",
                       "reserved_zero_4bits", "level_idc",
                       "seq_parameter_set_id"}
  BY <1>2, <1>3, <1>4, <1>8, <1>9 DEF AB, ABC
<1>12. NamesOf(ABC) \cap SpsNames = {}
  BY <1>11 DEF SpsNames
<1>13. NamesOf(ABC \o W) \cap SpsNames = {}
  BY <1>5, <1>6, <1>10, <1>12
<1>14. SpsHead(sps) = ABC \o W
  BY <1>7 DEF AB, ABC
<1> QED
  BY <1>10, <1>13, <1>14

LEMMA BodyRead ==
  ASSUME NEW sps, sps.log2_frame_num \in Int, sps.log2_poc_lsb \in Int,
         sps.num_ref_frames \in Int, sps.width_in_mbs \in Int,
         sps.height_in_mbs \in Int
  PROVE  LET s == SpsBody(sps)
         IN  /\ s \in Seq(Items)
             /\ {"log2_max_frame_num_minus4", "num_ref_frames",
                 "log2_max_pic_order_cnt_lsb_minus4",
                 "pic_width_in_mbs_minus1", "frame_cropping_flag"}
                  \subseteq NamesOf(s)
             /\ "frame_crop_left_offset" \notin NamesOf(s)
             /\ "frame_crop_right_offset" \notin NamesOf(s)
             /\ Dictionary(s)["log2_max_frame_num_minus4"]
                  = sps.log2_frame_num - 4
             /\ Dictionary(s)["log2_max_pic_order_cnt_lsb_minus4"]
                  = sps.log2_poc_lsb - 4
             /\ Dictionary(s)["num_ref_frames"] = sps.num_ref_frames
             /\ Dictionary(s)["pic_width_in_mbs_minus1"] = sps.width_in_mbs - 1
             /\ Dictionary(s)["frame_cropping_flag"]
                  = IF sps.cropping THEN 1 ELSE 0
<1> DEFINE s == SpsBody(sps)
<1>1. /\ Len(s) = 10
      /\ s[1].name = "log2_max_frame_num_minus4"
      /\ s[2].name = "pic_order_cnt_type"
      /\ s[3].name = "log2_max_pic_order_cnt_lsb_minus4"
      /\ s[4].name = "num_ref_frames"
      /\ s[5].name = "gaps_in_frame_num_value_allowed_flag"
      /\ s[6].name = "pic_width_in_mbs_minus1"
      /\ s[7].name = "pic_height_in_map_units_minus1"
      /\ s[8].name = "frame_mbs_only_flag"
      /\ s[9].name = "direct_8x8_inference_flag"
      /\ s[10].name = "frame_cropping_flag"
  BY DEF SpsBody, Element, Flag
<1>2. /\ s[1].val = sps.log2_frame_num - 4 /\ s[3].val = sps.log2_poc_lsb - 4
      /\ s[4].val = sps.num_ref_frames /\ s[6].val = sps.width_in_mbs - 1
      /\ s[10].val = IF sps.cropping THEN 1 ELSE 0
  BY DEF SpsBody, Element, Flag
<1>3. s \in Seq(Items)
  <2> DEFINE a == Element("log2_max_frame_num_minus4", UE, sps.log2_frame_num - 4)
             b == Element("pic_order_cnt_type", UE, 0)
             c == Element("log2_max_pic_order_cnt_lsb_minus4", UE,
                          sps.log2_poc_lsb - 4)
             d == Element("num_ref_frames", UE, sps.num_ref_frames)
             e == Flag("gaps_in_frame_num_value_allowed_flag", 0)
             f == Element("pic_width_in_mbs_minus1", UE, sps.width_in_mbs - 1)
             g == Element("pic_height_in_map_units_minus1", UE,
                          sps.height_in_mbs - 1)
             h == Flag("frame_mbs_only_flag", 1)
             i == Flag("direct_8x8_inference_flag", 1)
             j == Flag("frame_cropping_flag", IF sps.cropping THEN 1 ELSE 0)
  <2>1. /\ "log2_max_frame_num_minus4" \in Names /\ "pic_order_cnt_type" \in Names
        /\ "log2_max_pic_order_cnt_lsb_minus4" \in Names
        /\ "num_ref_frames" \in Names
        /\ "gaps_in_frame_num_value_allowed_flag" \in Names
        /\ "pic_width_in_mbs_minus1" \in Names
        /\ "pic_height_in_map_units_minus1" \in Names
        /\ "frame_mbs_only_flag" \in Names
        /\ "direct_8x8_inference_flag" \in Names
        /\ "frame_cropping_flag" \in Names
    BY DEF Names
  <2>2. /\ UE \in Codings /\ sps.log2_frame_num - 4 \in Int
        /\ sps.log2_poc_lsb - 4 \in Int /\ sps.width_in_mbs - 1 \in Int
        /\ sps.height_in_mbs - 1 \in Int
        /\ (IF sps.cropping THEN 1 ELSE 0) \in {0, 1}
    BY Codes
  <2>3. a \in Items /\ b \in Items /\ c \in Items /\ d \in Items
    BY <2>1, <2>2, ElementIsItem
  <2>4. f \in Items /\ g \in Items
    BY <2>1, <2>2, ElementIsItem
  <2>5. e \in Items /\ h \in Items /\ i \in Items /\ j \in Items
    BY <2>1, <2>2, FlagIsItem
  <2>6. s = <<a, b, c, d, e, f, g, h, i, j>>
    BY DEF SpsBody
  <2> HIDE DEF s, a, b, c, d, e, f, g, h, i, j
  <2>7. <<a, b, c, d, e, f, g, h, i, j>> \in Seq(Items)
    BY <2>3, <2>4, <2>5
  <2> QED
    BY <2>6, <2>7
<1> HIDE DEF s
<1>4. 1..10 = {1, 2, 3, 4, 5, 6, 7, 8, 9, 10}
  OBVIOUS
<1>5. NamesOf(s) = {s[1].name, s[2].name, s[3].name, s[4].name, s[5].name,
                    s[6].name, s[7].name, s[8].name, s[9].name, s[10].name}
  BY <1>1, <1>4 DEF NamesOf
<1>6. /\ "frame_crop_left_offset" \notin NamesOf(s)
      /\ "frame_crop_right_offset" \notin NamesOf(s)
  BY <1>1, <1>5
<1>7. {s[1].name, s[3].name, s[4].name, s[6].name, s[10].name} \subseteq NamesOf(s)
  BY <1>5
<1>8. ASSUME NEW k \in 1..10, \A j \in 1..k - 1 : s[j].name # s[k].name
      PROVE  Dictionary(s)[s[k].name] = s[k].val
  <2>1. Len(s) \in Nat /\ k \in 1..Len(s)
    BY <1>1
  <2> QED
    BY <1>8, <2>1, ReadByName
<1>9. Dictionary(s)[s[1].name] = s[1].val
  BY <1>8
<1>10. Dictionary(s)[s[3].name] = s[3].val
  <2>1. \A j \in 1..3 - 1 : j \in {1, 2}
    OBVIOUS
  <2> QED
    BY <1>1, <1>8, <2>1
<1>11. Dictionary(s)[s[4].name] = s[4].val
  <2>1. \A j \in 1..4 - 1 : j \in {1, 2, 3}
    OBVIOUS
  <2> QED
    BY <1>1, <1>8, <2>1
<1>12. Dictionary(s)[s[6].name] = s[6].val
  <2>1. \A j \in 1..6 - 1 : j \in {1, 2, 3, 4, 5}
    OBVIOUS
  <2> QED
    BY <1>1, <1>8, <2>1
<1>13. Dictionary(s)[s[10].name] = s[10].val
  <2>1. \A j \in 1..10 - 1 : j \in {1, 2, 3, 4, 5, 6, 7, 8, 9}
    OBVIOUS
  <2> QED
    BY <1>1, <1>8, <2>1
<1>14. /\ Dictionary(s)["log2_max_frame_num_minus4"] = sps.log2_frame_num - 4
       /\ Dictionary(s)["log2_max_pic_order_cnt_lsb_minus4"]
            = sps.log2_poc_lsb - 4
       /\ Dictionary(s)["num_ref_frames"] = sps.num_ref_frames
       /\ Dictionary(s)["pic_width_in_mbs_minus1"] = sps.width_in_mbs - 1
       /\ Dictionary(s)["frame_cropping_flag"] = IF sps.cropping THEN 1 ELSE 0
  BY <1>1, <1>2, <1>9, <1>10, <1>11, <1>12, <1>13
<1>15. {"log2_max_frame_num_minus4", "num_ref_frames",
        "log2_max_pic_order_cnt_lsb_minus4",
        "pic_width_in_mbs_minus1", "frame_cropping_flag"} \subseteq NamesOf(s)
  BY <1>1, <1>7
<1> QED
  BY <1>3, <1>6, <1>14, <1>15 DEF s

LEMMA CropRead ==
  ASSUME NEW sps, sps.crop_right \in Int, sps.crop_bottom \in Int
  PROVE  LET s == SpsCrop(sps)
         IN  /\ s \in Seq(Items)
             /\ {"frame_crop_left_offset", "frame_crop_right_offset"}
                  \subseteq NamesOf(s)
             /\ Dictionary(s)["frame_crop_left_offset"] = 0
             /\ Dictionary(s)["frame_crop_right_offset"] = sps.crop_right
<1> DEFINE a == Element("frame_crop_left_offset", UE, 0)
           b == Element("frame_crop_right_offset", UE, sps.crop_right)
           c == Element("frame_crop_top_offset", UE, 0)
           d == Element("frame_crop_bottom_offset", UE, sps.crop_bottom)
<1>1. /\ "frame_crop_left_offset" \in Names /\ "frame_crop_right_offset" \in Names
      /\ "frame_crop_top_offset" \in Names
      /\ "frame_crop_bottom_offset" \in Names /\ UE \in Codings
  BY Codes DEF Names
<1>2. a \in Items /\ b \in Items /\ c \in Items /\ d \in Items
  BY <1>1, ElementIsItem
<1>3. /\ a.name = "frame_crop_left_offset" /\ a.val = 0
      /\ b.name = "frame_crop_right_offset" /\ b.val = sps.crop_right
  BY DEF Element
<1> DEFINE s == SpsCrop(sps)
<1>4. s = <<a, b, c, d>>
  BY DEF SpsCrop
<1> HIDE DEF a, b, c, d, s
<1>5. s \in Seq(Items) /\ Len(s) = 4 /\ s[1] = a /\ s[2] = b
  BY <1>2, <1>4
<1>6. Dictionary(s)[s[1].name] = s[1].val
  <2>1. Len(s) \in Nat /\ 1 \in 1..Len(s) /\ \A j \in 1..1 - 1 : FALSE
    BY <1>5
  <2> QED
    BY <2>1, ReadByName
<1>7. Dictionary(s)[s[2].name] = s[2].val
  <2>1. /\ Len(s) \in Nat /\ 2 \in 1..Len(s)
        /\ \A j \in 1..2 - 1 : j = 1
    BY <1>5
  <2>2. \A j \in 1..2 - 1 : s[j].name # s[2].name
    BY <1>3, <1>5, <2>1
  <2> QED
    BY <2>1, <2>2, ReadByName
<1>8. {s[1].name, s[2].name} \subseteq NamesOf(s)
  <2>1. 1 \in 1..Len(s) /\ 2 \in 1..Len(s)
    BY <1>5
  <2> QED
    BY <2>1 DEF NamesOf
<1> QED
  BY <1>3, <1>5, <1>6, <1>7, <1>8 DEF s

(* The sequence parameter set, with the size of the picture.               *)
LEMMA SpsRead ==
  ASSUME NEW sps, sps.profile_idc = 100,
         sps.log2_frame_num \in Int, sps.log2_poc_lsb \in Int,
         sps.num_ref_frames \in Int, sps.width_in_mbs \in Int,
         sps.height_in_mbs \in Int, sps.crop_right \in Int,
         sps.crop_bottom \in Int, sps.cropping \in BOOLEAN
  PROVE  LET d == Dictionary(sps_rbsp(sps))
         IN  /\ d["log2_max_frame_num_minus4"] = sps.log2_frame_num - 4
             /\ d["log2_max_pic_order_cnt_lsb_minus4"] = sps.log2_poc_lsb - 4
             /\ d["num_ref_frames"] = sps.num_ref_frames
             /\ d["pic_width_in_mbs_minus1"] = sps.width_in_mbs - 1
             /\ d["frame_cropping_flag"] = IF sps.cropping THEN 1 ELSE 0
             /\ sps.cropping => /\ d["frame_crop_left_offset"] = 0
                                /\ d["frame_crop_right_offset"] = sps.crop_right
<1> DEFINE H == SpsHead(sps)
           B == SpsBody(sps)
           C == SpsCrop(sps)
           W == When(sps.cropping, C)
           V == <<Flag("vui_parameters_present_flag", 0)>>
           read == {"log2_max_frame_num_minus4", "num_ref_frames",
                    "log2_max_pic_order_cnt_lsb_minus4",
                    "pic_width_in_mbs_minus1", "frame_cropping_flag"}
           crop == {"frame_crop_left_offset", "frame_crop_right_offset"}
<1>1. sps_rbsp(sps) = ((H \o B) \o W) \o V
  BY DEF sps_rbsp, SpsHead, SpsBody, SpsCrop
<1>2. V \in Seq(Items)
  <2>1. "vui_parameters_present_flag" \in Names
    BY DEF Names
  <2>2. Flag("vui_parameters_present_flag", 0) \in Items
    BY <2>1, FlagIsItem
  <2> QED
    BY <2>2
<1>3. H \in Seq(Items) /\ NamesOf(H) \cap SpsNames = {}
  BY HeadNames
<1>4. /\ B \in Seq(Items) /\ read \subseteq NamesOf(B)
      /\ NamesOf(B) \cap crop = {}
  BY BodyRead
<1>5. /\ C \in Seq(Items) /\ crop \subseteq NamesOf(C)
      /\ W \in Seq(Items) /\ (sps.cropping => W = C)
  BY CropRead DEF When
<1>6. NamesOf(H) \cap (read \cup crop) = {}
  BY <1>3 DEF SpsNames
<1>7. /\ Dictionary(B)["log2_max_frame_num_minus4"] = sps.log2_frame_num - 4
      /\ Dictionary(B)["log2_max_pic_order_cnt_lsb_minus4"]
           = sps.log2_poc_lsb - 4
      /\ Dictionary(B)["num_ref_frames"] = sps.num_ref_frames
      /\ Dictionary(B)["pic_width_in_mbs_minus1"] = sps.width_in_mbs - 1
      /\ Dictionary(B)["frame_cropping_flag"] = IF sps.cropping THEN 1 ELSE 0
  BY BodyRead
<1>8. /\ Dictionary(C)["frame_crop_left_offset"] = 0
      /\ Dictionary(C)["frame_crop_right_offset"] = sps.crop_right
  BY CropRead
<1> HIDE DEF H, B, C, W, V
<1> DEFINE HB == H \o B
<1>9. HB \in Seq(Items) /\ NamesOf(HB) = NamesOf(H) \cup NamesOf(B)
  BY <1>3, <1>4, JoinedItems, JoinedNames
<1>10. \A name \in read : Dictionary(HB)[name] = Dictionary(B)[name]
  BY <1>3, <1>4, <1>6, ReadAfter
<1> HIDE DEF HB
<1> DEFINE HBW == HB \o W
<1>11. HBW \in Seq(Items) /\ NamesOf(HBW) = NamesOf(HB) \cup NamesOf(W)
  BY <1>5, <1>9, JoinedItems, JoinedNames
<1>12. \A name \in read : Dictionary(HBW)[name] = Dictionary(B)[name]
  <2>1. \A name \in read : name \in NamesOf(HB)
    BY <1>4, <1>9
  <2>2. \A name \in read : Dictionary(HBW)[name] = Dictionary(HB)[name]
    BY <1>5, <1>9, <2>1, ReadBefore
  <2> QED
    BY <1>10, <2>2
<1>13. ASSUME sps.cropping, NEW name \in crop
       PROVE  Dictionary(HBW)[name] = Dictionary(C)[name]
  <2>1. name \in NamesOf(C) /\ name \notin NamesOf(HB) /\ W = C
    BY <1>4, <1>5, <1>6, <1>9, <1>13
  <2> QED
    BY <1>5, <1>9, <2>1, ReadAfter
<1> HIDE DEF HBW
<1> DEFINE R == HBW \o V
<1>14. \A name \in read : Dictionary(R)[name] = Dictionary(B)[name]
  <2>1. \A name \in read : name \in NamesOf(HBW)
    BY <1>4, <1>9, <1>11
  <2>2. \A name \in read : Dictionary(R)[name] = Dictionary(HBW)[name]
    BY <1>2, <1>11, <2>1, ReadBefore
  <2> QED
    BY <1>12, <2>2
<1>15. ASSUME sps.cropping, NEW name \in crop
       PROVE  Dictionary(R)[name] = Dictionary(C)[name]
  <2>1. name \in NamesOf(HBW)
    BY <1>5, <1>11, <1>15
  <2>2. Dictionary(R)[name] = Dictionary(HBW)[name]
    BY <1>2, <1>11, <2>1, ReadBefore
  <2> QED
    BY <1>13, <1>15, <2>2
<1>16. sps_rbsp(sps) = R
  BY <1>1 DEF HB, HBW
<1> HIDE DEF R
<1> QED
  BY <1>7, <1>8, <1>14, <1>15, <1>16

(* The picture parameter set.                                              *)
LEMMA PpsRead ==
  LET d == Dictionary(pps_rbsp(1))
  IN  /\ d["entropy_coding_mode_flag"] = 1
      /\ d["deblocking_filter_control_present_flag"] = 1
<1> DEFINE s == pps_rbsp(1)
<1>1. /\ Len(s) = 18
      /\ s[1].name = "pic_parameter_set_id"
      /\ s[2].name = "seq_parameter_set_id"
      /\ s[3].name = "entropy_coding_mode_flag" /\ s[3].val = 1
      /\ s[4].name = "pic_order_present_flag"
      /\ s[5].name = "num_slice_groups_minus1"
      /\ s[6].name = "num_ref_idx_l0_active_minus1"
      /\ s[7].name = "num_ref_idx_l1_active_minus1"
      /\ s[8].name = "weighted_pred_flag" /\ s[9].name = "weighted_bipred_idc"
      /\ s[10].name = "pic_init_qp_minus26"
      /\ s[11].name = "pic_init_qs_minus26"
      /\ s[12].name = "chroma_qp_index_offset"
      /\ s[13].name = "deblocking_filter_control_present_flag"
      /\ s[13].val = 1
  BY DEF pps_rbsp, Element, Flag
<1> HIDE DEF s
<1>2. /\ \A j \in 1..3 - 1 : j \in {1, 2}
      /\ \A j \in 1..13 - 1 : j \in {1, 2, 3, 4, 5, 6, 7, 8, 9, 10, 11, 12}
  OBVIOUS
<1>3. /\ \A j \in 1..3 - 1 : s[j].name # s[3].name
      /\ \A j \in 1..13 - 1 : s[j].name # s[13].name
  BY <1>1, <1>2
<1>4. Len(s) \in Nat /\ 3 \in 1..Len(s) /\ 13 \in 1..Len(s)
  BY <1>1
<1>5. /\ Dictionary(s)[s[3].name] = s[3].val
      /\ Dictionary(s)[s[13].name] = s[13].val
  BY <1>3, <1>4, ReadByName
<1> QED
  BY <1>1, <1>5 DEF s

-----------------------------------------------------------------------------
(* The invariant of the pictures *)

(* The picture with frame number k of a group that starts at base, when    *)
(* the period of the references is P: where it is shown, what the encoder  *)
(* and what the decoder keeps of it. *)
ShownAt(P, base, k) == base + k * P
Ref(P, base, k) == [picture_id |-> ShownAt(P, base, k) % SURFACE_NUM,
                    frame_idx |-> k, poc |-> k * P]
Frame(P, base, k) == [frame_num |-> k, poc |-> k * P,
                      display |-> ShownAt(P, base, k)]

(* What is kept of c references, the latest first. *)
Kept(c) == IF c <= num_ref_frames THEN c ELSE num_ref_frames
Refs(P, base, c) == [i \in 1..Kept(c) |-> Ref(P, base, c - i)]
Frames(P, base, c) == {Frame(P, base, c - i) : i \in 1..Kept(c)}
Stored(P, base, c, surfaces) ==
  \A i \in 1..Kept(c) :
    surfaces[Ref(P, base, c - i).picture_id] = ShownAt(P, base, c - i)

(* Where picture e is in its group. *)
Place(e) == Gop(ppShape.intra, ppShape.idr, ppShape.ip)!GopPlace(e)

(* After g pictures of a group, c of them references: a B picture, if one  *)
(* is next, is between the last two of them. *)
Reached(P, g, c) ==
  IF (g - 1) % P = 0 THEN g - 1 = (c - 1) * P
  ELSE c >= 2 /\ g - 1 = (c - 2) * P + ((g - 1) % P)

GroupSoFar(g, base, c) ==
  /\ g \in Nat \ {0} /\ base \in Nat /\ c \in Nat \ {0}
  /\ Reached(ppShape.ip, g, c)
  /\ (c - 1) * ppShape.ip < 2^Log2MaxPicOrderCntLsb
  /\ ReferenceFrames = Refs(ppShape.ip, base, c)
  /\ Stored(ppShape.ip, base, c, reconstructed)
  /\ poc_ref = [msb |-> 0, lsb |-> (c - 1) * ppShape.ip]
  /\ decoder.dpb = Frames(ppShape.ip, base, c)
  /\ decoder.prevFrameNum = c - 1
  /\ decoder.prevMsb = 0 /\ decoder.prevLsb = (c - 1) * ppShape.ip

(* The encoder and the decoder know the same of the group that is being    *)
(* encoded, which a picture with place 0 ends. *)
Grouped ==
  LET e == current_frame_encoding
      base == current_IDR_display
  IN  e > 0 => /\ GroupSoFar(e - base, base, current_frame_num)
               /\ Place(e) \in {0, e - base}

(* What the parameter sets say, and who was the last IDR picture. *)
Steady ==
  /\ ppShape \in Shapes /\ TO_DEL \in BOOLEAN
  /\ frame_width \in {32, 38} /\ frame_height = 16
  /\ current_frame_encoding \in 0..Pictures /\ idr_pic_id \in Nat
  /\ reconstructed \in [0..SURFACE_NUM - 1 -> Int]
  /\ decoder.prevIdrId \in {-1, idr_pic_id}
  /\ current_frame_encoding = 0 =>
       /\ decoder.prevIdrId = -1 /\ decoder.sps = <<>>
       /\ ReferenceFrames = <<>>
  /\ current_frame_encoding > 0 =>
       /\ decoder.sps = Dictionary(sps_rbsp(seq_param))
       /\ decoder.pps = Dictionary(pps_rbsp(1))

(* What DecoderFollows says of the last picture. *)
Followed ==
  /\ HeadersConform /\ NumbersLegal /\ OrderCountsAgree
  /\ ReferencesAgree /\ PartitionInside

PpInv == Steady /\ Grouped /\ Followed

-----------------------------------------------------------------------------
(* Numbers *)

LEMMA Times ==
  ASSUME NEW P \in Nat \ {0}, NEW k \in Nat
  PROVE  /\ k * P \in Nat /\ (k + 1) * P = k * P + P /\ k <= k * P
         /\ P >= 2 /\ k >= 1 => k + 1 <= k * P
         /\ 0 * P = 0
<1>1. k * P \in Nat /\ (k + 1) * P = k * P + P /\ 0 * P = 0
  OBVIOUS
<1>2. k <= k * P
  <2>1. k * P = k + k * (P - 1) /\ k * (P - 1) \in Nat
    OBVIOUS
  <2> QED
    BY <1>1, <2>1
<1>3. ASSUME P >= 2, k >= 1 PROVE k + 1 <= k * P
  <2>1. k * P = k + k * (P - 1) /\ P - 1 \in Nat \ {0}
    BY <1>3
  <2>2. k * (P - 1) = (P - 1) * k /\ k * (P - 1) \in Int
    BY <2>1
  <2>3. (P - 1) * k >= P - 1
    BY <1>3, <2>1, Multiple
  <2> QED
    BY <1>1, <2>1, <2>2, <2>3
<1> QED
  BY <1>1, <1>2, <1>3

LEMMA TimesApart ==
  ASSUME NEW P \in Nat \ {0}, NEW a \in Nat, NEW b \in Nat, a < b
  PROVE  a * P \in Nat /\ b * P \in Nat /\ a * P + P <= b * P
<1>1. a * P \in Nat /\ b * P \in Nat
  OBVIOUS
<1>2. b * P - a * P = P * (b - a) /\ b - a \in Int /\ b - a >= 1
  OBVIOUS
<1>3. P * (b - a) >= P
  BY <1>2, Multiple
<1> QED
  BY <1>1, <1>2, <1>3

LEMMA TimesNear ==
  ASSUME NEW P \in Nat \ {0}, NEW a \in Nat, NEW b \in Nat, NEW n \in Nat,
         b - a <= n
  PROVE  b * P - a * P <= n * P
<1>1. n * P - (b * P - a * P) = (n - (b - a)) * P
  OBVIOUS
<1>2. n - (b - a) \in Nat
  OBVIOUS
<1>3. (n - (b - a)) * P >= 0
  BY <1>2
<1>4. n * P \in Int /\ b * P \in Int /\ a * P \in Int
  OBVIOUS
<1> QED
  BY <1>1, <1>3, <1>4

-----------------------------------------------------------------------------
(* The order of the pictures *)

LEMMA ShapeFacts ==
  ASSUME ppShape \in Shapes
  PROVE  /\ ppShape.intra \in Nat /\ ppShape.idr \in Nat
         /\ ppShape.idr <= MaxIdrPeriod
         /\ ppShape.ip \in Nat \ {0} /\ ppShape.ip <= MaxIpPeriod
         /\ ppShape.intra = 1 => ppShape.ip = 1
         /\ ppShape.idr % ppShape.ip = 0
BY PicturesAssumption DEF Shapes

(* IDR pictures other than the first. *)
Idrs == ppShape.intra # 0 /\ ppShape.idr # 0
GroupSize == IF ppShape.ip = 1 THEN ppShape.idr ELSE ppShape.idr + 1

LEMMA PlaceIs ==
  ASSUME ppShape \in Shapes, NEW e \in Nat
  PROVE  Place(e) = IF Idrs THEN e % GroupSize ELSE e
<1>1. /\ ppShape.intra \in Nat /\ ppShape.idr \in Nat
      /\ ppShape.ip \in Nat \ {0}
  BY ShapeFacts
<1> QED
  BY <1>1 DEF Place, Idrs, GroupSize, Gop!GopPlace, Gop!IdrPeriod

LEMMA PlaceFacts ==
  ASSUME ppShape \in Shapes, NEW e \in Nat
  PROVE  /\ Place(e) \in 0..e
         /\ Place(e + 1) \in {0, Place(e) + 1}
         /\ ~Idrs => Place(e) = e
         /\ Idrs => Place(e) < GroupSize
<1>1. ppShape.idr \in Nat /\ ppShape.ip \in Nat \ {0}
  BY ShapeFacts
<1>2. CASE ~Idrs
  BY <1>2, PlaceIs
<1>3. CASE Idrs
  <2>1. GroupSize \in Nat \ {0}
    BY <1>1, <1>3 DEF Idrs, GroupSize
  <2> DEFINE n == GroupSize
  <2>2. e % n \in 0..n - 1 /\ e % n <= e
    <3>1. n \in Nat \ {0}
      BY <2>1
    <3> HIDE DEF n
    <3>2. e \div n \in Nat /\ e % n \in 0..n - 1 /\ e = n * (e \div n) + (e % n)
      BY <3>1, DivMod
    <3>3. n * (e \div n) \in Nat
      BY <3>1, <3>2
    <3> QED
      BY <3>2, <3>3
  <2>3. (e + 1) % n \in {0, (e % n) + 1}
    BY <2>1, ModSucc
  <2> QED
    BY <1>3, <2>1, <2>2, <2>3, PlaceIs
<1> QED
  BY <1>2, <1>3

LEMMA TypeOf ==
  ASSUME ppShape \in Shapes, NEW e \in Nat
  PROVE  LET g == Place(e)
             between == g # 0 /\ (g - 1) % ppShape.ip # 0
         IN  /\ FrameType(e) \in Types
             /\ FrameType(e) = "IDR" <=> g = 0
             /\ FrameType(e) = "B" <=> between
             /\ DisplayOrder(e) = IF g = 0 THEN e
                                  ELSE IF between THEN e - 1
                                  ELSE e + (ppShape.ip - 1)
<1> DEFINE g == Place(e)
           between == g # 0 /\ (g - 1) % ppShape.ip # 0
<1>1. /\ ppShape.intra \in Nat /\ ppShape.idr \in Nat
      /\ ppShape.ip \in Nat \ {0}
      /\ ppShape.intra = 1 => ppShape.ip = 1
  BY ShapeFacts
<1>2. g \in Nat
  BY PlaceFacts
<1>3. CASE ppShape.intra = 1
  <2>1. (g - 1) % 1 = 0
    BY <1>2
  <2>2. ppShape.ip = 1 /\ ~between
    BY <1>1, <1>3, <2>1
  <2>3. g = IF ppShape.idr = 0 THEN e ELSE e % ppShape.idr
    BY <1>1, <1>3, <2>2, PlaceIs DEF Idrs, GroupSize
  <2>4. FrameType(e) = IF g = 0 THEN "IDR" ELSE "I"
    BY <1>3, <2>3 DEF FrameType, Gop!FrameType, Gop!AllIntraIdr
  <2>5. DisplayOrder(e) = e
    BY <1>3 DEF DisplayOrder, Gop!DisplayOrder
  <2> QED
    BY <2>2, <2>4, <2>5 DEF Types
<1>4. CASE ppShape.intra # 1
  <2>1. g = Gop(ppShape.intra, ppShape.idr, ppShape.ip)!GopPlace(e)
    BY DEF Place
  <2>2. Gop(ppShape.intra, ppShape.idr, ppShape.ip)!IsB(e) = between
    BY <2>1 DEF Gop!IsB
  <2>3. /\ g = 0 => FrameType(e) = "IDR"
        /\ g # 0 /\ between => FrameType(e) = "B"
        /\ g # 0 /\ ~between => FrameType(e) \in {"I", "P"}
    BY <1>4, <2>1, <2>2 DEF FrameType, Gop!FrameType
  <2>4. DisplayOrder(e) = IF g = 0 THEN e
                          ELSE IF between THEN e - 1
                          ELSE e + (ppShape.ip - 1)
    <3>1. e + ppShape.ip - 1 = e + (ppShape.ip - 1)
      BY <1>1
    <3> QED
      BY <1>4, <2>1, <2>2, <3>1 DEF DisplayOrder, Gop!DisplayOrder
  <2> QED
    BY <2>3, <2>4 DEF Types
<1> QED
  BY <1>3, <1>4

LEMMA ReachedFirst ==
  ASSUME NEW P \in Nat \ {0} PROVE Reached(P, 1, 1)
<1>1. 0 % P = 0 /\ 0 * P = 0
  BY ModSmall
<1>2. 1 - 1 = 0
  OBVIOUS
<1> QED
  BY <1>1, <1>2 DEF Reached

LEMMA ReachedByReference ==
  ASSUME NEW P \in Nat \ {0}, NEW g \in Nat \ {0}, NEW c \in Nat \ {0},
         Reached(P, g, c), (g - 1) % P = 0
  PROVE  g + (P - 1) = c * P /\ Reached(P, g + 1, c + 1)
<1>1. g - 1 = (c - 1) * P
  BY DEF Reached
<1>2. (c - 1) * P \in Nat /\ c * P = (c - 1) * P + P
  <2>1. c - 1 \in Nat /\ (c - 1) + 1 = c
    OBVIOUS
  <2>2. (c - 1) * P \in Nat /\ ((c - 1) + 1) * P = (c - 1) * P + P
    BY <2>1, Times
  <2> QED
    BY <2>1, <2>2
<1>3. g + (P - 1) = c * P
  BY <1>1, <1>2
<1>4. g % P = IF P = 1 THEN 0 ELSE 1
  <2>1. g - 1 \in Nat /\ (g - 1) + 1 = g
    OBVIOUS
  <2>2. ((g - 1) + 1) % P = IF ((g - 1) % P) + 1 = P THEN 0
                            ELSE ((g - 1) % P) + 1
    BY <2>1, ModSucc
  <2> QED
    BY <2>1, <2>2
<1>5. (g + 1) - 1 = g /\ (c + 1) - 1 = c /\ (c + 1) - 2 = c - 1
  OBVIOUS
<1>6. CASE P = 1
  BY <1>3, <1>4, <1>5, <1>6 DEF Reached
<1>7. CASE P # 1
  <2>1. g = (c - 1) * P + 1 /\ c + 1 >= 2
    BY <1>1, <1>2
  <2> QED
    BY <1>4, <1>5, <1>7, <2>1 DEF Reached
<1> QED
  BY <1>3, <1>6, <1>7

LEMMA ReachedByB ==
  ASSUME NEW P \in Nat \ {0}, NEW g \in Nat \ {0}, NEW c \in Nat \ {0},
         Reached(P, g, c), (g - 1) % P # 0
  PROVE  /\ P >= 2 /\ c >= 2
         /\ (c - 2) * P < g - 1 /\ g - 1 < (c - 1) * P
         /\ (c - 2) * P \in Nat /\ (c - 1) * P = (c - 2) * P + P
         /\ Reached(P, g + 1, c)
<1> DEFINE r == (g - 1) % P
<1>1. c >= 2 /\ g - 1 = (c - 2) * P + r
  BY DEF Reached
<1>2. r \in 1..P - 1
  BY DivMod
<1>3. /\ (c - 2) * P \in Nat /\ (c - 1) * P = (c - 2) * P + P
  <2>1. c - 2 \in Nat /\ (c - 2) + 1 = c - 1
    BY <1>1
  <2>2. (c - 2) * P \in Nat /\ ((c - 2) + 1) * P = (c - 2) * P + P
    BY <2>1, Times
  <2> QED
    BY <2>1, <2>2
<1>4. g % P = IF r + 1 = P THEN 0 ELSE r + 1
  <2>1. g - 1 \in Nat /\ (g - 1) + 1 = g
    OBVIOUS
  <2>2. ((g - 1) + 1) % P = IF ((g - 1) % P) + 1 = P THEN 0
                            ELSE ((g - 1) % P) + 1
    BY <2>1, ModSucc
  <2> QED
    BY <2>1, <2>2
<1> HIDE DEF r
<1>5. (g + 1) - 1 = g
  OBVIOUS
<1>6. g = (c - 2) * P + (r + 1)
  BY <1>1, <1>2, <1>3
<1>7. CASE r + 1 = P
  BY <1>3, <1>4, <1>5, <1>6, <1>7 DEF Reached
<1>8. CASE r + 1 # P
  BY <1>1, <1>2, <1>3, <1>4, <1>5, <1>6, <1>8 DEF Reached
<1>9. Reached(P, g + 1, c)
  BY <1>7, <1>8
<1>10. /\ P >= 2 /\ c >= 2
       /\ (c - 2) * P < g - 1 /\ g - 1 < (c - 1) * P
  BY <1>1, <1>2, <1>3
<1> QED
  BY <1>3, <1>9, <1>10

(* The order count of a reference picture fits its field.                  *)
LEMMA OrderFits ==
  ASSUME ppShape \in Shapes, NEW e \in Nat, e < Pictures, Place(e) >= 1,
         NEW c \in Nat \ {0},
         Reached(ppShape.ip, Place(e), c), (Place(e) - 1) % ppShape.ip = 0
  PROVE  c * ppShape.ip < 2^Log2MaxPicOrderCntLsb
<1> DEFINE P == ppShape.ip
           g == Place(e)
           M == 2^Log2MaxPicOrderCntLsb
<1>1. /\ ppShape.idr \in Nat /\ ppShape.idr <= MaxIdrPeriod
      /\ P \in Nat \ {0} /\ ppShape.idr % P = 0
  BY ShapeFacts
<1>2. M \in Nat /\ MaxIdrPeriod \in Nat /\ MaxIdrPeriod < M
  BY PicturesAssumption
<1>3. g \in Nat \ {0}
  BY PlaceFacts
<1>4. g + (P - 1) = c * P
  <2>1. Reached(P, g, c) /\ (g - 1) % P = 0
    OBVIOUS
  <2> HIDE DEF P, g
  <2> QED
    BY <1>1, <1>3, <2>1, ReachedByReference
<1>5. CASE ~Idrs
  <2>1. g = e
    BY <1>5, PlaceFacts
  <2>2. Pictures = M - (P - 1)
    BY <1>5 DEF Pictures, Idrs
  <2>3. e < M - (P - 1)
    BY <2>2
  <2> HIDE DEF P, g, M
  <2> QED
    BY <1>1, <1>2, <1>4, <2>1, <2>3 DEF P, M
<1>6. CASE Idrs
  <2>1. g < GroupSize
    BY <1>6, PlaceFacts
  <2>2. CASE P = 1
    <3>1. g < ppShape.idr
      BY <2>1, <2>2 DEF GroupSize
    <3> HIDE DEF P, g, M
    <3>2. g + (P - 1) = g
      BY <1>3, <2>2
    <3>3. c * P < M
      BY <1>1, <1>2, <1>3, <1>4, <3>1, <3>2
    <3> QED
      BY <3>3 DEF P, M
  <2>3. CASE P # 1
    <3>1. g < ppShape.idr + 1
      BY <2>1, <2>3 DEF GroupSize
    <3> DEFINE d == ppShape.idr \div P
    <3>2. d \in Nat /\ ppShape.idr = P * d
      <4> DEFINE i == ppShape.idr
      <4>1. i \in Nat /\ P \in Nat \ {0} /\ i % P = 0
        BY <1>1
      <4> HIDE DEF P, i
      <4>2. i \div P \in Nat /\ i = P * (i \div P) + (i % P)
        BY <4>1, DivMod
      <4>3. P * (i \div P) \in Nat
        BY <4>1, <4>2
      <4>4. i = P * (i \div P)
        BY <4>1, <4>2, <4>3
      <4> QED
        BY <4>2, <4>4 DEF i
    <3> HIDE DEF P, g, M, d
    <3>3. P * d \in Nat /\ c * P \in Nat /\ d * P = P * d
      BY <1>1, <3>2
    <3>4. c * P < d * P + P
      BY <1>1, <1>3, <1>4, <3>1, <3>2, <3>3
    <3>5. ~(d < c)
      BY <1>1, <3>2, <3>4, TimesApart
    <3>6. c - d <= 0 /\ 0 \in Nat
      BY <3>2, <3>5
    <3>7. c * P - d * P <= 0 * P /\ 0 * P = 0
      BY <1>1, <3>2, <3>6, TimesNear
    <3>8. c * P < M
      BY <1>1, <1>2, <3>2, <3>3, <3>7
    <3> QED
      BY <3>8 DEF P, M
  <2> QED
    BY <2>2, <2>3
<1> QED
  BY <1>5, <1>6

-----------------------------------------------------------------------------
(* The lists of references *)

LEMMA RisingSize ==
  ASSUME NEW n \in Nat, NEW S, NEW list \in [1..n -> S],
         S = {list[i] : i \in 1..n},
         \A i, j \in 1..n : i < j => list[i] # list[j]
  PROVE  IsFiniteSet(S) /\ Cardinality(S) = n
<1> DEFINE D == 1..n
<1>1. IsFiniteSet(D) /\ Cardinality(D) = n
  <2>1. /\ IsFiniteSet(D)
        /\ Cardinality(D) = IF 1 > n THEN 0 ELSE n - 1 + 1
    BY FS_Interval, SMTT(30)
  <2> QED
    BY <2>1
<1>2. \A i, j \in D : i # j => list[i] # list[j]
  OBVIOUS
<1>3. list \in [D -> S] /\ S = {list[i] : i \in D}
  OBVIOUS
<1> HIDE DEF D
<1>4. list \in Bijection(D, S)
  BY <1>2, <1>3 DEF Bijection, Injection, Surjection, IsInjective
<1>5. ExistsBijection(D, S)
  BY <1>4 DEF ExistsBijection
<1> QED
  BY <1>1, <1>5, FS_Bijection

LEMMA FunctionIsSeq ==
  ASSUME NEW m \in Nat, NEW T, NEW f \in [1..m -> T]
  PROVE  f \in Seq(T) /\ Len(f) = m
OBVIOUS

(* The list has the members of the set, by rising value.                   *)
SortedList(list, n, S, value) ==
  /\ n \in Nat \ {0} /\ list \in [1..n -> S] /\ S = {list[i] : i \in 1..n}
  /\ \A i \in 1..n : value[list[i]] \in Int
  /\ \A i, j \in 1..n : i < j => value[list[i]] < value[list[j]]

LEMMA SortedFirst ==
  ASSUME NEW list, NEW n, NEW S, NEW value, SortedList(list, n, S, value)
  PROVE  /\ SortedBy(S, value) \in [1..n -> S]
         /\ SortedBy(S, value)[1] = list[1] /\ list[1] \in S
<1>0. /\ n \in Nat \ {0} /\ list \in [1..n -> S] /\ S = {list[i] : i \in 1..n}
      /\ \A i \in 1..n : value[list[i]] \in Int
      /\ \A i, j \in 1..n : i < j => value[list[i]] < value[list[j]]
  BY DEF SortedList
<1>1. \A i, j \in 1..n : i < j => list[i] # list[j]
  BY <1>0, SMTT(30)
<1>2. IsFiniteSet(S) /\ Cardinality(S) = n
  BY <1>0, <1>1, RisingSize
<1> DEFINE Sorted(l) == \A i, j \in DOMAIN l : i < j => value[l[i]] < value[l[j]]
           L == SortedBy(S, value)
<1>3. list \in [1..n -> S] /\ Sorted(list)
  BY <1>0
<1>4. L \in [1..n -> S] /\ Sorted(L)
  BY <1>2, <1>3 DEF SortedBy
<1> HIDE DEF L
<1>5. \A r \in S : value[r] \in Int
  BY <1>0
<1>6. \A i, j \in 1..n : i # j => L[i] # L[j]
  <2>1. ASSUME NEW i \in 1..n, NEW j \in 1..n, i < j PROVE L[i] # L[j]
    <3>1. value[L[i]] < value[L[j]] /\ value[L[i]] \in Int
      BY <1>4, <1>5, <2>1
    <3> QED
      BY <3>1
  <2>2. \A i, j \in 1..n : i # j => i < j \/ j < i
    BY <1>0
  <2> QED
    BY <2>1, <2>2
<1>7. L \in Surjection(1..n, S)
  <2>1. L \in Injection(1..n, S)
    BY <1>4, <1>6 DEF Injection, IsInjective
  <2>2. Cardinality(1..n) = n
    <3>1. 1 \in Int /\ n \in Int
      BY <1>0
    <3>2. Cardinality(1..n) = IF 1 > n THEN 0 ELSE n - 1 + 1
      BY <3>1, FS_Interval
    <3> QED
      BY <1>0, <3>2
  <2> QED
    BY <1>2, <2>1, <2>2, FS_Injection
<1>8. list[1] \in S /\ 1 \in 1..n
  BY <1>0
<1>9. PICK j \in 1..n : L[j] = list[1]
  BY <1>7, <1>8 DEF Surjection
<1>10. PICK k \in 1..n : L[1] = list[k]
  BY <1>0, <1>4, <1>8
<1>11. value[list[1]] <= value[list[k]]
  <2>1. k = 1 \/ 1 < k
    BY <1>0
  <2>2. value[list[1]] \in Int /\ value[list[k]] \in Int
    BY <1>0, <1>8
  <2>3. 1 < k => value[list[1]] < value[list[k]]
    BY <1>0, <1>8
  <2> QED
    BY <2>1, <2>2, <2>3
<1>12. j = 1
  <2> SUFFICES ASSUME 1 < j PROVE FALSE
    BY <1>0
  <2>1. value[L[1]] < value[L[j]]
    BY <1>4, <1>8
  <2>2. value[list[1]] \in Int /\ value[list[k]] \in Int
    BY <1>0, <1>8
  <2> QED
    BY <1>9, <1>10, <1>11, <2>1, <2>2
<1> QED
  BY <1>4, <1>8, <1>9, <1>12 DEF L

(* Around a key between the two latest of falling order counts.            *)
Surrounds(list, n, S, poc) ==
  /\ n \in Nat /\ n >= 2 /\ list \in [1..n -> S]
  /\ S = {list[i] : i \in 1..n} /\ poc \in Int
  /\ \A i \in 1..n : list[i].poc \in Int
  /\ \A i, j \in 1..n : i < j => list[j].poc < list[i].poc
  /\ list[2].poc < poc /\ poc < list[1].poc

(* The two orders of sort_two.                                             *)
NearBefore(S, poc) == SortedTwo(S, poc, TRUE)
NearAfter(S, poc) == SortedTwo(S, poc, FALSE)

LEMMA SortedAround ==
  ASSUME NEW list, NEW n, NEW S, NEW poc, Surrounds(list, n, S, poc)
  PROVE  /\ NearBefore(S, poc) \in Seq(S)
         /\ NearAfter(S, poc) \in Seq(S)
         /\ NearBefore(S, poc) # <<>> /\ NearAfter(S, poc) # <<>>
         /\ NearBefore(S, poc)[1] = list[2]
         /\ NearAfter(S, poc)[1] = list[1]
         /\ list[1] \in S /\ list[2] \in S /\ list[1] # list[2]
<1> DEFINE before == {r \in S : r.poc < poc}
           after == {r \in S : r.poc > poc}
           vb == [r \in before |-> -r.poc]
           va == [r \in after |-> r.poc]
           lb == [i \in 1..n - 1 |-> list[i + 1]]
           la == [i \in 1..1 |-> list[1]]
           nb == SortedBy(before, vb)
           na == SortedBy(after, va)
<1> DEFINE count(i) == list[i].poc
<1>a. n \in Nat /\ n >= 2 /\ poc \in Int
  BY DEF Surrounds
<1>b. list \in [1..n -> S] /\ S = {list[i] : i \in 1..n}
  BY DEF Surrounds
<1>c. /\ \A i \in 1..n : count(i) \in Int
      /\ \A i, j \in 1..n : i < j => count(j) < count(i)
      /\ count(2) < poc /\ poc < count(1)
  BY DEF Surrounds
<1>1. \A i \in 2..n : list[i].poc < poc /\ list[i].poc \in Int
  <2> SUFFICES ASSUME NEW i \in 2..n PROVE count(i) < poc /\ count(i) \in Int
    OBVIOUS
  <2> HIDE DEF count
  <2>1. i = 2 \/ 2 < i
    BY <1>a
  <2>2. 2 \in 1..n /\ i \in 1..n
    BY <1>a
  <2>3. count(i) \in Int /\ count(2) \in Int
    BY <1>c, <2>2
  <2>4. 2 < i => count(i) < count(2)
    BY <1>c, <2>2
  <2> QED
    BY <1>a, <1>c, <2>1, <2>3, <2>4
<1>2. before = {list[i] : i \in 2..n} /\ after = {list[1]}
  <2>1. 1..n = {1} \cup 2..n
    BY <1>a
  <2>2. /\ 1 \in 1..n /\ list[1].poc \in Int /\ list[1].poc > poc
        /\ ~(list[1].poc < poc)
    BY <1>a, <1>c
  <2>3. \A i \in 2..n : list[i].poc < poc /\ ~(list[i].poc > poc)
    BY <1>1, <1>a
  <2> QED
    BY <1>b, <2>1, <2>2, <2>3
<1>3. list[1] \in S /\ list[2] \in S /\ list[1] # list[2]
  <2>1. 1 \in 1..n /\ 2 \in 1..n
    BY <1>a
  <2>2. list[1] \in S /\ list[2] \in S
    BY <1>b, <2>1
  <2>3. count(1) # count(2)
    <3> HIDE DEF count
    <3>1. count(1) \in Int /\ count(2) \in Int
      BY <1>c, <2>1
    <3> QED
      BY <1>a, <1>c, <3>1
  <2> QED
    BY <2>2, <2>3
<1>4. before \subseteq S /\ after \subseteq S
  OBVIOUS
<1> HIDE DEF before, after
<1>5. lb \in [1..n - 1 -> before] /\ before = {lb[i] : i \in 1..n - 1}
  <2>1. \A i \in 1..n - 1 : i + 1 \in 2..n
    BY <1>a
  <2>2. \A i \in 2..n : i - 1 \in 1..n - 1 /\ (i - 1) + 1 = i
    BY <1>a
  <2> QED
    BY <1>2, <2>1, <2>2
<1>6. \A i \in 1..n - 1 : lb[i] = list[i + 1]
  OBVIOUS
<1>7. \A i \in 1..n - 1 : lb[i] \in before /\ lb[i].poc \in Int
  <2> TAKE i \in 1..n - 1
  <2>1. lb[i] \in before /\ lb[i] = list[i + 1] /\ i + 1 \in 2..n
    BY <1>5, <1>6, <1>a
  <2> QED
    BY <1>1, <2>1
<1>8. \A i \in 1..n - 1 : vb[lb[i]] = -(lb[i].poc)
  BY <1>7
<1>9. \A i, j \in 1..n - 1 : i < j => lb[j].poc < lb[i].poc
  <2> SUFFICES ASSUME NEW i \in 1..n - 1, NEW j \in 1..n - 1, i < j
               PROVE  lb[j].poc < lb[i].poc
    OBVIOUS
  <2>1. i + 1 \in 1..n /\ j + 1 \in 1..n /\ i + 1 < j + 1
    BY <1>a
  <2>2. count(j + 1) < count(i + 1)
    BY <1>c, <2>1
  <2> QED
    BY <1>6, <2>2
<1> HIDE DEF lb, vb
<1>10. /\ \A i \in 1..n - 1 : vb[lb[i]] \in Int
       /\ \A i, j \in 1..n - 1 : i < j => vb[lb[i]] < vb[lb[j]]
  <2>1. \A i \in 1..n - 1 : vb[lb[i]] \in Int
    BY <1>7, <1>8
  <2>2. ASSUME NEW i \in 1..n - 1, NEW j \in 1..n - 1, i < j
        PROVE  vb[lb[i]] < vb[lb[j]]
    <3> DEFINE x == lb[i].poc
               y == lb[j].poc
    <3>1. x \in Int /\ y \in Int /\ y < x
      BY <1>7, <1>9, <2>2
    <3>2. vb[lb[i]] = -x /\ vb[lb[j]] = -y
      BY <1>8
    <3> HIDE DEF x, y
    <3> QED
      BY <3>1, <3>2
  <2> QED
    BY <2>1, <2>2
<1>11. n - 1 \in Nat \ {0}
  BY <1>a
<1>12. nb \in [1..n - 1 -> before] /\ nb[1] = lb[1]
  <2> DEFINE m == n - 1
  <2>1. SortedList(lb, m, before, vb)
    BY <1>5, <1>10, <1>11 DEF SortedList
  <2> HIDE DEF m
  <2>2. nb \in [1..m -> before] /\ nb[1] = lb[1]
    BY <2>1, SortedFirst
  <2> QED
    BY <2>2 DEF m
<1>13. lb[1] = list[2]
  <2>1. 1 \in 1..n - 1 /\ 1 + 1 = 2
    BY <1>a
  <2>2. lb[1] = list[1 + 1]
    BY <1>6, <2>1
  <2> QED
    BY <2>1, <2>2
<1>14. na \in [1..1 -> after] /\ na[1] = list[1]
  <2>1. /\ la \in [1..1 -> after] /\ after = {la[i] : i \in 1..1}
        /\ \A i \in 1..1 : la[i] = list[1]
    BY <1>2
  <2>2. va[list[1]] = list[1].poc /\ list[1].poc \in Int
    <3>1. 1 \in 1..n
      BY <1>a
    <3> QED
      BY <1>2, <1>c, <3>1
  <2> HIDE DEF la, va
  <2>3. /\ \A i \in 1..1 : va[la[i]] \in Int
        /\ \A i, j \in 1..1 : i < j => va[la[i]] < va[la[j]]
    BY <2>1, <2>2
  <2>4. 1 \in Nat \ {0} /\ 1 \in 1..1
    OBVIOUS
  <2>5. SortedList(la, 1, after, va)
    BY <2>1, <2>3, <2>4 DEF SortedList
  <2>6. na \in [1..1 -> after] /\ na[1] = la[1]
    <3> DEFINE m == 1
    <3>1. SortedList(la, m, after, va)
      BY <2>5
    <3> HIDE DEF m
    <3>2. na \in [1..m -> after] /\ na[1] = la[1]
      BY <3>1, SortedFirst
    <3> QED
      BY <3>2 DEF m
  <2> QED
    BY <2>1, <2>4, <2>6
<1>15. /\ NearBefore(S, poc) = nb \o na
       /\ NearAfter(S, poc) = na \o nb
  BY DEF NearBefore, NearAfter, SortedTwo, nb, na, before, after, vb, va
<1> HIDE DEF nb, na
<1>16. nb \in Seq(S) /\ na \in Seq(S) /\ Len(nb) = n - 1 /\ Len(na) = 1
  <2>1. nb \in [1..n - 1 -> S] /\ na \in [1..1 -> S]
    BY <1>4, <1>12, <1>14
  <2>2. n - 1 \in Nat /\ 1 \in Nat
    BY <1>11
  <2>3. nb \in Seq(S) /\ Len(nb) = n - 1
    BY <2>1, <2>2, FunctionIsSeq
  <2>4. na \in Seq(S) /\ Len(na) = 1
    BY <2>1, <2>2, FunctionIsSeq
  <2> QED
    BY <2>3, <2>4
<1>17. /\ nb \o na \in Seq(S) /\ na \o nb \in Seq(S)
       /\ Len(nb \o na) = n /\ Len(na \o nb) = n
       /\ (nb \o na)[1] = nb[1] /\ (na \o nb)[1] = na[1]
  <2>1. 1 \in 1..Len(nb) /\ 1 \in 1..Len(na) /\ (n - 1) + 1 = n /\ 1 + (n - 1) = n
    BY <1>a, <1>11, <1>16
  <2>2. /\ nb \o na \in Seq(S) /\ Len(nb \o na) = Len(nb) + Len(na)
        /\ \A i \in 1..Len(nb) : (nb \o na)[i] = nb[i]
    BY <1>16, JoinedSeqs
  <2>3. /\ na \o nb \in Seq(S) /\ Len(na \o nb) = Len(na) + Len(nb)
        /\ \A i \in 1..Len(na) : (na \o nb)[i] = na[i]
    BY <1>16, JoinedSeqs
  <2> QED
    BY <1>16, <2>1, <2>2, <2>3
<1>18. nb \o na # <<>> /\ na \o nb # <<>>
  BY <1>17, <1>a
<1> QED
  BY <1>3, <1>12, <1>13, <1>14, <1>15, <1>17, <1>18

-----------------------------------------------------------------------------
(* What is kept of a group *)

LEMMA KeptFacts ==
  ASSUME NEW c \in Nat
  PROVE  /\ Kept(c) \in Nat /\ Kept(c) <= c /\ Kept(c) <= num_ref_frames
         /\ c >= 1 => Kept(c) >= 1
         /\ c >= 2 => Kept(c) >= 2
         /\ \A i \in 1..Kept(c) : c - i \in Nat /\ c - i < c
         /\ Kept(c + 1) = IF Kept(c) < num_ref_frames THEN Kept(c) + 1
                          ELSE num_ref_frames
         /\ c < num_ref_frames => Kept(c) = c /\ Kept(c + 1) = c + 1
         /\ c >= num_ref_frames =>
              Kept(c) = num_ref_frames /\ Kept(c + 1) = num_ref_frames
BY PicturesAssumption DEF Kept

(* A period for whose references there are surfaces.                       *)
Period(P) ==
  /\ P \in Nat \ {0} /\ num_ref_frames * P < SURFACE_NUM
  /\ P <= MaxIpPeriod

LEMMA PeriodOf ==
  ASSUME ppShape \in Shapes PROVE Period(ppShape.ip)
<1> DEFINE P == ppShape.ip
           m == MaxIpPeriod
           n == num_ref_frames
<1>1. /\ P \in Nat \ {0} /\ P <= m /\ m \in Nat /\ n \in Nat /\ SURFACE_NUM \in Nat
      /\ n * m < SURFACE_NUM
  BY ShapeFacts, PicturesAssumption
<1> HIDE DEF P, m, n
<1>2. n * P \in Nat /\ n * m \in Nat /\ n * m - n * P = n * (m - P)
      /\ n * (m - P) >= 0
  BY <1>1
<1>3. n * P < SURFACE_NUM
  BY <1>1, <1>2
<1> QED
  BY <1>1, <1>3 DEF Period, P, m, n

(* Pictures close to each other have surfaces of their own.                *)
LEMMA SurfacesApart ==
  ASSUME NEW a \in Nat, NEW b \in Nat, a # b, a - b < SURFACE_NUM,
         b - a < SURFACE_NUM
  PROVE  /\ SURFACE_NUM \in Nat \ {0}
         /\ a % SURFACE_NUM \in 0..SURFACE_NUM - 1
         /\ a % SURFACE_NUM # b % SURFACE_NUM
<1>1. SURFACE_NUM \in Nat \ {0}
  BY PicturesAssumption
<1>2. a % SURFACE_NUM \in 0..SURFACE_NUM - 1
  BY <1>1, DivMod
<1>3. a < b \/ b < a
  OBVIOUS
<1> QED
  BY <1>1, <1>2, <1>3, ModApart

LEMMA ShownFacts ==
  ASSUME NEW P, Period(P), NEW base \in Nat, NEW j \in Nat, NEW k \in Nat,
         j < k, k - j <= num_ref_frames
  PROVE  /\ ShownAt(P, base, j) \in Nat /\ ShownAt(P, base, k) \in Nat
         /\ ShownAt(P, base, j) < ShownAt(P, base, k)
         /\ ShownAt(P, base, k) - ShownAt(P, base, j) < SURFACE_NUM
         /\ j * P \in Nat /\ k * P \in Nat /\ j * P < k * P
<1>1. P \in Nat \ {0} /\ num_ref_frames \in Nat /\ SURFACE_NUM \in Nat
  BY PicturesAssumption DEF Period
<1>2. num_ref_frames * P < SURFACE_NUM /\ num_ref_frames * P \in Nat
  BY <1>1 DEF Period
<1>3. j * P \in Nat /\ k * P \in Nat /\ j * P + P <= k * P
  BY <1>1, TimesApart
<1>4. k * P - j * P <= num_ref_frames * P
  BY <1>1, TimesNear
<1> QED
  BY <1>1, <1>2, <1>3, <1>4 DEF ShownAt

LEMMA RefsFacts ==
  ASSUME NEW P, Period(P), NEW base \in Nat, NEW c \in Nat
  PROVE  LET refs == Refs(P, base, c)
         IN  /\ refs \in Seq(ToSet(refs)) /\ Len(refs) = Kept(c)
             /\ DOMAIN refs = 1..Kept(c)
             /\ refs \in [1..Kept(c) -> ToSet(refs)]
             /\ ToSet(refs) = {refs[i] : i \in 1..Kept(c)}
             /\ \A i \in 1..Kept(c) : refs[i] = Ref(P, base, c - i)
             /\ c = 0 => refs = <<>> /\ ToSet(refs) = {}
<1> DEFINE refs == Refs(P, base, c)
           n == Kept(c)
<1>1. n \in Nat /\ (c = 0 => n = 0)
  BY KeptFacts
<1>2. DOMAIN refs = 1..n /\ refs = [i \in 1..n |-> Ref(P, base, c - i)]
  BY DEF Refs
<1> HIDE DEF refs, n
<1>3. ToSet(refs) = {refs[i] : i \in 1..n}
  BY <1>2 DEF ToSet
<1>4. refs \in [1..n -> ToSet(refs)]
  BY <1>2, <1>3
<1>5. refs \in Seq(ToSet(refs)) /\ Len(refs) = n
  BY <1>1, <1>4, FunctionIsSeq
<1>6. \A i \in 1..n : refs[i] = Ref(P, base, c - i)
  BY <1>2
<1>7. c = 0 => refs = <<>> /\ ToSet(refs) = {}
  <2>1. c = 0 => 1..n = {} /\ Len(refs) = 0
    BY <1>1, <1>5
  <2> QED
    BY <1>3, <1>5, <2>1
<1> QED
  BY <1>2, <1>3, <1>4, <1>5, <1>6, <1>7 DEF refs, n

FrameList(P, base, c) == [i \in 1..Kept(c) |-> Frame(P, base, c - i)]

LEMMA FramesFacts ==
  ASSUME NEW P, Period(P), NEW base \in Nat, NEW c \in Nat
  PROVE  LET list == FrameList(P, base, c)
             dpb == Frames(P, base, c)
         IN  /\ list \in [1..Kept(c) -> dpb]
             /\ dpb = {list[i] : i \in 1..Kept(c)}
             /\ \A i \in 1..Kept(c) : list[i] = Frame(P, base, c - i)
             /\ c = 0 => dpb = {}
<1>1. c = 0 => 1..Kept(c) = {}
  BY KeptFacts
<1> QED
  BY <1>1 DEF FrameList, Frames

(* The list has the references of the set, by falling number.              *)
FallingNumbers(list, c, refs, number) ==
  /\ c \in Nat \ {0} /\ list \in [1..Kept(c) -> refs]
  /\ refs = {list[i] : i \in 1..Kept(c)}
  /\ \A i \in 1..Kept(c) : number[list[i]] = -(c - i)

LEMMA LatestFirst ==
  ASSUME NEW list, NEW c, NEW refs, NEW number,
         FallingNumbers(list, c, refs, number)
  PROVE  /\ SortedBy(refs, number) \in [1..Kept(c) -> refs]
         /\ SortedBy(refs, number)[1] = list[1] /\ list[1] \in refs
<1>1. SortedList(list, Kept(c), refs, number)
  <2> DEFINE n == Kept(c)
  <2>1. n \in Nat \ {0} /\ c \in Nat
    BY KeptFacts DEF FallingNumbers
  <2>2. list \in [1..n -> refs] /\ refs = {list[i] : i \in 1..n}
    BY DEF FallingNumbers
  <2> DEFINE nr(i) == number[list[i]]
  <2>6. \A i \in 1..n : nr(i) = -(c - i)
    BY DEF FallingNumbers
  <2> HIDE DEF n, nr
  <2>7. \A i \in 1..n : c - i \in Int /\ -(c - i) \in Int
    BY <2>1
  <2>8. \A i \in 1..n : nr(i) \in Int
    BY <2>6, <2>7
  <2>9. \A i, j \in 1..n : i < j => nr(i) < nr(j)
    BY <2>1, <2>6
  <2>3. \A i \in 1..n : number[list[i]] \in Int
    BY <2>8 DEF nr
  <2>4. \A i, j \in 1..n : i < j => number[list[i]] < number[list[j]]
    BY <2>9 DEF nr
  <2>5. SortedList(list, n, refs, number)
    BY <2>1, <2>2, <2>3, <2>4 DEF SortedList
  <2> QED
    BY <2>5 DEF n
<1> QED
  BY <1>1, SortedFirst

(* The driver's list of a P picture.                                       *)
LEMMA DriverP ==
  ASSUME NEW P, Period(P), NEW base \in Nat, NEW c \in Nat \ {0}, NEW poc
  PROVE  LET held == ToSet(Refs(P, base, c))
             lists == update_RefPicList("P", held, poc)
         IN  /\ Len(lists) = 1 /\ lists[1][1] = Ref(P, base, c - 1)
             /\ Ref(P, base, c - 1) \in held
<1> DEFINE list == Refs(P, base, c)
           held == ToSet(list)
           number == [r \in held |-> -r.frame_idx]
           lists == update_RefPicList("P", held, poc)
<1>1. /\ list \in [1..Kept(c) -> held] /\ held = {list[i] : i \in 1..Kept(c)}
      /\ \A i \in 1..Kept(c) : list[i] = Ref(P, base, c - i)
  BY RefsFacts
<1>2. Kept(c) \in Nat \ {0} /\ 1 \in 1..Kept(c)
  BY KeptFacts
<1>3. lists = <<SortedBy(held, number)>>
  BY DEF update_RefPicList
<1> HIDE DEF list, held, lists
<1>4. \A i \in 1..Kept(c) : number[list[i]] = -(c - i)
  <2> TAKE i \in 1..Kept(c)
  <2>1. list[i] \in held /\ list[i] = Ref(P, base, c - i)
    BY <1>1
  <2>2. list[i].frame_idx = c - i
    BY <2>1 DEF Ref
  <2> QED
    BY <2>1, <2>2
<1> HIDE DEF number
<1>5. FallingNumbers(list, c, held, number)
  BY <1>1, <1>4 DEF FallingNumbers
<1>6. SortedBy(held, number)[1] = list[1] /\ list[1] \in held
  BY <1>5, LatestFirst
<1>7. list[1] = Ref(P, base, c - 1)
  BY <1>1, <1>2
<1>8. Len(lists) = 1 /\ lists[1] = SortedBy(held, number)
  BY <1>3
<1>9. /\ Len(lists) = 1 /\ lists[1][1] = Ref(P, base, c - 1)
      /\ Ref(P, base, c - 1) \in held
  BY <1>6, <1>7, <1>8
<1> QED
  BY <1>9 DEF lists, held, list

LEMMA FallingCounts ==
  ASSUME NEW P, Period(P), NEW c \in Nat
  PROVE  /\ \A i \in 1..Kept(c) : (c - i) * P \in Nat
         /\ \A i, j \in 1..Kept(c) : i < j => (c - j) * P < (c - i) * P
<1>1. P \in Nat \ {0} /\ Kept(c) \in Nat
  BY KeptFacts DEF Period
<1>2. \A i \in 1..Kept(c) : c - i \in Nat
  BY KeptFacts
<1>3. \A i \in 1..Kept(c) : (c - i) * P \in Nat
  BY <1>1, <1>2
<1>4. ASSUME NEW i \in 1..Kept(c), NEW j \in 1..Kept(c), i < j
      PROVE  (c - j) * P < (c - i) * P
  <2> DEFINE a == c - j
             b == c - i
  <2>1. a \in Nat /\ b \in Nat /\ a < b
    BY <1>1, <1>2, <1>4
  <2> HIDE DEF a, b
  <2>2. a * P \in Nat /\ b * P \in Nat /\ a * P + P <= b * P
    BY <1>1, <2>1, TimesApart
  <2>3. a * P < b * P
    BY <1>1, <2>2
  <2> QED
    BY <2>3 DEF a, b
<1> QED
  BY <1>3, <1>4

(* The driver's lists of a B picture.                                      *)
LEMMA DriverB ==
  ASSUME NEW P, Period(P), NEW base \in Nat, NEW c \in Nat, c >= 2,
         NEW poc \in Int, (c - 2) * P < poc, poc < (c - 1) * P
  PROVE  LET held == ToSet(Refs(P, base, c))
             lists == update_RefPicList("B", held, poc)
         IN  /\ Len(lists) = 2
             /\ lists[1][1] = Ref(P, base, c - 2)
             /\ lists[2][1] = Ref(P, base, c - 1)
             /\ Ref(P, base, c - 1) \in held /\ Ref(P, base, c - 2) \in held
             /\ SidesExist(held, poc)
<1> DEFINE refs == Refs(P, base, c)
           held == ToSet(refs)
           lists == update_RefPicList("B", held, poc)
           m == Kept(c)
<1>1. /\ refs \in [1..m -> held] /\ held = {refs[i] : i \in 1..m}
      /\ \A i \in 1..m : refs[i] = Ref(P, base, c - i)
  BY RefsFacts, ZenonT(60)
<1>2. m \in Nat /\ m >= 2 /\ 1 \in 1..m /\ 2 \in 1..m
  BY KeptFacts
<1>3. lists = <<NearBefore(held, poc), NearAfter(held, poc)>>
  BY DEF update_RefPicList, NearBefore, NearAfter
<1>4. \A i \in 1..m : refs[i].poc = (c - i) * P
  BY <1>1 DEF Ref
<1>5. /\ \A i \in 1..m : (c - i) * P \in Nat
      /\ \A i, j \in 1..m : i < j => (c - j) * P < (c - i) * P
  BY FallingCounts
<1> HIDE DEF refs, held, lists, m
<1>6. /\ \A i \in 1..m : refs[i].poc \in Int
      /\ \A i, j \in 1..m : i < j => refs[j].poc < refs[i].poc
      /\ refs[2].poc < poc /\ poc < refs[1].poc
  BY <1>2, <1>4, <1>5
<1>7. /\ NearBefore(held, poc)[1] = refs[2]
      /\ NearAfter(held, poc)[1] = refs[1]
      /\ refs[1] \in held /\ refs[2] \in held
  <2>1. Surrounds(refs, m, held, poc)
    BY <1>1, <1>2, <1>6 DEF Surrounds
  <2> QED
    BY <2>1, SortedAround
<1>8. /\ Len(lists) = 2 /\ lists[1] = NearBefore(held, poc)
      /\ lists[2] = NearAfter(held, poc)
  BY <1>3
<1>9. refs[1] = Ref(P, base, c - 1) /\ refs[2] = Ref(P, base, c - 2)
  BY <1>1, <1>2
<1>10. SidesExist(held, poc)
  BY <1>6, <1>7 DEF SidesExist
<1>11. /\ Len(lists) = 2
       /\ lists[1][1] = Ref(P, base, c - 2)
       /\ lists[2][1] = Ref(P, base, c - 1)
       /\ Ref(P, base, c - 1) \in held /\ Ref(P, base, c - 2) \in held
  BY <1>7, <1>8, <1>9
<1> QED
  BY <1>10, <1>11 DEF lists, held, refs

(* The decoder's list of a P picture.                                      *)
LEMMA DecoderP ==
  ASSUME NEW P, Period(P), NEW base \in Nat, NEW c \in Nat \ {0}, NEW poc,
         NEW h, NEW sps, h["slice_type"] = 0, h["frame_num"] = c
  PROVE  LET lists == DecodedLists(h, Frames(P, base, c), poc, sps)
         IN  /\ Len(lists) = 1 /\ lists[1] # <<>>
             /\ lists[1][1].display = ShownAt(P, base, c - 1)
<1> DEFINE frames == FrameList(P, base, c)
           dpb == Frames(P, base, c)
           far == FieldRange(sps, "log2_max_frame_num_minus4")
           number == [f \in dpb |-> -(IF f.frame_num > c
                                      THEN f.frame_num - far ELSE f.frame_num)]
           lists == DecodedLists(h, dpb, poc, sps)
<1>1. /\ frames \in [1..Kept(c) -> dpb] /\ dpb = {frames[i] : i \in 1..Kept(c)}
      /\ \A i \in 1..Kept(c) : frames[i] = Frame(P, base, c - i)
  BY FramesFacts, SMTT(30)
<1>2. /\ Kept(c) \in Nat \ {0} /\ 1 \in 1..Kept(c)
      /\ \A i \in 1..Kept(c) : c - i \in Nat /\ c - i < c
  BY KeptFacts
<1>3. lists = <<SortedBy(dpb, number)>>
  BY DEF DecodedLists
<1> HIDE DEF frames, dpb, lists, far
<1>4. \A i \in 1..Kept(c) : number[frames[i]] = -(c - i)
  <2> TAKE i \in 1..Kept(c)
  <2>1. frames[i] \in dpb /\ frames[i] = Frame(P, base, c - i)
    BY <1>1
  <2>2. frames[i].frame_num = c - i
    BY <2>1 DEF Frame
  <2>3. ~(c - i > c)
    BY <1>2
  <2>4. ~(frames[i].frame_num > c)
    BY <2>2, <2>3
  <2>5. number[frames[i]] = -(frames[i].frame_num)
    BY <2>1, <2>4
  <2> QED
    BY <2>2, <2>5
<1> HIDE DEF number
<1>5. FallingNumbers(frames, c, dpb, number)
  BY <1>1, <1>4 DEF FallingNumbers
<1>6. /\ SortedBy(dpb, number) \in [1..Kept(c) -> dpb]
      /\ SortedBy(dpb, number)[1] = frames[1]
  BY <1>5, LatestFirst
<1>7. frames[1] = Frame(P, base, c - 1)
  BY <1>1, <1>2
<1>8. SortedBy(dpb, number) # <<>>
  BY <1>2, <1>6
<1>9. Len(lists) = 1 /\ lists[1] = SortedBy(dpb, number)
  BY <1>3
<1>10. frames[1].display = ShownAt(P, base, c - 1)
  BY <1>7 DEF Frame
<1>11. /\ Len(lists) = 1 /\ lists[1] # <<>>
       /\ lists[1][1].display = ShownAt(P, base, c - 1)
  BY <1>6, <1>8, <1>9, <1>10
<1> QED
  BY <1>11 DEF lists, dpb

LEMMA ListsOfB ==
  ASSUME NEW h, NEW dpb, NEW poc, NEW sps, h["slice_type"] = 1
  PROVE  LET l0 == NearBefore(dpb, poc)
             l1 == NearAfter(dpb, poc)
         IN  DecodedLists(h, dpb, poc, sps)
               = <<l0, IF Len(l1) > 1 /\ l0 = l1
                       THEN <<l1[2], l1[1]>> \o SubSeq(l1, 3, Len(l1))
                       ELSE l1>>
<1>1. h["slice_type"] # 0
  OBVIOUS
<1> QED
  BY <1>1 DEF DecodedLists, NearBefore, NearAfter

(* The decoder's lists of a B picture.                                     *)
LEMMA DecoderB ==
  ASSUME NEW P, Period(P), NEW base \in Nat, NEW c \in Nat, c >= 2,
         NEW poc \in Int, (c - 2) * P < poc, poc < (c - 1) * P,
         NEW h, NEW sps, h["slice_type"] = 1
  PROVE  LET lists == DecodedLists(h, Frames(P, base, c), poc, sps)
         IN  /\ Len(lists) = 2 /\ lists[1] # <<>> /\ lists[2] # <<>>
             /\ lists[1][1].display = ShownAt(P, base, c - 2)
             /\ lists[2][1].display = ShownAt(P, base, c - 1)
<1> DEFINE frames == FrameList(P, base, c)
           dpb == Frames(P, base, c)
           m == Kept(c)
           lists == DecodedLists(h, dpb, poc, sps)
<1>1. /\ frames \in [1..m -> dpb] /\ dpb = {frames[i] : i \in 1..m}
      /\ \A i \in 1..m : frames[i] = Frame(P, base, c - i)
  <2>1. /\ frames \in [1..Kept(c) -> dpb]
        /\ dpb = {frames[i] : i \in 1..Kept(c)}
        /\ \A i \in 1..Kept(c) : frames[i] = Frame(P, base, c - i)
        /\ c = 0 => dpb = {}
    BY FramesFacts
  <2> QED
    BY <2>1
<1>2. m \in Nat /\ m >= 2 /\ 1 \in 1..m /\ 2 \in 1..m
  BY KeptFacts
<1>3. \A i \in 1..m : frames[i].poc = (c - i) * P
  BY <1>1 DEF Frame
<1>4. /\ \A i \in 1..m : (c - i) * P \in Nat
      /\ \A i, j \in 1..m : i < j => (c - j) * P < (c - i) * P
  BY FallingCounts
<1> DEFINE l0 == NearBefore(dpb, poc)
           l1 == NearAfter(dpb, poc)
<1>5. lists = <<l0, IF Len(l1) > 1 /\ l0 = l1
                    THEN <<l1[2], l1[1]>> \o SubSeq(l1, 3, Len(l1)) ELSE l1>>
  BY ListsOfB
<1> HIDE DEF frames, dpb, m, lists
<1>6. /\ \A i \in 1..m : frames[i].poc \in Int
      /\ \A i, j \in 1..m : i < j => frames[j].poc < frames[i].poc
      /\ frames[2].poc < poc /\ poc < frames[1].poc
  BY <1>2, <1>3, <1>4
<1>7. Surrounds(frames, m, dpb, poc)
  BY <1>1, <1>2, <1>6 DEF Surrounds
<1>8. /\ l0 # <<>> /\ l1 # <<>> /\ l0[1] = frames[2] /\ l1[1] = frames[1]
      /\ frames[1] # frames[2]
  BY <1>7, SortedAround
<1> HIDE DEF l0, l1
<1>9. l0 # l1
  BY <1>8
<1>10. lists = <<l0, l1>>
  BY <1>5, <1>9
<1>11. Len(lists) = 2 /\ lists[1] = l0 /\ lists[2] = l1
  BY <1>10
<1>12. /\ frames[1] = Frame(P, base, c - 1) /\ frames[2] = Frame(P, base, c - 2)
  BY <1>1, <1>2
<1>13. /\ frames[1].display = ShownAt(P, base, c - 1)
       /\ frames[2].display = ShownAt(P, base, c - 2)
  BY <1>12 DEF Frame
<1>14. /\ Len(lists) = 2 /\ lists[1] # <<>> /\ lists[2] # <<>>
       /\ lists[1][1].display = ShownAt(P, base, c - 2)
       /\ lists[2][1].display = ShownAt(P, base, c - 1)
  BY <1>8, <1>11, <1>13
<1> QED
  BY <1>14 DEF lists, dpb

LEMMA PutBefore ==
  ASSUME NEW S, NEW x \in S, NEW s \in Seq(S)
  PROVE  /\ <<x>> \o s \in Seq(S) /\ Len(<<x>> \o s) = 1 + Len(s)
         /\ (<<x>> \o s)[1] = x
         /\ \A i \in 1..Len(s) : (<<x>> \o s)[1 + i] = s[i]
<1>1. <<x>> \in Seq(S) /\ Len(<<x>>) = 1
  OBVIOUS
<1> DEFINE one == <<x>>
<1>2. Len(one) = 1 /\ one[1] = x
  BY <1>1
<1>5. one \in Seq(S)
  BY <1>1
<1> HIDE DEF one
<1>3. /\ one \o s \in Seq(S) /\ Len(one \o s) = Len(one) + Len(s)
      /\ \A i \in 1..Len(one) : (one \o s)[i] = one[i]
      /\ \A i \in 1..Len(s) : (one \o s)[Len(one) + i] = s[i]
  BY <1>5, JoinedSeqs
<1>4. 1 \in 1..Len(one)
  BY <1>2
<1> QED
  BY <1>2, <1>3, <1>4 DEF one

(* A reference picture joins those that are kept; beyond num_ref_frames    *)
(* the oldest one leaves, on either side.                                  *)
LEMMA RefsGrow ==
  ASSUME NEW P, Period(P), NEW base \in Nat, NEW c \in Nat, NEW type,
         type # "B"
  PROVE  update_ReferenceFrames(type, Refs(P, base, c), Ref(P, base, c))
           = Refs(P, base, c + 1)
<1> DEFINE refs == Refs(P, base, c)
           cur == Ref(P, base, c)
           m == Kept(c)
           k == Kept(c + 1)
           T == {cur} \cup ToSet(refs)
           joined == <<cur>> \o refs
<1>1. /\ refs \in Seq(ToSet(refs)) /\ Len(refs) = m
      /\ \A i \in 1..m : refs[i] = Ref(P, base, c - i)
  BY RefsFacts, ZenonT(60)
<1>2. /\ m \in Nat /\ k \in Nat /\ num_ref_frames \in Nat
      /\ k = IF m < num_ref_frames THEN m + 1 ELSE num_ref_frames
      /\ m <= num_ref_frames /\ k <= m + 1
  BY KeptFacts, PicturesAssumption
<1>3. update_ReferenceFrames(type, refs, cur)
        = SubSeq(joined, 1, IF Len(refs) < num_ref_frames THEN Len(refs) + 1
                       ELSE num_ref_frames)
  BY DEF update_ReferenceFrames
<1>4. update_ReferenceFrames(type, refs, cur) = SubSeq(joined, 1, k)
  BY <1>1, <1>2, <1>3
<1>5. refs \in Seq(T) /\ cur \in T
  BY <1>1
<1> HIDE DEF refs, m, k, T, cur
<1>8. /\ joined \in Seq(T) /\ Len(joined) = 1 + m /\ joined[1] = cur
      /\ \A i \in 1..m : joined[1 + i] = refs[i]
  BY <1>1, <1>5, PutBefore
<1> HIDE DEF joined
<1>9. \A i \in 1..k : joined[i] = Ref(P, base, (c + 1) - i)
  <2> TAKE i \in 1..k
  <2>1. CASE i = 1
    <3>1. (c + 1) - i = c /\ 1 \in 1..1
      BY <2>1
    <3> QED
      BY <1>8, <2>1, <3>1 DEF cur
  <2>2. CASE i # 1
    <3>1. i - 1 \in 1..m /\ 1 + (i - 1) = i /\ c - (i - 1) = (c + 1) - i
      BY <1>2, <2>2
    <3>2. joined[1 + (i - 1)] = refs[i - 1] /\ refs[i - 1] = Ref(P, base, c - (i - 1))
      BY <1>1, <1>8, <3>1
    <3> QED
      BY <3>1, <3>2
  <2> QED
    BY <2>1, <2>2
<1>10. SubSeq(joined, 1, k) = [i \in 1..k |-> joined[i]]
  <2>1. k \in 0..Len(joined)
    BY <1>2, <1>8
  <2> QED
    BY <1>2, <1>8, <2>1
<1>11. SubSeq(joined, 1, k) = [i \in 1..k |-> Ref(P, base, (c + 1) - i)]
  BY <1>9, <1>10
<1> QED
  BY <1>4, <1>11 DEF Refs, refs, cur, k

LEMMA FramesGrow ==
  ASSUME NEW P, Period(P), NEW base \in Nat, NEW c \in Nat
  PROVE  SlidingWindow(Frames(P, base, c), Frame(P, base, c), num_ref_frames)
           = Frames(P, base, c + 1)
<1> DEFINE fr(k) == Frame(P, base, k)
           dpb == Frames(P, base, c)
           m == Kept(c)
           N == num_ref_frames
           oldest == CHOOSE r \in dpb : \A q \in dpb : r.frame_num <= q.frame_num
<1>1. /\ m \in Nat /\ m <= c /\ N \in Nat \ {0}
      /\ c < N => m = c /\ Kept(c + 1) = c + 1
      /\ c >= N => m = N /\ Kept(c + 1) = N
      /\ \A i \in 1..m : c - i \in Nat
  BY KeptFacts, PicturesAssumption
<1>2. dpb = {fr(c - i) : i \in 1..m}
  BY DEF Frames
<1>3. Frames(P, base, c + 1) = {fr((c + 1) - i) : i \in 1..Kept(c + 1)}
  BY DEF Frames
<1>4. \A j, k \in Nat : fr(j).frame_num = j /\ (j # k => fr(j) # fr(k))
  <2>1. \A j : fr(j).frame_num = j
    BY DEF Frame
  <2> QED
    BY <2>1
<1> HIDE DEF fr
<1>5. Cardinality(dpb) = m
  <2> DEFINE list == [i \in 1..m |-> fr(c - i)]
  <2>1. list \in [1..m -> dpb] /\ dpb = {list[i] : i \in 1..m}
    BY <1>2
  <2>2. \A i, j \in 1..m : i < j => list[i] # list[j]
    <3> TAKE i, j \in 1..m
    <3> HAVE i < j
    <3>1. c - i \in Nat /\ c - j \in Nat /\ c - i # c - j
      BY <1>1
    <3>2. fr(c - i) # fr(c - j)
      BY <1>4, <3>1
    <3> QED
      BY <3>2
  <2> HIDE DEF list, dpb, m
  <2> QED
    BY <1>1, <2>1, <2>2, RisingSize
<1>6. SlidingWindow(dpb, fr(c), N)
        = {fr(c)} \cup IF Cardinality(dpb) < N THEN dpb ELSE dpb \ {oldest}
  BY DEF SlidingWindow
<1> HIDE DEF dpb, m
<1>7. CASE c < N
  <2>1. SlidingWindow(dpb, fr(c), N) = {fr(c)} \cup dpb
    BY <1>1, <1>5, <1>6, <1>7
  <2>2. /\ \A i \in 1..c + 1 :
             \/ i = 1 /\ (c + 1) - i = c
             \/ i - 1 \in 1..c /\ (c + 1) - i = c - (i - 1)
        /\ \A i \in 1..c : i + 1 \in 1..c + 1 /\ (c + 1) - (i + 1) = c - i
        /\ 1 \in 1..c + 1 /\ (c + 1) - 1 = c
    OBVIOUS
  <2>3. {fr(c)} \cup {fr(c - i) : i \in 1..c} = {fr((c + 1) - i) : i \in 1..c + 1}
    <3> DEFINE L == {fr(c)} \cup {fr(c - i) : i \in 1..c}
               R == {fr((c + 1) - i) : i \in 1..c + 1}
    <3>1. \A q \in L : q \in R
      <4> TAKE q \in L
      <4>1. CASE q = fr(c)
        BY <2>2, <4>1
      <4>2. CASE q # fr(c)
        <5>1. PICK i \in 1..c : q = fr(c - i)
          BY <4>2
        <5>2. i + 1 \in 1..c + 1 /\ q = fr((c + 1) - (i + 1))
          BY <2>2, <5>1
        <5> QED
          BY <5>2
      <4> QED
        BY <4>1, <4>2
    <3>2. \A q \in R : q \in L
      <4> TAKE q \in R
      <4>1. PICK i \in 1..c + 1 : q = fr((c + 1) - i)
        OBVIOUS
      <4>2. CASE i = 1
        BY <2>2, <4>1, <4>2
      <4>3. CASE i # 1
        <5>1. i - 1 \in 1..c /\ q = fr(c - (i - 1))
          BY <2>2, <4>1, <4>3
        <5> QED
          BY <5>1
      <4> QED
        BY <4>2, <4>3
    <3> QED
      BY <3>1, <3>2
  <2> QED
    BY <1>1, <1>2, <1>3, <1>7, <2>1, <2>3 DEF fr, dpb
<1>8. CASE c >= N
  <2>1. m = N /\ N \in 1..N /\ c - N \in Nat
    BY <1>1, <1>8
  <2>2. fr(c - N) \in dpb
    BY <1>2, <2>1
  <2>3. \A q \in dpb : \E i \in 1..N : q = fr(c - i) /\ q.frame_num = c - i
    BY <1>1, <1>2, <1>4, <2>1
  <2>4. fr(c - N).frame_num = c - N
    BY <1>4, <2>1
  <2>5. \A q \in dpb : fr(c - N).frame_num <= q.frame_num
    <3> TAKE q \in dpb
    <3>1. PICK i \in 1..N : q.frame_num = c - i
      BY <2>3
    <3>2. c - N <= c - i
      BY <1>1
    <3> QED
      BY <2>4, <3>1, <3>2
  <2>6. oldest \in dpb /\ \A q \in dpb : oldest.frame_num <= q.frame_num
    BY <2>2, <2>5
  <2>7. oldest = fr(c - N)
    <3>1. PICK i \in 1..N : oldest = fr(c - i) /\ oldest.frame_num = c - i
      BY <2>3, <2>6
    <3>2. c - i <= c - N
      BY <2>2, <2>4, <2>6, <3>1
    <3>3. i = N
      BY <1>1, <1>8, <3>2
    <3> QED
      BY <3>1, <3>3
  <2> HIDE DEF oldest
  <2>8. SlidingWindow(dpb, fr(c), N) = {fr(c)} \cup (dpb \ {fr(c - N)})
    BY <1>1, <1>5, <1>6, <2>1, <2>7
  <2>9. dpb \ {fr(c - N)} = {fr(c - i) : i \in 1..N - 1}
    <3>1. 1..N = 1..(N - 1) \cup {N}
      BY <1>1
    <3>2. \A i \in 1..N - 1 : c - i \in Nat /\ c - i # c - N
      BY <1>1, <1>8
    <3>3. \A i \in 1..N - 1 : fr(c - i) # fr(c - N)
      BY <1>4, <2>1, <3>2
    <3>4. dpb = {fr(c - i) : i \in 1..N - 1} \cup {fr(c - N)}
      BY <1>2, <2>1, <3>1
    <3> QED
      BY <3>3, <3>4
  <2>10. /\ \A i \in 1..N :
              \/ i = 1 /\ (c + 1) - i = c
              \/ i - 1 \in 1..N - 1 /\ (c + 1) - i = c - (i - 1)
         /\ \A i \in 1..N - 1 : i + 1 \in 1..N /\ (c + 1) - (i + 1) = c - i
         /\ 1 \in 1..N /\ (c + 1) - 1 = c
    BY <1>1
  <2>11. {fr(c)} \cup {fr(c - i) : i \in 1..N - 1}
           = {fr((c + 1) - i) : i \in 1..N}
    BY <2>10
  <2> QED
    BY <1>1, <1>3, <1>8, <2>8, <2>9, <2>11 DEF fr, dpb
<1> QED
  BY <1>1, <1>7, <1>8

(* No picture that is kept shares its surface with another one.            *)
LEMMA RefsApart ==
  ASSUME NEW P, Period(P), NEW base \in Nat, NEW c \in Nat,
         NEW i \in 1..Kept(c), NEW j \in 1..Kept(c), i < j
  PROVE  Ref(P, base, c - i).picture_id # Ref(P, base, c - j).picture_id
<1>1. /\ Kept(c) \in Nat /\ Kept(c) <= num_ref_frames
      /\ \A k \in 1..Kept(c) : c - k \in Nat
  BY KeptFacts
<1>2. num_ref_frames \in Nat
  BY PicturesAssumption
<1> DEFINE a == c - j
           b == c - i
<1>3. a \in Nat /\ b \in Nat /\ a < b /\ b - a <= num_ref_frames
  BY <1>1, <1>2
<1> HIDE DEF a, b
<1>4. /\ ShownAt(P, base, a) \in Nat /\ ShownAt(P, base, b) \in Nat
      /\ ShownAt(P, base, a) < ShownAt(P, base, b)
      /\ ShownAt(P, base, b) - ShownAt(P, base, a) < SURFACE_NUM
  BY <1>3, ShownFacts
<1>5. ShownAt(P, base, a) % SURFACE_NUM # ShownAt(P, base, b) % SURFACE_NUM
  <2> DEFINE x == ShownAt(P, base, a)
             y == ShownAt(P, base, b)
  <2>1. SURFACE_NUM \in Nat \ {0}
    BY PicturesAssumption
  <2>2. x \in Nat /\ y \in Nat /\ x < y /\ y - x < SURFACE_NUM
    BY <1>4
  <2> HIDE DEF x, y
  <2>3. x % SURFACE_NUM # y % SURFACE_NUM
    BY <2>1, <2>2, ModApart
  <2> QED
    BY <2>3 DEF x, y
<1>6. \A k : Ref(P, base, k).picture_id = ShownAt(P, base, k) % SURFACE_NUM
  BY DEF Ref
<1>7. Ref(P, base, a).picture_id # Ref(P, base, b).picture_id
  BY <1>5, <1>6
<1> QED
  BY <1>7 DEF a, b

(* Nor does the next one destroy a picture that is kept.                   *)
LEMMA SurfaceFree ==
  ASSUME NEW rec \in [0..SURFACE_NUM - 1 -> Int], NEW shown \in Nat,
         NEW x \in Nat, x # shown, x - shown < SURFACE_NUM,
         shown - x < SURFACE_NUM, rec[x % SURFACE_NUM] = x
  PROVE  [rec EXCEPT ![shown % SURFACE_NUM] = shown][x % SURFACE_NUM] = x
<1>1. /\ x % SURFACE_NUM \in 0..SURFACE_NUM - 1
      /\ x % SURFACE_NUM # shown % SURFACE_NUM
  BY SurfacesApart
<1> QED
  BY <1>1

LEMMA SurfaceTaken ==
  ASSUME NEW rec \in [0..SURFACE_NUM - 1 -> Int], NEW shown \in Nat
  PROVE  /\ [rec EXCEPT ![shown % SURFACE_NUM] = shown]
              \in [0..SURFACE_NUM - 1 -> Int]
         /\ [rec EXCEPT ![shown % SURFACE_NUM] = shown][shown % SURFACE_NUM]
              = shown
<1>1. SURFACE_NUM \in Nat \ {0}
  BY PicturesAssumption
<1>2. shown % SURFACE_NUM \in 0..SURFACE_NUM - 1
  BY <1>1, DivMod
<1> QED
  BY <1>2

LEMMA ReferenceStored ==
  ASSUME NEW P, Period(P), NEW base \in Nat, NEW c \in Nat,
         NEW rec \in [0..SURFACE_NUM - 1 -> Int], Stored(P, base, c, rec),
         NEW shown, shown = ShownAt(P, base, c)
  PROVE  Stored(P, base, c + 1, [rec EXCEPT ![shown % SURFACE_NUM] = shown])
<1> DEFINE rec2 == [rec EXCEPT ![shown % SURFACE_NUM] = shown]
           at(k) == ShownAt(P, base, k)
<1>1. /\ Kept(c) \in Nat /\ Kept(c + 1) \in Nat /\ Kept(c + 1) <= Kept(c) + 1
      /\ Kept(c + 1) <= num_ref_frames /\ num_ref_frames \in Nat
      /\ \A i \in 1..Kept(c) : c - i \in Nat
  <2> DEFINE d == c + 1
  <2>1. d \in Nat
    OBVIOUS
  <2>2. /\ Kept(c) \in Nat /\ \A i \in 1..Kept(c) : c - i \in Nat
        /\ d = c + 1
        /\ Kept(d) = IF Kept(c) < num_ref_frames THEN Kept(c) + 1
                     ELSE num_ref_frames
        /\ Kept(c) <= num_ref_frames
    BY KeptFacts
  <2> HIDE DEF d
  <2>3. Kept(d) \in Nat /\ Kept(d) <= num_ref_frames
    BY <2>1, KeptFacts
  <2>4. num_ref_frames \in Nat
    BY PicturesAssumption
  <2>5. Kept(d) <= Kept(c) + 1
    BY <2>2, <2>3, <2>4
  <2> QED
    BY <2>2, <2>3, <2>4, <2>5 DEF d
<1>2. \A k : Ref(P, base, k).picture_id = at(k) % SURFACE_NUM
  BY DEF Ref
<1>3. shown \in Nat /\ shown = at(c)
  <2>1. P \in Nat
    BY DEF Period
  <2>2. c * P \in Nat
    BY <2>1
  <2> QED
    BY <2>2 DEF ShownAt
<1>4. \A i \in 1..Kept(c) : rec[at(c - i) % SURFACE_NUM] = at(c - i)
  BY <1>2 DEF Stored
<1>5. \A i \in 1..Kept(c + 1) :
        rec2[at((c + 1) - i) % SURFACE_NUM] = at((c + 1) - i)
  <2> TAKE i \in 1..Kept(c + 1)
  <2>1. CASE i = 1
    <3>1. (c + 1) - i = c
      BY <2>1
    <3>2. rec2[shown % SURFACE_NUM] = shown
      BY <1>3, SurfaceTaken
    <3> QED
      BY <1>3, <3>1, <3>2
  <2>2. CASE i # 1
    <3> DEFINE k == (c + 1) - i
               x == at(k)
    <3>1. i - 1 \in 1..Kept(c) /\ k = c - (i - 1)
      BY <1>1, <2>2
    <3>2. k \in Nat /\ k < c /\ c - k <= num_ref_frames
      BY <1>1, <3>1
    <3>3. rec[x % SURFACE_NUM] = x
      BY <1>4, <3>1
    <3> HIDE DEF k
    <3>4. /\ at(k) \in Nat /\ at(k) < at(c) /\ at(c) - at(k) < SURFACE_NUM
          /\ at(c) \in Nat
      BY <3>2, ShownFacts
    <3> HIDE DEF x, at
    <3>5. /\ x \in Nat /\ x # shown /\ x - shown < SURFACE_NUM
          /\ shown - x < SURFACE_NUM
      BY <1>3, <3>4, PicturesAssumption DEF x
    <3>6. rec2[x % SURFACE_NUM] = x
      BY <1>3, <3>3, <3>5, SurfaceFree
    <3> QED
      BY <3>6 DEF x, k
  <2> QED
    BY <2>1, <2>2
<1>6. \A i \in 1..Kept(c + 1) :
        rec2[Ref(P, base, (c + 1) - i).picture_id] = ShownAt(P, base, (c + 1) - i)
  BY <1>2, <1>5
<1> QED
  BY <1>6 DEF Stored

LEMMA BStored ==
  ASSUME NEW P, Period(P), NEW base \in Nat, NEW c \in Nat, c >= 2,
         NEW rec \in [0..SURFACE_NUM - 1 -> Int], Stored(P, base, c, rec),
         NEW d \in Int, (c - 2) * P < d, d < (c - 1) * P,
         NEW shown, shown = base + d
  PROVE  Stored(P, base, c, [rec EXCEPT ![shown % SURFACE_NUM] = shown])
<1> DEFINE rec2 == [rec EXCEPT ![shown % SURFACE_NUM] = shown]
           at(k) == ShownAt(P, base, k)
           late == at(c - 1)
           early == at(c - 2)
<1>1. /\ Kept(c) \in Nat /\ Kept(c) <= num_ref_frames /\ num_ref_frames \in Nat
      /\ \A i \in 1..Kept(c) : c - i \in Nat
      /\ c - 1 \in Nat /\ c - 2 \in Nat /\ 1 <= num_ref_frames
  BY KeptFacts, PicturesAssumption
<1>2. \A k : Ref(P, base, k).picture_id = at(k) % SURFACE_NUM
  BY DEF Ref
<1>3. /\ (c - 2) * P \in Nat /\ (c - 1) * P \in Nat
      /\ late = base + (c - 1) * P /\ early = base + (c - 2) * P
  <2>1. P \in Nat
    BY DEF Period
  <2> QED
    BY <1>1, <2>1 DEF ShownAt
<1>4. /\ late \in Nat /\ early \in Nat /\ shown \in Nat
      /\ early < shown /\ shown < late
  BY <1>3
<1>5. \A i \in 1..Kept(c) : rec[at(c - i) % SURFACE_NUM] = at(c - i)
  BY <1>2 DEF Stored
<1>6. \A i \in 1..Kept(c) : rec2[at(c - i) % SURFACE_NUM] = at(c - i)
  <2> TAKE i \in 1..Kept(c)
  <2> DEFINE k == c - i
             x == at(k)
  <2>1. k \in Nat /\ k <= c - 1 /\ (c - 1) - k <= num_ref_frames
    BY <1>1
  <2>2. rec[x % SURFACE_NUM] = x
    BY <1>5
  <2> HIDE DEF k
  <2>3. k = c - 1 \/ k = c - 2 \/ k < c - 2
    BY <1>1, <2>1
  <2>4. k < c - 1 => /\ at(k) \in Nat /\ at(k) < at(c - 1)
                     /\ at(c - 1) - at(k) < SURFACE_NUM
    <3> DEFINE e == c - 1
    <3>1. e \in Nat /\ e - k <= num_ref_frames
      BY <1>1, <2>1
    <3> HIDE DEF e
    <3>2. k < e => at(k) \in Nat /\ at(k) < at(e) /\ at(e) - at(k) < SURFACE_NUM
      BY <2>1, <3>1, ShownFacts
    <3> QED
      BY <3>2 DEF e
  <2>5. k < c - 2 => at(k) < at(c - 2)
    <3> DEFINE e == c - 2
    <3>1. e \in Nat /\ e - k <= num_ref_frames
      BY <1>1, <2>1
    <3> HIDE DEF e
    <3>2. k < e => at(k) < at(e)
      BY <2>1, <3>1, ShownFacts
    <3> QED
      BY <3>2 DEF e
  <2>6. late - early < SURFACE_NUM
    <3> DEFINE e == c - 1
               f == c - 2
    <3>1. e \in Nat /\ f \in Nat /\ f < e /\ e - f <= num_ref_frames
      BY <1>1
    <3> HIDE DEF e, f
    <3>2. at(e) - at(f) < SURFACE_NUM
      BY <3>1, ShownFacts
    <3> QED
      BY <3>2 DEF e, f
  <2>7. SURFACE_NUM \in Nat \ {0}
    BY PicturesAssumption
  <2> HIDE DEF x, at
  <2>8. k = c - 1 => x = late
    BY DEF x, late
  <2>9. k = c - 2 => x = early
    BY DEF x, early
  <2>10. k < c - 1 => x \in Nat /\ x < late /\ late - x < SURFACE_NUM
    BY <2>4 DEF x, late
  <2>11. k < c - 2 => x < early
    BY <2>5 DEF x, early
  <2> HIDE DEF late, early
  <2>12. /\ x \in Nat /\ x # shown /\ x - shown < SURFACE_NUM
         /\ shown - x < SURFACE_NUM
    <3>1. /\ late \in Nat /\ early \in Nat /\ shown \in Nat
          /\ early < shown /\ shown < late /\ SURFACE_NUM \in Nat
          /\ late - early < SURFACE_NUM
      BY <1>4, <2>6, <2>7 DEF late, early
    <3>2. CASE k = c - 1
      <4>1. x = late
        BY <2>8, <3>2
      <4> QED
        BY <3>1, <4>1
    <3>3. CASE k = c - 2
      <4>1. x = early
        BY <2>9, <3>3
      <4> QED
        BY <3>1, <4>1
    <3>4. CASE k < c - 2
      <4>1. k < c - 1
        BY <1>1, <2>1, <3>4
      <4>2. x \in Nat /\ x < late /\ late - x < SURFACE_NUM /\ x < early
        BY <2>10, <2>11, <3>4, <4>1
      <4> QED
        BY <3>1, <4>2
    <3> QED
      BY <2>3, <3>2, <3>3, <3>4
  <2>13. rec2[x % SURFACE_NUM] = x
    BY <1>4, <2>2, <2>12, SurfaceFree
  <2> QED
    BY <2>13 DEF x, k
<1>7. \A i \in 1..Kept(c) :
        rec2[Ref(P, base, c - i).picture_id] = ShownAt(P, base, c - i)
  BY <1>2, <1>6
<1> QED
  BY <1>7 DEF Stored

-----------------------------------------------------------------------------
(* What the decoder reads *)

LEMMA MsbStays ==
  ASSUME NEW lsb \in Nat, NEW prevMsb, NEW prevLsb \in Nat, NEW half \in Nat,
         NEW range, range \div 2 = half,
         lsb - prevLsb <= half, prevLsb - lsb < half
  PROVE  PicOrderCntMsb(lsb, prevMsb, prevLsb, range) = prevMsb
<1>1. /\ ~(lsb < prevLsb /\ prevLsb - lsb >= range \div 2)
      /\ ~(lsb > prevLsb /\ lsb - prevLsb > range \div 2)
  OBVIOUS
<1> QED
  BY <1>1 DEF PicOrderCntMsb

LEMMA ParameterSets ==
  ASSUME frame_width \in {32, 38}, frame_height = 16
  PROVE  LET d == Dictionary(sps_rbsp(seq_param))
             cropped == IF d["frame_cropping_flag"] = 1
                        THEN 2 * (d["frame_crop_left_offset"]
                                    + d["frame_crop_right_offset"]) ELSE 0
         IN  /\ d["log2_max_frame_num_minus4"] + 4 = Log2MaxFrameNum
             /\ d["log2_max_pic_order_cnt_lsb_minus4"] + 4
                  = Log2MaxPicOrderCntLsb
             /\ d["num_ref_frames"] = num_ref_frames
             /\ 16 * (d["pic_width_in_mbs_minus1"] + 1) - cropped = frame_width
<1> DEFINE d == Dictionary(sps_rbsp(seq_param))
           p == seq_param
<1>1. /\ Log2MaxFrameNum \in Nat /\ Log2MaxPicOrderCntLsb \in Nat
      /\ num_ref_frames \in Nat
  BY PicturesAssumption
<1>2. /\ p.profile_idc = 100 /\ p.log2_frame_num = Log2MaxFrameNum
      /\ p.log2_poc_lsb = Log2MaxPicOrderCntLsb
      /\ p.num_ref_frames = num_ref_frames
      /\ p.width_in_mbs = Aligned16(frame_width) \div 16
      /\ p.height_in_mbs = Aligned16(frame_height) \div 16
      /\ p.cropping = (\/ frame_width # Aligned16(frame_width)
                       \/ frame_height # Aligned16(frame_height))
      /\ p.crop_right = Crop(frame_width)
      /\ p.crop_bottom = Crop(frame_height)
  BY DEF seq_param
<1>3. /\ Aligned16(16) = 16 /\ Crop(16) = 0
      /\ Aligned16(32) = 32 /\ Crop(32) = 0
      /\ Aligned16(38) = 48 /\ Crop(38) = 5
      /\ 16 \div 16 = 1 /\ 32 \div 16 = 2 /\ 48 \div 16 = 3
  BY DEF Aligned16, Crop
<1>4. /\ p.height_in_mbs = 1 /\ p.crop_bottom = 0
      /\ frame_width = 32 => /\ p.width_in_mbs = 2 /\ p.crop_right = 0
                             /\ p.cropping = FALSE
      /\ frame_width = 38 => /\ p.width_in_mbs = 3 /\ p.crop_right = 5
                             /\ p.cropping = TRUE
  <2>1. p.height_in_mbs = 1 /\ p.crop_bottom = 0
    BY <1>2, <1>3
  <2>2. ASSUME frame_width = 32
        PROVE  p.width_in_mbs = 2 /\ p.crop_right = 0 /\ p.cropping = FALSE
    <3>1. p.width_in_mbs = 2 /\ p.crop_right = 0
      BY <1>2, <1>3, <2>2
    <3>2. /\ frame_width = Aligned16(frame_width)
          /\ frame_height = Aligned16(frame_height)
      BY <1>3, <2>2
    <3> QED
      BY <1>2, <3>1, <3>2
  <2>3. ASSUME frame_width = 38
        PROVE  p.width_in_mbs = 3 /\ p.crop_right = 5 /\ p.cropping = TRUE
    <3>1. p.width_in_mbs = 3 /\ p.crop_right = 5
      BY <1>2, <1>3, <2>3
    <3>2. frame_width # Aligned16(frame_width)
      BY <1>3, <2>3
    <3> QED
      BY <1>2, <3>1, <3>2
  <2> QED
    BY <2>1, <2>2, <2>3
<1>5. /\ p.profile_idc = 100 /\ p.log2_frame_num \in Int
      /\ p.log2_poc_lsb \in Int /\ p.num_ref_frames \in Int
      /\ p.width_in_mbs \in Int /\ p.height_in_mbs \in Int
      /\ p.crop_right \in Int /\ p.crop_bottom \in Int /\ p.cropping \in BOOLEAN
  BY <1>1, <1>2, <1>4
<1>6. d = Dictionary(sps_rbsp(p))
  OBVIOUS
<1> HIDE DEF d, p
<1>7. /\ d["log2_max_frame_num_minus4"] = p.log2_frame_num - 4
      /\ d["log2_max_pic_order_cnt_lsb_minus4"] = p.log2_poc_lsb - 4
      /\ d["num_ref_frames"] = p.num_ref_frames
      /\ d["pic_width_in_mbs_minus1"] = p.width_in_mbs - 1
      /\ d["frame_cropping_flag"] = IF p.cropping THEN 1 ELSE 0
      /\ p.cropping => /\ d["frame_crop_left_offset"] = 0
                       /\ d["frame_crop_right_offset"] = p.crop_right
  BY <1>5, <1>6, SpsRead
<1> DEFINE cropped == IF d["frame_cropping_flag"] = 1
                      THEN 2 * (d["frame_crop_left_offset"]
                                  + d["frame_crop_right_offset"]) ELSE 0
<1>8. 16 * (d["pic_width_in_mbs_minus1"] + 1) - cropped = frame_width
  <2>1. CASE frame_width = 32
    <3>1. d["pic_width_in_mbs_minus1"] = 1 /\ d["frame_cropping_flag"] = 0
      BY <1>4, <1>7, <2>1
    <3> QED
      BY <2>1, <3>1
  <2>2. CASE frame_width = 38
    <3>1. d["pic_width_in_mbs_minus1"] = 2 /\ d["frame_cropping_flag"] = 1
      BY <1>4, <1>7, <2>2
    <3>2. d["frame_crop_left_offset"] = 0 /\ d["frame_crop_right_offset"] = 5
      BY <1>4, <1>7, <2>2
    <3> QED
      BY <2>2, <3>1, <3>2
  <2> QED
    BY <2>1, <2>2
<1>9. /\ d["log2_max_frame_num_minus4"] + 4 = Log2MaxFrameNum
      /\ d["log2_max_pic_order_cnt_lsb_minus4"] + 4 = Log2MaxPicOrderCntLsb
      /\ d["num_ref_frames"] = num_ref_frames
  BY <1>1, <1>2, <1>7
<1> QED
  BY <1>8, <1>9 DEF d, p

(* Parameter sets as the encoder writes them. *)
Announced(sps, pps) ==
  /\ sps["log2_max_frame_num_minus4"] + 4 = Log2MaxFrameNum
  /\ sps["log2_max_pic_order_cnt_lsb_minus4"] + 4 = Log2MaxPicOrderCntLsb
  /\ sps["num_ref_frames"] = num_ref_frames
  /\ pps["entropy_coding_mode_flag"] = 1
  /\ pps["deblocking_filter_control_present_flag"] = 1

LEMMA PictureHeader ==
  ASSUME NEW type \in Types, NEW frame_num \in 0..2^Log2MaxFrameNum - 1,
         NEW poc \in 0..2^Log2MaxPicOrderCntLsb - 1, NEW id \in Nat,
         NEW sps, NEW pps, Announced(sps, pps)
  PROVE  LET s == slice_header(type, [frame_num |-> frame_num, poc |-> poc,
                                      idr_pic_id |-> id], seq_param, 1)
             h == Dictionary(s)
         IN  /\ h["slice_type"] = slice_type(type)
             /\ h["frame_num"] = frame_num /\ h["pic_order_cnt_lsb"] = poc
             /\ type = "IDR" => h["idr_pic_id"] = id
             /\ Conforms(s, SliceSyntax(nal_header(type), h["slice_type"],
                                        sps, pps))
<1> DEFINE pic == [frame_num |-> frame_num, poc |-> poc, idr_pic_id |-> id]
           p == seq_param
           s == slice_header(type, pic, p, 1)
           h == Dictionary(s)
           syntax == SliceSyntax(nal_header(type), slice_type(type), sps, pps)
<1>1. /\ Log2MaxFrameNum \in Nat /\ Log2MaxPicOrderCntLsb \in Nat
      /\ 2^Log2MaxFrameNum \in Nat /\ 2^Log2MaxPicOrderCntLsb \in Nat
  BY PicturesAssumption
<1>2. /\ p.log2_frame_num = Log2MaxFrameNum
      /\ p.log2_poc_lsb = Log2MaxPicOrderCntLsb
  BY DEF seq_param
<1>3. pic.frame_num = frame_num /\ pic.poc = poc /\ pic.idr_pic_id = id
  OBVIOUS
<1> HIDE DEF pic, p
<1>4. /\ p.log2_frame_num \in Int /\ p.log2_poc_lsb \in Int
      /\ pic.frame_num \in Int /\ pic.frame_num \in 0..2^p.log2_frame_num - 1
      /\ pic.poc \in Int /\ pic.poc \in 0..2^p.log2_poc_lsb - 1
      /\ pic.idr_pic_id \in Int
  BY <1>1, <1>2, <1>3
<1>5. /\ sps["log2_max_frame_num_minus4"] + 4 = p.log2_frame_num
      /\ sps["log2_max_pic_order_cnt_lsb_minus4"] + 4 = p.log2_poc_lsb
      /\ pps["entropy_coding_mode_flag"] = 1
      /\ pps["deblocking_filter_control_present_flag"] = 1
  BY <1>2 DEF Announced
<1>6. /\ Coded(s, syntax) /\ ReadsAs(s, Beginning(type, pic, p))
      /\ Opening(type, pic, p) \in Seq(Items)
  BY <1>4, <1>5, SliceCoded
<1> HIDE DEF s
<1>7. /\ h["slice_type"] = slice_type(type)
      /\ h["frame_num"] = pic.frame_num /\ h["pic_order_cnt_lsb"] = pic.poc
      /\ type = "IDR" => h["idr_pic_id"] = pic.idr_pic_id
  BY <1>4, <1>6, SliceRead
<1>8. Conforms(s, syntax)
  <2>1. Fields(s) = syntax /\ \A i \in 1..Len(s) : Fits(s[i])
    BY <1>6 DEF Coded
  <2> HIDE DEF syntax
  <2> QED
    BY <2>1 DEF Conforms, Fields, Fits
<1> HIDE DEF h
<1>9. Conforms(s, SliceSyntax(nal_header(type), h["slice_type"], sps, pps))
  BY <1>7, <1>8
<1> QED
  BY <1>3, <1>7, <1>9 DEF h, s, pic, p

-----------------------------------------------------------------------------
(* One picture *)

(* Where the group of picture e starts, its frame number, and its distance *)
(* from that start on the screen. *)
Base(e) == IdrDisplay(FrameType(e), DisplayOrder(e))
Number(e) == IF FrameType(e) = "IDR" THEN 0 ELSE current_frame_num
Order(e) == DisplayOrder(e) - Base(e)

(* What the encoder and the decoder agree on before the picture e.         *)
Agreed(e) ==
  LET P == ppShape.ip
      c == Number(e)
  IN  /\ (IF FrameType(e) = "IDR" THEN <<>> ELSE ReferenceFrames)
           = Refs(P, Base(e), c)
      /\ (IF FrameType(e) = "IDR" THEN {} ELSE decoder.dpb)
           = Frames(P, Base(e), c)
      /\ Stored(P, Base(e), c, reconstructed)
      /\ FrameType(e) # "IDR" =>
           /\ poc_ref = [msb |-> 0, lsb |-> (c - 1) * P]
           /\ decoder.prevFrameNum = c - 1
           /\ decoder.prevMsb = 0 /\ decoder.prevLsb = (c - 1) * P

LEMMA EncodingCounts ==
  ASSUME Steady
  PROVE  /\ ppShape \in Shapes /\ Pictures \in Int
         /\ current_frame_encoding \in Nat
         /\ current_frame_encoding <= Pictures
<1>1. ppShape \in Shapes
  BY DEF Steady
<1>2. Pictures \in Int
  <2>1. /\ 2^Log2MaxPicOrderCntLsb \in Nat /\ MaxPictures \in Nat
        /\ ppShape.ip \in Nat
    BY <1>1, ShapeFacts, PicturesAssumption
  <2> QED
    BY <2>1 DEF Pictures
<1>3. current_frame_encoding \in 0..Pictures
  BY DEF Steady
<1> QED
  BY <1>1, <1>2, <1>3

(* The group so far, when the picture does not start another one.          *)
LEMMA InGroup ==
  ASSUME Steady, Grouped, NEW e, e = current_frame_encoding,
         FrameType(e) # "IDR"
  PROVE  /\ Place(e) \in Nat \ {0} /\ e > 0
         /\ Place(e) = e - current_IDR_display
         /\ Base(e) = current_IDR_display /\ Number(e) = current_frame_num
         /\ GroupSoFar(Place(e), current_IDR_display, current_frame_num)
<1>1. e \in Nat /\ ppShape \in Shapes
  BY EncodingCounts
<1>2. Place(e) # 0 /\ Place(e) \in 0..e
  BY <1>1, TypeOf, PlaceFacts
<1>3. Place(e) \in Nat \ {0} /\ e > 0
  BY <1>1, <1>2
<1>4. /\ GroupSoFar(e - current_IDR_display, current_IDR_display, current_frame_num)
      /\ Place(e) \in {0, e - current_IDR_display}
  BY <1>3 DEF Grouped
<1>5. Place(e) = e - current_IDR_display
  BY <1>2, <1>4
<1>6. Base(e) = current_IDR_display /\ Number(e) = current_frame_num
  BY DEF Base, IdrDisplay, Number
<1> QED
  BY <1>3, <1>4, <1>5, <1>6

LEMMA FirstOfGroup ==
  ASSUME Steady, NEW e, e = current_frame_encoding, FrameType(e) = "IDR"
  PROVE  Place(e) = 0 /\ Base(e) = e /\ Number(e) = 0 /\ DisplayOrder(e) = e
<1>1. e \in Nat /\ ppShape \in Shapes
  BY EncodingCounts
<1>2. Place(e) = 0 /\ DisplayOrder(e) = e
  BY <1>1, TypeOf
<1> QED
  BY <1>2 DEF Base, IdrDisplay, Number

LEMMA AgreedBefore ==
  ASSUME Steady, Grouped, NEW e, e = current_frame_encoding
  PROVE  Agreed(e)
<1> DEFINE P == ppShape.ip
           c == current_frame_num
           base == current_IDR_display
<1>1. e \in Nat /\ ppShape \in Shapes /\ Period(P)
  BY EncodingCounts, PeriodOf
<1>2. CASE FrameType(e) = "IDR"
  <2>1. Number(e) = 0 /\ Base(e) = e
    BY <1>2, FirstOfGroup
  <2>2. Refs(P, e, 0) = <<>>
    BY <1>1, RefsFacts
  <2>3. Frames(P, e, 0) = {}
    BY <1>1, FramesFacts
  <2>4. Stored(P, e, 0, reconstructed)
    <3>1. 1..Kept(0) = {}
      BY KeptFacts
    <3> QED
      BY <3>1 DEF Stored
  <2> QED
    BY <1>2, <2>1, <2>2, <2>3, <2>4 DEF Agreed
<1>3. CASE FrameType(e) # "IDR"
  <2>1. /\ Number(e) = c /\ Base(e) = base /\ GroupSoFar(Place(e), base, c)
    BY <1>3, InGroup
  <2>2. /\ ReferenceFrames = Refs(P, base, c)
        /\ Stored(P, base, c, reconstructed)
        /\ poc_ref = [msb |-> 0, lsb |-> (c - 1) * P]
        /\ decoder.dpb = Frames(P, base, c)
        /\ decoder.prevFrameNum = c - 1
        /\ decoder.prevMsb = 0 /\ decoder.prevLsb = (c - 1) * P
    BY <2>1 DEF GroupSoFar
  <2> HIDE DEF P, c, base
  <2> QED
    BY <1>3, <2>1, <2>2 DEF Agreed, P
<1> QED
  BY <1>2, <1>3

(* The numbers of picture e are within their fields, and its order count   *)
(* is close to that of the reference before.                               *)
LEMMA NumbersOf ==
  ASSUME Steady, Grouped, NEW e, e = current_frame_encoding, e < Pictures
  PROVE  LET P == ppShape.ip
             c == Number(e)
             M == 2^Log2MaxPicOrderCntLsb
         IN  /\ Base(e) \in Nat /\ c \in Nat /\ Order(e) \in Nat
             /\ DisplayOrder(e) = Base(e) + Order(e)
             /\ Order(e) < M /\ c < 2^Log2MaxFrameNum
             /\ FrameType(e) # "IDR" =>
                  /\ c >= 1 /\ (c - 1) * P \in Nat /\ (c - 1) * P < M
                  /\ Order(e) - (c - 1) * P <= M \div 2
                  /\ (c - 1) * P - Order(e) < M \div 2
             /\ FrameType(e) = "IDR" => Order(e) = 0
             /\ FrameType(e) # "B" =>
                  /\ Order(e) = c * P
                  /\ e + 1 - Base(e) \in Nat \ {0}
                  /\ Reached(P, e + 1 - Base(e), c + 1)
             /\ FrameType(e) = "B" =>
                  /\ c >= 2 /\ (c - 2) * P < Order(e) /\ Order(e) < (c - 1) * P
                  /\ e + 1 - Base(e) \in Nat \ {0}
                  /\ Reached(P, e + 1 - Base(e), c)
             /\ Place(e + 1) \in {0, e + 1 - Base(e)}
<1> DEFINE P == ppShape.ip
           M == 2^Log2MaxPicOrderCntLsb
           F == 2^Log2MaxFrameNum
           g == Place(e)
<1>1. e \in Nat /\ ppShape \in Shapes /\ P \in Nat \ {0} /\ P <= MaxIpPeriod
  BY EncodingCounts, ShapeFacts
<1>2. /\ M \in Nat /\ F \in Nat /\ M <= F /\ MaxIpPeriod \in Nat
      /\ 2 * MaxIpPeriod <= M
  BY PicturesAssumption
<1>3. P <= M \div 2 /\ M > 0
  BY <1>1, <1>2
<1>4. Place(e + 1) \in {0, g + 1}
  BY <1>1, PlaceFacts
<1>5. /\ FrameType(e) \in Types
      /\ FrameType(e) = "B" <=> (g # 0 /\ (g - 1) % P # 0)
      /\ DisplayOrder(e) = IF g = 0 THEN e
                           ELSE IF g # 0 /\ (g - 1) % P # 0 THEN e - 1
                           ELSE e + (P - 1)
  BY <1>1, TypeOf
<1>6. CASE FrameType(e) = "IDR"
  <2>1. g = 0 /\ Base(e) = e /\ Number(e) = 0 /\ DisplayOrder(e) = e
    BY <1>6, FirstOfGroup
  <2>2. Order(e) = 0 /\ e + 1 - e = 1 /\ 0 * P = 0 /\ 0 + 1 = 1
    BY <1>1, <2>1 DEF Order
  <2>3. Reached(P, 1, 1)
    BY <1>1, ReachedFirst
  <2>4. FrameType(e) # "B"
    BY <1>6
  <2> HIDE DEF P, M, F, g
  <2>5. Place(e + 1) \in {0, 1}
    BY <1>4, <2>1
  <2> QED
    BY <1>1, <1>2, <1>3, <1>6, <2>1, <2>2, <2>3, <2>4, <2>5 DEF P, M, F
<1>7. CASE FrameType(e) # "IDR"
  <2> DEFINE c == current_frame_num
             base == current_IDR_display
  <2>1. /\ g \in Nat \ {0} /\ g = e - base /\ Base(e) = base /\ Number(e) = c
        /\ GroupSoFar(g, base, c)
    BY <1>7, InGroup
  <2>2. /\ c \in Nat \ {0} /\ base \in Nat /\ Reached(P, g, c)
        /\ (c - 1) * P < M
    BY <2>1 DEF GroupSoFar
  <2>3. c - 1 \in Nat /\ (c - 1) * P \in Nat /\ c * P = (c - 1) * P + P
    <3>1. c - 1 \in Nat /\ (c - 1) + 1 = c
      BY <2>2
    <3> HIDE DEF c, P
    <3>2. (c - 1) * P \in Nat /\ ((c - 1) + 1) * P = (c - 1) * P + P
      BY <1>1, <3>1, Times
    <3> QED
      BY <3>1, <3>2
  <2>4. Place(e + 1) \in {0, e + 1 - base} /\ e + 1 - base = g + 1
    BY <1>1, <1>4, <2>1, <2>2
  <2>5. CASE FrameType(e) # "B"
    <3>1. (g - 1) % P = 0
      BY <1>5, <2>1, <2>5
    <3>2. c * P < M
      BY <1>1, <2>1, <2>2, <3>1, OrderFits
    <3>3. DisplayOrder(e) = e + (P - 1)
      BY <1>5, <2>1, <3>1
    <3> HIDE DEF P, M, F, c, base, g
    <3>4. g + (P - 1) = c * P /\ Reached(P, g + 1, c + 1)
      BY <1>1, <2>1, <2>2, <3>1, ReachedByReference
    <3>5. Order(e) = (e + (P - 1)) - base
      <4>1. Order(e) = DisplayOrder(e) - Base(e)
        BY DEF Order
      <4> QED
        BY <2>1, <3>3, <4>1
    <3>6. c * P \in Nat
      BY <1>1, <2>2, <2>3
    <3>7. Order(e) = c * P /\ Order(e) \in Nat
      BY <1>1, <2>1, <2>2, <3>4, <3>5, <3>6
    <3>8. DisplayOrder(e) = base + Order(e)
      BY <1>1, <2>2, <3>3, <3>5
    <3>9. c <= c * P
      BY <1>1, <2>2, Times
    <3>10. c < F
      BY <1>2, <2>2, <3>2, <3>6, <3>9
    <3>11. /\ Order(e) - (c - 1) * P <= M \div 2
           /\ (c - 1) * P - Order(e) < M \div 2
      BY <1>1, <1>2, <1>3, <2>3, <3>6, <3>7
    <3>12. e + 1 - base \in Nat \ {0} /\ Reached(P, e + 1 - base, c + 1)
      BY <2>1, <2>4, <3>4
    <3> QED
      BY <1>7, <2>1, <2>2, <2>3, <2>4, <2>5, <3>2, <3>7, <3>8, <3>10, <3>11,
         <3>12 DEF P, M, F
  <2>6. CASE FrameType(e) = "B"
    <3>1. (g - 1) % P # 0
      BY <1>5, <2>1, <2>6
    <3>2. DisplayOrder(e) = e - 1
      BY <1>5, <2>1, <3>1
    <3> HIDE DEF P, M, F, c, base, g
    <3>3. /\ P >= 2 /\ c >= 2
          /\ (c - 2) * P < g - 1 /\ g - 1 < (c - 1) * P
          /\ (c - 2) * P \in Nat /\ (c - 1) * P = (c - 2) * P + P
          /\ Reached(P, g + 1, c)
      BY <1>1, <2>1, <2>2, <3>1, ReachedByB
    <3>4. Order(e) = e - 1 - base
      BY <2>1, <3>2 DEF Order
    <3>5. Order(e) = g - 1 /\ Order(e) \in Nat
      BY <1>1, <2>1, <2>2, <3>4
    <3>6. DisplayOrder(e) = base + Order(e)
      BY <1>1, <2>2, <3>2, <3>4
    <3>7. c <= (c - 1) * P
      <4>1. c - 1 \in Nat /\ c - 1 >= 1 /\ (c - 1) + 1 = c
        BY <2>2, <3>3
      <4>2. (c - 1) + 1 <= (c - 1) * P
        BY <1>1, <3>3, <4>1, Times
      <4> QED
        BY <4>1, <4>2
    <3>8. c < F
      BY <1>2, <2>2, <2>3, <3>7
    <3>9. Order(e) < (c - 1) * P /\ (c - 2) * P < Order(e) /\ Order(e) < M
      BY <1>2, <2>1, <2>2, <2>3, <3>3, <3>5
    <3>10. /\ Order(e) - (c - 1) * P <= M \div 2
           /\ (c - 1) * P - Order(e) < M \div 2
      BY <1>1, <1>2, <1>3, <2>3, <3>3, <3>5, <3>9
    <3>11. e + 1 - base \in Nat \ {0} /\ Reached(P, e + 1 - base, c)
      BY <2>1, <2>4, <3>3
    <3> QED
      BY <1>7, <2>1, <2>2, <2>3, <2>4, <2>6, <3>3, <3>5, <3>6, <3>8, <3>9,
         <3>10, <3>11 DEF P, M, F
  <2> QED
    BY <2>5, <2>6
<1> QED
  BY <1>6, <1>7

(* The encoder's order count is the distance on the screen ...             *)
LEMMA EncoderCount ==
  ASSUME Steady, Grouped, NEW e, e = current_frame_encoding, e < Pictures
  PROVE  /\ (DisplayOrder(e) - Base(e)) % MaxPicOrderCntLsb = Order(e)
         /\ calc_poc(FrameType(e), Order(e)) = 0
<1> DEFINE M == 2^Log2MaxPicOrderCntLsb
           x == Order(e)
           prev == (Number(e) - 1) * ppShape.ip
<1>1. /\ x \in Nat /\ x < M
      /\ FrameType(e) # "IDR" => prev \in Nat /\ prev < M
  BY NumbersOf
<1>2. M \in Nat
  BY PicturesAssumption
<1>3. FrameType(e) # "IDR" => poc_ref.msb = 0 /\ poc_ref.lsb = prev
  <2>1. Agreed(e)
    BY AgreedBefore
  <2> QED
    BY <2>1 DEF Agreed
<1>4. MaxPicOrderCntLsb = 2 * M
  BY DEF MaxPicOrderCntLsb
<1>5. x = DisplayOrder(e) - Base(e)
  BY DEF Order
<1> HIDE DEF M, x, prev
<1>6. 2 * M \in Nat \ {0} /\ x \in 0..2 * M - 1 /\ (2 * M) \div 2 = M
  BY <1>1, <1>2
<1>7. x % (2 * M) = x
  <2> DEFINE n == 2 * M
  <2>1. n \in Nat \ {0} /\ x \in 0..n - 1
    BY <1>6
  <2> HIDE DEF n
  <2>2. x % n = x
    BY <2>1, ModSmall
  <2> QED
    BY <2>2 DEF n
<1> DEFINE range == MaxPicOrderCntLsb
<1>8. range \div 2 = M
  BY <1>4, <1>6
<1> HIDE DEF range
<1>9. CASE FrameType(e) = "IDR"
  <2>1. x - 0 <= M /\ 0 - x < M
    BY <1>1, <1>2
  <2>2. PicOrderCntMsb(x, 0, 0, range) = 0
    BY <1>1, <1>2, <1>8, <2>1, MsbStays
  <2>3. calc_poc(FrameType(e), x) = 0
    BY <1>9, <2>2 DEF calc_poc, range
  <2> QED
    BY <1>4, <1>5, <1>7, <2>3 DEF x
<1>10. CASE FrameType(e) # "IDR"
  <2>1. prev \in Nat /\ x - prev <= M /\ prev - x < M
    BY <1>1, <1>2, <1>10
  <2>2. PicOrderCntMsb(x, 0, prev, range) = 0
    BY <1>1, <1>2, <1>8, <2>1, MsbStays
  <2>3. calc_poc(FrameType(e), x) = 0
    BY <1>3, <1>10, <2>2 DEF calc_poc, range
  <2> QED
    BY <1>4, <1>5, <1>7, <2>3 DEF x
<1> QED
  BY <1>9, <1>10

(* ... and the decoder comes to the same.                                  *)
LEMMA DecoderCount ==
  ASSUME Steady, Grouped, NEW e, e = current_frame_encoding, e < Pictures,
         NEW sps, NEW pps, Announced(sps, pps)
  PROVE  LET range == FieldRange(sps, "log2_max_pic_order_cnt_lsb_minus4")
         IN  /\ Order(e) % range = Order(e)
             /\ FrameType(e) # "IDR" =>
                  PicOrderCntMsb(Order(e), decoder.prevMsb, decoder.prevLsb,
                                 range) = 0
<1> DEFINE M == 2^Log2MaxPicOrderCntLsb
           x == Order(e)
           prev == (Number(e) - 1) * ppShape.ip
           range == FieldRange(sps, "log2_max_pic_order_cnt_lsb_minus4")
<1>1. /\ x \in Nat /\ x < M
      /\ FrameType(e) # "IDR" => /\ prev \in Nat /\ prev < M
                                 /\ x - prev <= M \div 2 /\ prev - x < M \div 2
  BY NumbersOf
<1>2. M \in Nat
  BY PicturesAssumption
<1>3. FrameType(e) # "IDR" => decoder.prevMsb = 0 /\ decoder.prevLsb = prev
  <2>1. Agreed(e)
    BY AgreedBefore
  <2> QED
    BY <2>1 DEF Agreed
<1>4. range = M
  BY DEF FieldRange, Announced
<1> HIDE DEF M, x, prev, range
<1>5. M \in Nat \ {0} /\ x \in 0..M - 1
  BY <1>1, <1>2
<1>6. x % M = x
  BY <1>5, ModSmall
<1>7. ASSUME FrameType(e) # "IDR"
      PROVE  PicOrderCntMsb(x, decoder.prevMsb, decoder.prevLsb, range) = 0
  <2> DEFINE half == M \div 2
  <2>1. half \in Nat /\ range \div 2 = half
    BY <1>2, <1>4
  <2>2. prev \in Nat /\ x - prev <= half /\ prev - x < half
    BY <1>1, <1>7
  <2> HIDE DEF half
  <2>3. PicOrderCntMsb(x, 0, prev, range) = 0
    BY <1>1, <2>1, <2>2, MsbStays
  <2> QED
    BY <1>3, <1>7, <2>3
<1> QED
  BY <1>4, <1>6, <1>7 DEF x, range

LEMMA NumberLegal ==
  ASSUME Steady, Grouped, NEW e, e = current_frame_encoding, e < Pictures,
         NEW sps, NEW pps, Announced(sps, pps), NEW h, NEW idr,
         idr = (FrameType(e) = "IDR"), h["frame_num"] = Number(e),
         idr => h["idr_pic_id"] = NextIdrPicId(FrameType(e))
  PROVE  LegalNumbers(h, idr, sps) = TRUE
<1> DEFINE F == 2^Log2MaxFrameNum
           c == Number(e)
<1>1. c \in Nat /\ c < F /\ (FrameType(e) # "IDR" => c >= 1)
  BY NumbersOf
<1>2. F \in Nat
  BY PicturesAssumption
<1>3. FieldRange(sps, "log2_max_frame_num_minus4") = F
  BY DEF FieldRange, Announced
<1>4. FrameType(e) # "IDR" => decoder.prevFrameNum = c - 1
  <2>1. Agreed(e)
    BY AgreedBefore
  <2> QED
    BY <2>1 DEF Agreed
<1> HIDE DEF F, c
<1>5. CASE FrameType(e) = "IDR"
  <2>1. c = 0
    BY <1>5, FirstOfGroup DEF c
  <2>2. NextIdrPicId(FrameType(e)) # decoder.prevIdrId
    <3>1. /\ idr_pic_id \in Nat /\ decoder.prevIdrId \in {-1, idr_pic_id}
          /\ current_frame_encoding = 0 => decoder.prevIdrId = -1
      BY DEF Steady
    <3>2. CASE current_frame_encoding = 0
      <4>1. NextIdrPicId(FrameType(e)) = idr_pic_id
        BY <3>2 DEF NextIdrPicId
      <4> QED
        BY <3>1, <3>2, <4>1
    <3>3. CASE current_frame_encoding # 0
      <4>1. NextIdrPicId(FrameType(e)) = idr_pic_id + 1
        BY <1>5, <3>3 DEF NextIdrPicId
      <4> QED
        BY <3>1, <4>1
    <3> QED
      BY <3>2, <3>3
  <2>3. idr = TRUE
    BY <1>5
  <2>4. h["frame_num"] = 0 /\ h["idr_pic_id"] # decoder.prevIdrId
    BY <2>1, <2>2, <2>3 DEF c
  <2> QED
    BY <2>3, <2>4 DEF LegalNumbers
<1>6. CASE FrameType(e) # "IDR"
  <2>1. idr = FALSE
    BY <1>6
  <2>2. F \in Nat \ {0} /\ c \in 0..F - 1 /\ (c - 1) + 1 = c
    BY <1>1, <1>2
  <2>3. c % F = c
    BY <2>2, ModSmall
  <2>4. h["frame_num"] = (decoder.prevFrameNum + 1) % F
    <3>1. decoder.prevFrameNum + 1 = c
      BY <1>4, <1>6, <2>2
    <3> QED
      BY <2>3, <3>1 DEF c
  <2> QED
    BY <1>3, <2>1, <2>4 DEF LegalNumbers
<1> QED
  BY <1>5, <1>6

(* What is sent for picture e, and what it is decoded with.                *)
Id(e) == NextIdrPicId(FrameType(e))
HeaderOf(e) ==
  slice_header(FrameType(e), [frame_num |-> Number(e), poc |-> Order(e),
                              idr_pic_id |-> Id(e)], seq_param, 1)
Held(e) == Refs(ppShape.ip, Base(e), Number(e))
Buffered(e) == Frames(ppShape.ip, Base(e), Number(e))
SpsOf(e) == IF FrameType(e) = "IDR" THEN Dictionary(sps_rbsp(seq_param))
                                    ELSE decoder.sps
PpsOf(e) == IF FrameType(e) = "IDR" THEN Dictionary(pps_rbsp(1))
                                    ELSE decoder.pps
Sent(e) == update_RefPicList(FrameType(e), ToSet(Held(e)), Order(e))
Read(e) == DecodedLists(Dictionary(HeaderOf(e)), Buffered(e), Order(e), SpsOf(e))
Current(e) == [picture_id |-> DisplayOrder(e) % SURFACE_NUM,
               frame_idx |-> Number(e), poc |-> Order(e)]
Incoming(e) == [frame_num |-> Number(e), poc |-> Order(e),
                display |-> DisplayOrder(e)]

LEMMA SetsAnnounced ==
  ASSUME Steady, Grouped, NEW e, e = current_frame_encoding
  PROVE  /\ SpsOf(e) = Dictionary(sps_rbsp(seq_param))
         /\ PpsOf(e) = Dictionary(pps_rbsp(1))
         /\ Announced(SpsOf(e), PpsOf(e))
<1>1. /\ SpsOf(e) = Dictionary(sps_rbsp(seq_param))
      /\ PpsOf(e) = Dictionary(pps_rbsp(1))
  <2>1. CASE FrameType(e) = "IDR"
    BY <2>1 DEF SpsOf, PpsOf
  <2>2. CASE FrameType(e) # "IDR"
    <3>1. current_frame_encoding > 0
      BY <2>2, InGroup
    <3>2. /\ decoder.sps = Dictionary(sps_rbsp(seq_param))
          /\ decoder.pps = Dictionary(pps_rbsp(1))
      BY <3>1 DEF Steady
    <3> QED
      BY <2>2, <3>2 DEF SpsOf, PpsOf
  <2> QED
    BY <2>1, <2>2
<1>2. frame_width \in {32, 38} /\ frame_height = 16
  BY DEF Steady
<1> DEFINE d == Dictionary(sps_rbsp(seq_param))
           p == Dictionary(pps_rbsp(1))
<1>3. /\ d["log2_max_frame_num_minus4"] + 4 = Log2MaxFrameNum
      /\ d["log2_max_pic_order_cnt_lsb_minus4"] + 4 = Log2MaxPicOrderCntLsb
      /\ d["num_ref_frames"] = num_ref_frames
  BY <1>2, ParameterSets
<1>4. /\ p["entropy_coding_mode_flag"] = 1
      /\ p["deblocking_filter_control_present_flag"] = 1
  BY PpsRead
<1>5. SpsOf(e) = d /\ PpsOf(e) = p
  BY <1>1
<1> HIDE DEF d, p
<1>6. Announced(SpsOf(e), PpsOf(e))
  BY <1>3, <1>4, <1>5 DEF Announced
<1> QED
  BY <1>1, <1>6

LEMMA HeaderRead ==
  ASSUME Steady, Grouped, NEW e, e = current_frame_encoding, e < Pictures
  PROVE  LET h == Dictionary(HeaderOf(e))
         IN  /\ h["slice_type"] = slice_type(FrameType(e))
             /\ h["frame_num"] = Number(e) /\ h["pic_order_cnt_lsb"] = Order(e)
             /\ FrameType(e) = "IDR" => h["idr_pic_id"] = Id(e)
             /\ Conforms(HeaderOf(e),
                         SliceSyntax(nal_header(FrameType(e)), h["slice_type"],
                                     SpsOf(e), PpsOf(e)))
<1>1. e \in Nat /\ ppShape \in Shapes
  BY EncodingCounts
<1>2. FrameType(e) \in Types
  BY <1>1, TypeOf
<1>3. /\ Number(e) \in Nat /\ Number(e) < 2^Log2MaxFrameNum
      /\ Order(e) \in Nat /\ Order(e) < 2^Log2MaxPicOrderCntLsb
  BY NumbersOf
<1>4. /\ 2^Log2MaxFrameNum \in Nat /\ 2^Log2MaxPicOrderCntLsb \in Nat
  BY PicturesAssumption
<1>5. /\ Number(e) \in 0..2^Log2MaxFrameNum - 1
      /\ Order(e) \in 0..2^Log2MaxPicOrderCntLsb - 1
  BY <1>3, <1>4
<1>6. Id(e) \in Nat
  <2>1. idr_pic_id \in Nat
    BY DEF Steady
  <2> QED
    BY <2>1 DEF Id, NextIdrPicId
<1>7. Announced(SpsOf(e), PpsOf(e))
  BY SetsAnnounced
<1> QED
  BY <1>2, <1>5, <1>6, <1>7, PictureHeader DEF HeaderOf

(* What the decoder makes of the header of picture e.                      *)
LEMMA HeaderDecoded ==
  ASSUME Steady, Grouped, NEW e, e = current_frame_encoding, e < Pictures,
         NEW base, DOMAIN base = DOMAIN Nothing,
         DecodeHeader(nal_header(FrameType(e)), HeaderOf(e), SpsOf(e), PpsOf(e),
                      DisplayOrder(e), Held(e), base)
  PROVE  LET type == FrameType(e)
             ref == type # "B"
         IN  /\ decoder' =
                  [sps |-> SpsOf(e), pps |-> PpsOf(e),
                   dpb |-> IF ref THEN SlidingWindow(Buffered(e), Incoming(e),
                                                     num_ref_frames)
                                  ELSE Buffered(e),
                   prevFrameNum |-> IF ref THEN Number(e)
                                           ELSE decoder.prevFrameNum,
                   prevMsb |-> IF ref THEN 0 ELSE decoder.prevMsb,
                   prevLsb |-> IF ref THEN Order(e) ELSE decoder.prevLsb,
                   prevIdrId |-> IF type = "IDR" THEN Id(e) ELSE -1]
             /\ last'.decodedPoc = Order(e) /\ last'.legal
             /\ last'.decodedRefs = [l \in 1..Len(Read(e)) |->
                  IF Read(e)[l] = <<>> THEN -1 ELSE Read(e)[l][1].display]
             /\ last'.type = base.type /\ last'.nal = base.nal
             /\ last'.elements = base.elements /\ last'.poc = base.poc
             /\ last'.display = base.display
             /\ last'.idr_display = base.idr_display
             /\ last'.refs = base.refs /\ last'.given = base.given
             /\ last'.sidesExist = base.sidesExist
<1> DEFINE type == FrameType(e)
           nal == nal_header(type)
           h == Dictionary(HeaderOf(e))
           sps == SpsOf(e)
           pps == PpsOf(e)
           idr == nal.nal_unit_type = 5
           range == FieldRange(sps, "log2_max_pic_order_cnt_lsb_minus4")
           lsb == h["pic_order_cnt_lsb"] % range
           dpb == IF idr THEN {} ELSE decoder.dpb
           msb == IF idr THEN 0
                  ELSE PicOrderCntMsb(lsb, decoder.prevMsb, decoder.prevLsb,
                                      range)
           f == [frame_num |-> h["frame_num"], poc |-> msb + lsb,
                 display |-> DisplayOrder(e)]
           lists == DecodedLists(h, dpb, msb + lsb, sps)
           isRef == nal.nal_ref_idc # 0
<1>1. /\ decoder' =
           [sps |-> sps, pps |-> pps,
            dpb |-> IF isRef THEN SlidingWindow(dpb, f, sps["num_ref_frames"])
                             ELSE dpb,
            prevFrameNum |-> IF isRef THEN h["frame_num"]
                                      ELSE decoder.prevFrameNum,
            prevMsb |-> IF isRef THEN msb ELSE decoder.prevMsb,
            prevLsb |-> IF isRef THEN lsb ELSE decoder.prevLsb,
            prevIdrId |-> IF idr THEN h["idr_pic_id"] ELSE -1]
      /\ last' = [base EXCEPT
                    !.decodedPoc = msb + lsb,
                    !.legal = LegalNumbers(h, idr, sps),
                    !.decodedRefs = [l \in 1..Len(lists) |->
                                       IF lists[l] = <<>> THEN -1
                                       ELSE lists[l][1].display]]
  BY DEF DecodeHeader
<1>2. type \in Types
  <2>1. e \in Nat /\ ppShape \in Shapes
    BY EncodingCounts
  <2> QED
    BY <2>1, TypeOf
<1>3. idr = (type = "IDR") /\ isRef = (type # "B")
  BY <1>2 DEF Types, slice_type, nal_header
<1>4. /\ h["frame_num"] = Number(e) /\ h["pic_order_cnt_lsb"] = Order(e)
      /\ type = "IDR" => h["idr_pic_id"] = Id(e)
  BY HeaderRead
<1>5. Announced(sps, pps)
  BY SetsAnnounced
<1>6. /\ Order(e) % range = Order(e)
      /\ type # "IDR" =>
           PicOrderCntMsb(Order(e), decoder.prevMsb, decoder.prevLsb, range) = 0
  BY <1>5, DecoderCount
<1>7. lsb = Order(e) /\ msb = 0 /\ Order(e) \in Nat
  <2>1. lsb = Order(e)
    BY <1>4, <1>6
  <2>2. Order(e) \in Nat
    BY NumbersOf
  <2> HIDE DEF lsb, type
  <2>3. msb = 0
    BY <1>3, <1>6, <2>1
  <2> QED
    BY <2>1, <2>2, <2>3
<1>8. dpb = Buffered(e)
  <2>1. (IF type = "IDR" THEN {} ELSE decoder.dpb) = Buffered(e)
    BY AgreedBefore DEF Agreed, Buffered
  <2> QED
    BY <1>3, <2>1
<1>9. sps["num_ref_frames"] = num_ref_frames
  BY <1>5 DEF Announced
<1>10. LegalNumbers(h, idr, sps) = TRUE
  <2>1. idr => h["idr_pic_id"] = NextIdrPicId(FrameType(e))
    BY <1>3, <1>4 DEF Id
  <2>2. idr = (FrameType(e) = "IDR") /\ h["frame_num"] = Number(e)
    BY <1>3, <1>4
  <2> HIDE DEF h, idr, sps, pps
  <2> QED
    BY <1>5, <2>1, <2>2, NumberLegal
<1>11. msb + lsb = Order(e)
  BY <1>7
<1> HIDE DEF msb, lsb, dpb, isRef, idr
<1>12. f = Incoming(e)
  BY <1>4, <1>11 DEF Incoming
<1>13. lists = Read(e)
  BY <1>8, <1>11 DEF Read
<1> HIDE DEF f, lists, h, sps, pps, type
<1>14. decoder' =
         [sps |-> sps, pps |-> pps,
          dpb |-> IF type # "B" THEN SlidingWindow(Buffered(e), Incoming(e),
                                                   num_ref_frames)
                                ELSE Buffered(e),
          prevFrameNum |-> IF type # "B" THEN Number(e)
                                         ELSE decoder.prevFrameNum,
          prevMsb |-> IF type # "B" THEN 0 ELSE decoder.prevMsb,
          prevLsb |-> IF type # "B" THEN Order(e) ELSE decoder.prevLsb,
          prevIdrId |-> IF type = "IDR" THEN Id(e) ELSE -1]
  <2>1. (IF idr THEN h["idr_pic_id"] ELSE -1)
          = (IF type = "IDR" THEN Id(e) ELSE -1)
    BY <1>3, <1>4
  <2> QED
    BY <1>1, <1>3, <1>4, <1>7, <1>8, <1>9, <1>12, <2>1
<1>15. last' = [base EXCEPT
         !.decodedPoc = Order(e), !.legal = TRUE,
         !.decodedRefs = [l \in 1..Len(Read(e)) |->
           IF Read(e)[l] = <<>> THEN -1 ELSE Read(e)[l][1].display]]
  BY <1>1, <1>10, <1>11, <1>13
<1>16. DOMAIN base = {"type", "nal", "elements", "poc", "decodedPoc",
                      "display", "idr_display", "refs", "decodedRefs",
                      "given", "legal", "sidesExist"}
  BY DEF Nothing
<1>17. /\ last'.decodedPoc = Order(e) /\ last'.legal
       /\ last'.decodedRefs = [l \in 1..Len(Read(e)) |->
            IF Read(e)[l] = <<>> THEN -1 ELSE Read(e)[l][1].display]
       /\ last'.type = base.type /\ last'.nal = base.nal
       /\ last'.elements = base.elements /\ last'.poc = base.poc
       /\ last'.display = base.display
       /\ last'.idr_display = base.idr_display
       /\ last'.refs = base.refs /\ last'.given = base.given
       /\ last'.sidesExist = base.sidesExist
  BY <1>15, <1>16
<1> QED
  BY <1>14, <1>17 DEF type, sps, pps

(* What EncodePicture does, as an operator of the picture it is at. *)
EncodesRound(e) ==
  LET type == FrameType(e)
      display == DisplayOrder(e)
      idr == type = "IDR"
      frame_num == Number(e)
      refs == IF idr THEN <<>> ELSE ReferenceFrames
      lsb == (display - Base(e)) % MaxPicOrderCntLsb
      msb == calc_poc(type, lsb)
      cur == [picture_id |-> display % SURFACE_NUM,
              frame_idx |-> frame_num, poc |-> msb + lsb]
      held == ToSet(refs)
      lists == update_RefPicList(type, held, msb + lsb)
      nal == nal_header(type)
      elements == slice_header(type, [frame_num |-> frame_num,
                                      poc |-> msb + lsb,
                                      idr_pic_id |-> Id(e)],
                               seq_param, 1)
      before == [Nothing EXCEPT
         !.type = type, !.nal = nal, !.elements = elements,
         !.poc = msb + lsb, !.display = display,
         !.idr_display = Base(e),
         !.refs = [l \in 1..Len(lists) |->
                     reconstructed[Active(lists)[l].picture_id]],
         !.given = {reconstructed[r.picture_id] : r \in Given(lists, held)},
         !.sidesExist = type = "B" => SidesExist(held, msb + lsb)]
  IN  /\ e < Pictures /\ current_frame_encoding' = e + 1
      /\ current_frame_num' = NextFrameNum(type, frame_num)
      /\ current_IDR_display' = Base(e)
      /\ ReferenceFrames' = update_ReferenceFrames(type, refs, cur)
      /\ idr_pic_id' = Id(e)
      /\ poc_ref' = IF type = "B" THEN poc_ref ELSE [msb |-> msb, lsb |-> lsb]
      /\ reconstructed' = [reconstructed EXCEPT ![display % SURFACE_NUM] = display]
      /\ UNCHANGED <<ppShape, TO_DEL, frame_width, frame_height>>
      /\ DecodeHeader(nal, elements, SpsOf(e), PpsOf(e), display, refs, before)

LEMMA RoundOfCurrent ==
  ASSUME EncodePicture
  PROVE  EncodesRound(current_frame_encoding)
  BY Zenon DEF EncodesRound, EncodePicture, Base, Number, Id, SpsOf, PpsOf

LEMMA PictureEncoded ==
  ASSUME Steady, Grouped, EncodePicture, NEW e, e = current_frame_encoding
  PROVE  LET type == FrameType(e)
             ref == type # "B"
         IN  /\ e < Pictures /\ current_frame_encoding' = e + 1
             /\ current_frame_num' = NextFrameNum(type, Number(e))
             /\ current_IDR_display' = Base(e)
             /\ ReferenceFrames'
                  = update_ReferenceFrames(type, Held(e), Current(e))
             /\ idr_pic_id' = Id(e)
             /\ poc_ref' = IF type = "B" THEN poc_ref
                           ELSE [msb |-> 0, lsb |-> Order(e)]
             /\ reconstructed' = [reconstructed EXCEPT
                  ![DisplayOrder(e) % SURFACE_NUM] = DisplayOrder(e)]
             /\ UNCHANGED <<ppShape, TO_DEL, frame_width, frame_height>>
             /\ decoder'.sps = SpsOf(e) /\ decoder'.pps = PpsOf(e)
             /\ decoder'.dpb =
                  IF ref THEN SlidingWindow(Buffered(e), Incoming(e),
                                            num_ref_frames)
                  ELSE Buffered(e)
             /\ decoder'.prevFrameNum = IF ref THEN Number(e)
                                        ELSE decoder.prevFrameNum
             /\ decoder'.prevMsb = IF ref THEN 0 ELSE decoder.prevMsb
             /\ decoder'.prevLsb = IF ref THEN Order(e) ELSE decoder.prevLsb
             /\ decoder'.prevIdrId = IF type = "IDR" THEN Id(e) ELSE -1
             /\ last'.type = type /\ last'.nal = nal_header(type)
             /\ last'.elements = HeaderOf(e)
             /\ last'.poc = Order(e) /\ last'.decodedPoc = Order(e)
             /\ last'.display = DisplayOrder(e)
             /\ last'.idr_display = Base(e) /\ last'.legal
             /\ last'.refs = [l \in 1..Len(Sent(e)) |->
                  reconstructed[Active(Sent(e))[l].picture_id]]
             /\ last'.given = {reconstructed[r.picture_id] :
                                 r \in Given(Sent(e), ToSet(Held(e)))}
             /\ last'.decodedRefs = [l \in 1..Len(Read(e)) |->
                  IF Read(e)[l] = <<>> THEN -1 ELSE Read(e)[l][1].display]
             /\ last'.sidesExist = (type = "B" =>
                                      SidesExist(ToSet(Held(e)), Order(e)))
<1> DEFINE type == FrameType(e)
           display == DisplayOrder(e)
           idr == type = "IDR"
           frame_num == Number(e)
           refs == IF idr THEN <<>> ELSE ReferenceFrames
           lsb == (display - Base(e)) % MaxPicOrderCntLsb
           msb == calc_poc(type, lsb)
           cur == [picture_id |-> display % SURFACE_NUM,
                   frame_idx |-> frame_num, poc |-> msb + lsb]
           held == ToSet(refs)
           lists == update_RefPicList(type, held, msb + lsb)
           nal == nal_header(type)
           elements == slice_header(type, [frame_num |-> frame_num,
                                           poc |-> msb + lsb,
                                           idr_pic_id |-> Id(e)],
                                    seq_param, 1)
           before == [Nothing EXCEPT
              !.type = type, !.nal = nal, !.elements = elements,
              !.poc = msb + lsb, !.display = display,
              !.idr_display = Base(e),
              !.refs = [l \in 1..Len(lists) |->
                          reconstructed[Active(lists)[l].picture_id]],
              !.given = {reconstructed[r.picture_id] : r \in Given(lists, held)},
              !.sidesExist = type = "B" => SidesExist(held, msb + lsb)]
<1>1. /\ e < Pictures /\ current_frame_encoding' = e + 1
      /\ current_frame_num' = NextFrameNum(type, frame_num)
      /\ current_IDR_display' = Base(e)
      /\ ReferenceFrames' = update_ReferenceFrames(type, refs, cur)
      /\ idr_pic_id' = Id(e)
      /\ poc_ref' = IF type = "B" THEN poc_ref ELSE [msb |-> msb, lsb |-> lsb]
      /\ reconstructed' = [reconstructed EXCEPT ![display % SURFACE_NUM] = display]
      /\ UNCHANGED <<ppShape, TO_DEL, frame_width, frame_height>>
      /\ DecodeHeader(nal, elements, SpsOf(e), PpsOf(e), display, refs, before)
  <2>1. EncodesRound(e)
    BY RoundOfCurrent
  <2>2. QED
    BY <2>1, Zenon DEF EncodesRound
<1>2. lsb = Order(e) /\ msb = 0 /\ Order(e) \in Nat
  <2>1. e < Pictures
    BY <1>1
  <2>2. lsb = Order(e)
    BY <2>1, EncoderCount
  <2>3. msb = 0
    BY <2>1, <2>2, EncoderCount
  <2>4. Order(e) \in Nat
    BY <2>1, NumbersOf
  <2> QED
    BY <2>2, <2>3, <2>4
<1>3. refs = Held(e)
  <2>1. refs = Refs(ppShape.ip, Base(e), Number(e))
    BY AgreedBefore DEF Agreed
  <2> QED
    BY <2>1 DEF Held
<1>4. msb + lsb = Order(e)
  BY <1>2
<1>5. cur = Current(e) /\ elements = HeaderOf(e)
  BY <1>4 DEF Current, HeaderOf
<1>6. held = ToSet(Held(e)) /\ lists = Sent(e)
  BY <1>3, <1>4 DEF Sent
<1> HIDE DEF cur, lists, held, elements
<1> DEFINE known ==
             [Nothing EXCEPT
                !.type = type, !.nal = nal, !.elements = HeaderOf(e),
                !.poc = Order(e), !.display = display,
                !.idr_display = Base(e),
                !.refs = [l \in 1..Len(Sent(e)) |->
                            reconstructed[Active(Sent(e))[l].picture_id]],
                !.given = {reconstructed[r.picture_id] :
                             r \in Given(Sent(e), ToSet(Held(e)))},
                !.sidesExist = type = "B" => SidesExist(ToSet(Held(e)), Order(e))]
<1>7. before = known
  <2>1. (type = "B" => SidesExist(held, msb + lsb))
          = (type = "B" => SidesExist(ToSet(Held(e)), Order(e)))
    BY <1>4, <1>6
  <2> QED
    BY <1>4, <1>5, <1>6, <2>1
<1>8. /\ known.type = type /\ known.nal = nal /\ known.elements = HeaderOf(e)
      /\ known.poc = Order(e) /\ known.display = display
      /\ known.idr_display = Base(e)
      /\ known.refs = [l \in 1..Len(Sent(e)) |->
                         reconstructed[Active(Sent(e))[l].picture_id]]
      /\ known.given = {reconstructed[r.picture_id] :
                          r \in Given(Sent(e), ToSet(Held(e)))}
      /\ known.sidesExist = (type = "B" =>
                               SidesExist(ToSet(Held(e)), Order(e)))
  BY DEF Nothing
<1>9. DOMAIN known = DOMAIN Nothing
  BY DEF Nothing
<1>10. e < Pictures
  BY <1>1
<1> HIDE DEF before
<1>11. DecodeHeader(nal_header(FrameType(e)), HeaderOf(e), SpsOf(e), PpsOf(e),
                    DisplayOrder(e), Held(e), known)
  BY <1>1, <1>3, <1>5, <1>7
<1> HIDE DEF known, idr, refs, lsb, msb, frame_num, nal, display
<1>12. /\ decoder' =
            [sps |-> SpsOf(e), pps |-> PpsOf(e),
             dpb |-> IF type # "B" THEN SlidingWindow(Buffered(e), Incoming(e),
                                                      num_ref_frames)
                                   ELSE Buffered(e),
             prevFrameNum |-> IF type # "B" THEN Number(e)
                                            ELSE decoder.prevFrameNum,
             prevMsb |-> IF type # "B" THEN 0 ELSE decoder.prevMsb,
             prevLsb |-> IF type # "B" THEN Order(e) ELSE decoder.prevLsb,
             prevIdrId |-> IF type = "IDR" THEN Id(e) ELSE -1]
       /\ last'.decodedPoc = Order(e) /\ last'.legal
       /\ last'.decodedRefs = [l \in 1..Len(Read(e)) |->
            IF Read(e)[l] = <<>> THEN -1 ELSE Read(e)[l][1].display]
       /\ last'.type = known.type /\ last'.nal = known.nal
       /\ last'.elements = known.elements
       /\ last'.poc = known.poc /\ last'.display = known.display
       /\ last'.idr_display = known.idr_display
       /\ last'.refs = known.refs /\ last'.given = known.given
       /\ last'.sidesExist = known.sidesExist
  BY <1>9, <1>10, <1>11, HeaderDecoded
<1>13. poc_ref' = IF type = "B" THEN poc_ref ELSE [msb |-> 0, lsb |-> Order(e)]
  BY <1>1, <1>2 DEF lsb, msb
<1>14. ReferenceFrames' = update_ReferenceFrames(type, Held(e), Current(e))
  BY <1>1, <1>3, <1>5
<1>15. /\ decoder'.sps = SpsOf(e) /\ decoder'.pps = PpsOf(e)
       /\ decoder'.dpb =
            IF type # "B" THEN SlidingWindow(Buffered(e), Incoming(e),
                                             num_ref_frames)
            ELSE Buffered(e)
       /\ decoder'.prevFrameNum = IF type # "B" THEN Number(e)
                                  ELSE decoder.prevFrameNum
       /\ decoder'.prevMsb = IF type # "B" THEN 0 ELSE decoder.prevMsb
       /\ decoder'.prevLsb = IF type # "B" THEN Order(e) ELSE decoder.prevLsb
       /\ decoder'.prevIdrId = IF type = "IDR" THEN Id(e) ELSE -1
  BY <1>12
<1> QED
  BY <1>1, <1>8, <1>12, <1>13, <1>14, <1>15 DEF nal, display, frame_num

(* A picture leaves the shape and the sizes as they are.                   *)
LEMMA Unchanging ==
  ASSUME UNCHANGED <<ppShape, frame_width, frame_height>>
  PROVE  /\ Pictures' = Pictures /\ seq_param' = seq_param
         /\ Dictionary(sps_rbsp(seq_param))' = Dictionary(sps_rbsp(seq_param))
         /\ Dictionary(pps_rbsp(1))' = Dictionary(pps_rbsp(1))
         /\ Shapes' = Shapes
         /\ \A e : Place(e)' = Place(e)
<1>1. ppShape' = ppShape /\ frame_width' = frame_width
      /\ frame_height' = frame_height
  OBVIOUS
<1>2. Pictures' = Pictures
  BY <1>1 DEF Pictures
<1>3. seq_param' = seq_param
  BY <1>1 DEF seq_param
<1>4. /\ Dictionary(sps_rbsp(seq_param))' = Dictionary(sps_rbsp(seq_param))
      /\ Dictionary(pps_rbsp(1))' = Dictionary(pps_rbsp(1))
  BY <1>3
<1>5. \A e : Place(e)' = Place(e)
  BY <1>1 DEF Place, Gop!GopPlace, Gop!IdrPeriod
<1> QED
  BY <1>2, <1>3, <1>4, <1>5

LEMMA SteadyKept ==
  ASSUME Steady, Grouped, EncodePicture
  PROVE  Steady'
<1> DEFINE e == current_frame_encoding
<1>1. /\ e \in Nat /\ e < Pictures /\ ppShape \in Shapes /\ Pictures \in Int
  BY EncodingCounts, PictureEncoded
<1>2. /\ current_frame_encoding' = e + 1
      /\ ppShape' = ppShape /\ TO_DEL' = TO_DEL
      /\ frame_width' = frame_width /\ frame_height' = frame_height
  BY PictureEncoded
<1>3. /\ Pictures' = Pictures /\ Shapes' = Shapes
      /\ Dictionary(sps_rbsp(seq_param))' = Dictionary(sps_rbsp(seq_param))
      /\ Dictionary(pps_rbsp(1))' = Dictionary(pps_rbsp(1))
  BY <1>2, Unchanging
<1>4. reconstructed' \in [0..SURFACE_NUM - 1 -> Int]
  <2>1. DisplayOrder(e) \in Nat
    <3>1. /\ Base(e) \in Nat /\ Order(e) \in Nat
          /\ DisplayOrder(e) = Base(e) + Order(e)
      BY <1>1, NumbersOf
    <3> QED
      BY <3>1
  <2>2. reconstructed' = [reconstructed EXCEPT
          ![DisplayOrder(e) % SURFACE_NUM] = DisplayOrder(e)]
    BY PictureEncoded
  <2>3. reconstructed \in [0..SURFACE_NUM - 1 -> Int]
    BY DEF Steady
  <2> QED
    BY <2>1, <2>2, <2>3, SurfaceTaken
<1>5. idr_pic_id' \in Nat /\ decoder'.prevIdrId \in {-1, idr_pic_id'}
  <2>1. /\ idr_pic_id' = Id(e)
        /\ decoder'.prevIdrId = IF FrameType(e) = "IDR" THEN Id(e) ELSE -1
    BY PictureEncoded
  <2>2. idr_pic_id \in Nat
    BY DEF Steady
  <2>3. Id(e) \in Nat
    BY <2>2 DEF Id, NextIdrPicId
  <2> QED
    BY <2>1, <2>3
<1>6. /\ decoder'.sps = Dictionary(sps_rbsp(seq_param))
      /\ decoder'.pps = Dictionary(pps_rbsp(1))
  <2>1. decoder'.sps = SpsOf(e) /\ decoder'.pps = PpsOf(e)
    BY PictureEncoded
  <2> QED
    BY <2>1, SetsAnnounced
<1>7. e + 1 \in 0..Pictures /\ e + 1 # 0
  BY <1>1
<1>8. /\ ppShape \in Shapes /\ TO_DEL \in BOOLEAN
      /\ frame_width \in {32, 38} /\ frame_height = 16
  BY DEF Steady
<1> HIDE DEF e
<1> QED
  BY <1>2, <1>3, <1>4, <1>5, <1>6, <1>7, <1>8 DEF Steady

(* The group with the reference picture e in it.                           *)
LEMMA ReferenceJoins ==
  ASSUME Steady, Grouped, EncodePicture, NEW e, e = current_frame_encoding,
         FrameType(e) # "B"
  PROVE  LET P == ppShape.ip
             c == Number(e)
         IN  /\ current_frame_num' = c + 1
             /\ ReferenceFrames' = Refs(P, Base(e), c + 1)
             /\ Stored(P, Base(e), c + 1, reconstructed')
             /\ poc_ref' = [msb |-> 0, lsb |-> c * P]
             /\ decoder'.dpb = Frames(P, Base(e), c + 1)
             /\ decoder'.prevFrameNum = c
             /\ decoder'.prevMsb = 0 /\ decoder'.prevLsb = c * P
<1> DEFINE P == ppShape.ip
           c == Number(e)
           base == Base(e)
<1>1. e < Pictures /\ ppShape \in Shapes
  BY PictureEncoded, EncodingCounts
<1>2. /\ base \in Nat /\ c \in Nat /\ Order(e) \in Nat
      /\ DisplayOrder(e) = base + Order(e) /\ Order(e) = c * P
      /\ c < 2^Log2MaxFrameNum
  BY <1>1, NumbersOf
<1>3. Period(P)
  BY <1>1, PeriodOf
<1>4. DisplayOrder(e) = ShownAt(P, base, c)
  BY <1>2 DEF ShownAt
<1>5. Current(e) = Ref(P, base, c) /\ Incoming(e) = Frame(P, base, c)
  BY <1>2, <1>4 DEF Current, Incoming, Ref, Frame
<1>6. /\ current_frame_num' = NextFrameNum(FrameType(e), c)
      /\ ReferenceFrames'
           = update_ReferenceFrames(FrameType(e), Held(e), Current(e))
      /\ poc_ref' = [msb |-> 0, lsb |-> Order(e)]
      /\ reconstructed' = [reconstructed EXCEPT
           ![DisplayOrder(e) % SURFACE_NUM] = DisplayOrder(e)]
      /\ decoder'.dpb = SlidingWindow(Buffered(e), Incoming(e), num_ref_frames)
      /\ decoder'.prevFrameNum = c
      /\ decoder'.prevMsb = 0 /\ decoder'.prevLsb = Order(e)
  BY PictureEncoded
<1>7. current_frame_num' = c + 1
  <2>1. 2^Log2MaxFrameNum \in Nat
    BY PicturesAssumption
  <2>2. ~(c + 1 > MaxFrameNum)
    BY <1>2, <2>1 DEF MaxFrameNum
  <2> HIDE DEF c
  <2>3. NextFrameNum(FrameType(e), c) = c + 1
    BY <2>2 DEF NextFrameNum
  <2> QED
    BY <1>6, <2>3
<1>8. Held(e) = Refs(P, base, c) /\ Buffered(e) = Frames(P, base, c)
  BY DEF Held, Buffered
<1>9. Stored(P, base, c, reconstructed)
  BY AgreedBefore DEF Agreed
<1>10. reconstructed \in [0..SURFACE_NUM - 1 -> Int]
  BY DEF Steady
<1> HIDE DEF P, c, base
<1>11. ReferenceFrames' = Refs(P, base, c + 1)
  BY <1>2, <1>3, <1>5, <1>6, <1>8, RefsGrow
<1>12. decoder'.dpb = Frames(P, base, c + 1)
  BY <1>2, <1>3, <1>5, <1>6, <1>8, FramesGrow
<1>13. Stored(P, base, c + 1, reconstructed')
  <2> DEFINE shown == DisplayOrder(e)
  <2>1. shown = ShownAt(P, base, c)
    BY <1>4
  <2>2. reconstructed' = [reconstructed EXCEPT ![shown % SURFACE_NUM] = shown]
    BY <1>6
  <2> HIDE DEF shown
  <2> QED
    BY <1>2, <1>3, <1>9, <1>10, <2>1, <2>2, ReferenceStored
<1> QED
  BY <1>2, <1>6, <1>7, <1>11, <1>12, <1>13 DEF P, c, base

(* A B picture takes a surface, and changes nothing else of the group.     *)
LEMMA BPasses ==
  ASSUME Steady, Grouped, EncodePicture, NEW e, e = current_frame_encoding,
         FrameType(e) = "B"
  PROVE  LET P == ppShape.ip
             c == Number(e)
         IN  /\ current_frame_num' = c
             /\ ReferenceFrames' = Refs(P, Base(e), c)
             /\ Stored(P, Base(e), c, reconstructed')
             /\ poc_ref' = [msb |-> 0, lsb |-> (c - 1) * P]
             /\ decoder'.dpb = Frames(P, Base(e), c)
             /\ decoder'.prevFrameNum = c - 1
             /\ decoder'.prevMsb = 0 /\ decoder'.prevLsb = (c - 1) * P
<1> DEFINE P == ppShape.ip
           c == Number(e)
           base == Base(e)
           d == Order(e)
<1>1. e < Pictures /\ ppShape \in Shapes
  BY PictureEncoded, EncodingCounts
<1>2. /\ base \in Nat /\ c \in Nat /\ d \in Nat
      /\ DisplayOrder(e) = base + d
      /\ c >= 2 /\ (c - 2) * P < d /\ d < (c - 1) * P
  BY <1>1, NumbersOf
<1>3. Period(P)
  BY <1>1, PeriodOf
<1>4. /\ current_frame_num' = NextFrameNum("B", c)
      /\ ReferenceFrames' = update_ReferenceFrames("B", Held(e), Current(e))
      /\ poc_ref' = poc_ref
      /\ reconstructed' = [reconstructed EXCEPT
           ![DisplayOrder(e) % SURFACE_NUM] = DisplayOrder(e)]
      /\ decoder'.dpb = Buffered(e)
      /\ decoder'.prevFrameNum = decoder.prevFrameNum
      /\ decoder'.prevMsb = decoder.prevMsb
      /\ decoder'.prevLsb = decoder.prevLsb
  BY PictureEncoded
<1>5. /\ Stored(P, base, c, reconstructed)
      /\ poc_ref = [msb |-> 0, lsb |-> (c - 1) * P]
      /\ decoder.prevFrameNum = c - 1
      /\ decoder.prevMsb = 0 /\ decoder.prevLsb = (c - 1) * P
  <2>1. Agreed(e) /\ FrameType(e) # "IDR"
    BY AgreedBefore
  <2> QED
    BY <2>1 DEF Agreed
<1>6. current_frame_num' = c
  BY <1>4 DEF NextFrameNum
<1>7. /\ ReferenceFrames' = Refs(P, base, c) /\ decoder'.dpb = Frames(P, base, c)
  BY <1>4 DEF update_ReferenceFrames, Held, Buffered
<1>8. reconstructed \in [0..SURFACE_NUM - 1 -> Int]
  BY DEF Steady
<1> HIDE DEF P, c, base, d
<1>9. Stored(P, base, c, reconstructed')
  <2> DEFINE shown == DisplayOrder(e)
  <2>1. shown = base + d /\ d \in Int
    BY <1>2
  <2>2. reconstructed' = [reconstructed EXCEPT ![shown % SURFACE_NUM] = shown]
    BY <1>4
  <2> HIDE DEF shown
  <2> QED
    BY <1>2, <1>3, <1>5, <1>8, <2>1, <2>2, BStored
<1> QED
  BY <1>4, <1>5, <1>6, <1>7, <1>9 DEF P, c, base

LEMMA GroupedKept ==
  ASSUME Steady, Grouped, EncodePicture
  PROVE  Grouped'
<1> SUFFICES ASSUME NEW e, e = current_frame_encoding,
                    NEW base, base = Base(e),
                    NEW c, c = IF FrameType(e) = "B" THEN Number(e)
                                                     ELSE Number(e) + 1
             PROVE  Grouped'
  OBVIOUS
<1> DEFINE P == ppShape.ip
<1>1. e \in Nat /\ e < Pictures /\ ppShape \in Shapes
  BY PictureEncoded, EncodingCounts
<1>2. /\ current_frame_encoding' = e + 1 /\ current_IDR_display' = base
      /\ ppShape' = ppShape
      /\ frame_width' = frame_width /\ frame_height' = frame_height
  BY PictureEncoded
<1>3. /\ Place(e + 1) \in {0, e + 1 - base} /\ base \in Nat
      /\ e + 1 - base \in Nat \ {0}
  BY <1>1, NumbersOf
<1>4. /\ c \in Nat \ {0} /\ Reached(P, e + 1 - base, c)
      /\ (c - 1) * P < 2^Log2MaxPicOrderCntLsb
      /\ current_frame_num' = c
      /\ ReferenceFrames' = Refs(P, base, c)
      /\ Stored(P, base, c, reconstructed')
      /\ poc_ref' = [msb |-> 0, lsb |-> (c - 1) * P]
      /\ decoder'.dpb = Frames(P, base, c)
      /\ decoder'.prevFrameNum = c - 1
      /\ decoder'.prevMsb = 0 /\ decoder'.prevLsb = (c - 1) * P
  <2>1. CASE FrameType(e) = "B"
    <3>1. c = Number(e)
      BY <2>1
    <3>2. /\ Number(e) \in Nat /\ Number(e) >= 2
          /\ Reached(P, e + 1 - base, Number(e))
          /\ (Number(e) - 1) * P < 2^Log2MaxPicOrderCntLsb
      BY <1>1, <2>1, NumbersOf
    <3>3. Number(e) \in Nat \ {0}
      BY <3>2
    <3> QED
      BY <2>1, <3>1, <3>2, <3>3, BPasses
  <2>2. CASE FrameType(e) # "B"
    <3> DEFINE n == Number(e)
    <3>1. c = n + 1
      BY <2>2
    <3>2. /\ n \in Nat /\ Reached(P, e + 1 - base, n + 1)
          /\ n * P < 2^Log2MaxPicOrderCntLsb
      BY <1>1, <2>2, NumbersOf
    <3>3. /\ current_frame_num' = n + 1
          /\ ReferenceFrames' = Refs(P, base, n + 1)
          /\ Stored(P, base, n + 1, reconstructed')
          /\ poc_ref' = [msb |-> 0, lsb |-> n * P]
          /\ decoder'.dpb = Frames(P, base, n + 1)
          /\ decoder'.prevFrameNum = n
          /\ decoder'.prevMsb = 0 /\ decoder'.prevLsb = n * P
      BY <2>2, ReferenceJoins
    <3> HIDE DEF n
    <3>4. n + 1 \in Nat \ {0} /\ (n + 1) - 1 = n
      BY <3>2
    <3> HIDE DEF P
    <3> QED
      BY <3>1, <3>2, <3>3, <3>4
  <2> QED
    BY <2>1, <2>2
<1>5. GroupSoFar(current_frame_encoding - current_IDR_display, current_IDR_display,
            current_frame_num)'
  <2>1. ppShape'.ip = P
    BY <1>2
  <2> HIDE DEF P
  <2>2. /\ current_frame_encoding' - current_IDR_display' = e + 1 - base
        /\ current_IDR_display' = base /\ current_frame_num' = c
    BY <1>1, <1>2, <1>3, <1>4
  <2>3. /\ Reached(P, e + 1 - base, c) /\ c \in Nat \ {0}
        /\ e + 1 - base \in Nat \ {0} /\ base \in Nat
    BY <1>3, <1>4
  <2> QED
    BY <1>4, <2>1, <2>2, <2>3 DEF GroupSoFar
<1>6. Place(current_frame_encoding)' = Place(e + 1)
  BY <1>2 DEF Place, Gop!GopPlace, Gop!IdrPeriod
<1> QED
  BY <1>1, <1>2, <1>3, <1>5, <1>6 DEF Grouped

(* SortedList that begin with the same pictures: those of the encoder with      *)
(* references whose surfaces hold what those of the decoder show.          *)
Alike(lists, read, held) ==
  /\ Len(lists) \in Nat /\ Len(read) = Len(lists)
  /\ \A l \in 1..Len(lists) :
       /\ lists[l][1] \in held /\ read[l] # <<>>
       /\ reconstructed[lists[l][1].picture_id] = read[l][1].display

LEMMA AlikeAgree ==
  ASSUME NEW lists, NEW read, NEW held, Alike(lists, read, held)
  PROVE  LET refs == [l \in 1..Len(lists) |->
                        reconstructed[Active(lists)[l].picture_id]]
         IN  /\ refs = [l \in 1..Len(read) |->
                          IF read[l] = <<>> THEN -1 ELSE read[l][1].display]
             /\ ToSet(refs) \subseteq {reconstructed[r.picture_id] :
                                         r \in Given(lists, held)}
<1> DEFINE n == Len(lists)
           refs == [l \in 1..n |-> reconstructed[Active(lists)[l].picture_id]]
<1>1. /\ Len(read) = n
      /\ \A l \in 1..n :
           /\ lists[l][1] \in held /\ read[l] # <<>>
           /\ reconstructed[lists[l][1].picture_id] = read[l][1].display
  BY DEF Alike
<1>2. /\ DOMAIN Active(lists) = 1..n
      /\ \A l \in 1..n : Active(lists)[l] = lists[l][1]
  BY DEF Active
<1>3. DOMAIN refs = 1..n
  OBVIOUS
<1> HIDE DEF n
<1>4. refs = [l \in 1..Len(read) |->
                IF read[l] = <<>> THEN -1 ELSE read[l][1].display]
  BY <1>1, <1>2
<1>5. \A l \in 1..n : Active(lists)[l] \in Given(lists, held)
  <2>1. CASE TO_DEL
    <3>1. Given(lists, held) = ToSet(Active(lists))
      BY <2>1 DEF Given
    <3> QED
      BY <1>2, <3>1 DEF ToSet
  <2>2. CASE ~TO_DEL
    <3>1. Given(lists, held) = held
      BY <2>2 DEF Given
    <3> QED
      BY <1>1, <1>2, <3>1
  <2> QED
    BY <2>1, <2>2
<1>6. ToSet(refs) \subseteq {reconstructed[r.picture_id] : r \in Given(lists, held)}
  BY <1>3, <1>5 DEF ToSet
<1> QED
  BY <1>4, <1>6 DEF n

LEMMA ListsAlike ==
  ASSUME Steady, Grouped, NEW e, e = current_frame_encoding, e < Pictures
  PROVE  /\ Alike(Sent(e), Read(e), ToSet(Held(e)))
         /\ FrameType(e) = "B" => SidesExist(ToSet(Held(e)), Order(e))
<1> DEFINE P == ppShape.ip
           c == Number(e)
           base == Base(e)
           held == ToSet(Refs(P, base, c))
           h == Dictionary(HeaderOf(e))
           sps == SpsOf(e)
<1>1. e \in Nat /\ ppShape \in Shapes /\ FrameType(e) \in Types /\ Period(P)
  <2>1. e \in Nat /\ ppShape \in Shapes
    BY EncodingCounts
  <2> QED
    BY <2>1, TypeOf, PeriodOf
<1>2. /\ base \in Nat /\ c \in Nat
      /\ FrameType(e) # "IDR" => c >= 1
      /\ FrameType(e) = "B" => /\ c >= 2 /\ Order(e) \in Int
                               /\ (c - 2) * P < Order(e)
                               /\ Order(e) < (c - 1) * P
  BY NumbersOf
<1>3. h["slice_type"] = slice_type(FrameType(e)) /\ h["frame_num"] = c
  BY HeaderRead
<1>4. /\ ToSet(Held(e)) = held
      /\ Sent(e) = update_RefPicList(FrameType(e), held, Order(e))
      /\ Read(e) = DecodedLists(h, Frames(P, base, c), Order(e), sps)
  BY DEF Held, Sent, Read, Buffered
<1>5. Stored(P, base, c, reconstructed)
  BY AgreedBefore DEF Agreed
<1> HIDE DEF P, c, base, h, sps
<1>6. CASE FrameType(e) \in {"IDR", "I"}
  <2>1. h["slice_type"] = 2
    BY <1>3, <1>6 DEF slice_type
  <2>2. Read(e) = <<>>
    BY <1>4, <2>1 DEF DecodedLists
  <2>3. Sent(e) = <<>>
    BY <1>4, <1>6 DEF update_RefPicList
  <2> QED
    BY <1>6, <2>2, <2>3 DEF Alike
<1>7. CASE FrameType(e) = "P"
  <2>1. h["slice_type"] = 0
    BY <1>3, <1>7 DEF slice_type
  <2>2. c \in Nat \ {0} /\ 1 \in 1..Kept(c)
    <3>1. c >= 1 /\ Kept(c) \in Nat /\ Kept(c) >= 1
      BY <1>2, <1>7, KeptFacts
    <3> QED
      BY <1>2, <3>1
  <2>3. /\ Len(Sent(e)) = 1 /\ Sent(e)[1][1] = Ref(P, base, c - 1)
        /\ Ref(P, base, c - 1) \in held
    BY <1>1, <1>2, <1>4, <1>7, <2>2, DriverP
  <2>4. /\ Len(Read(e)) = 1 /\ Read(e)[1] # <<>>
        /\ Read(e)[1][1].display = ShownAt(P, base, c - 1)
    BY <1>1, <1>2, <1>3, <1>4, <2>1, <2>2, DecoderP
  <2>5. reconstructed[Ref(P, base, c - 1).picture_id] = ShownAt(P, base, c - 1)
    BY <1>5, <2>2 DEF Stored
  <2>6. \A l \in 1..1 : l = 1
    OBVIOUS
  <2> QED
    BY <1>4, <1>7, <2>3, <2>4, <2>5, <2>6 DEF Alike
<1>8. CASE FrameType(e) = "B"
  <2>1. h["slice_type"] = 1
    BY <1>3, <1>8 DEF slice_type
  <2>2. c >= 2 /\ 1 \in 1..Kept(c) /\ 2 \in 1..Kept(c)
    <3>1. c >= 2 /\ Kept(c) \in Nat /\ Kept(c) >= 2
      BY <1>2, <1>8, KeptFacts
    <3> QED
      BY <3>1
  <2>3. /\ Len(Sent(e)) = 2
        /\ Sent(e)[1][1] = Ref(P, base, c - 2)
        /\ Sent(e)[2][1] = Ref(P, base, c - 1)
        /\ Ref(P, base, c - 1) \in held /\ Ref(P, base, c - 2) \in held
        /\ SidesExist(held, Order(e))
    BY <1>1, <1>2, <1>4, <1>8, DriverB
  <2>4. /\ Len(Read(e)) = 2 /\ Read(e)[1] # <<>> /\ Read(e)[2] # <<>>
        /\ Read(e)[1][1].display = ShownAt(P, base, c - 2)
        /\ Read(e)[2][1].display = ShownAt(P, base, c - 1)
    BY <1>1, <1>2, <1>4, <1>8, <2>1, DecoderB
  <2>5. /\ reconstructed[Ref(P, base, c - 1).picture_id] = ShownAt(P, base, c - 1)
        /\ reconstructed[Ref(P, base, c - 2).picture_id] = ShownAt(P, base, c - 2)
    BY <1>5, <2>2 DEF Stored
  <2>6. \A l \in 1..2 : l = 1 \/ l = 2
    OBVIOUS
  <2> QED
    BY <1>4, <1>8, <2>3, <2>4, <2>5, <2>6 DEF Alike
<1> QED
  BY <1>1, <1>6, <1>7, <1>8 DEF Types

LEMMA FollowedKept ==
  ASSUME Steady, Grouped, EncodePicture
  PROVE  Followed'
<1> SUFFICES ASSUME NEW e, e = current_frame_encoding
             PROVE  Followed'
  OBVIOUS
<1>1. e < Pictures
  BY PictureEncoded
<1>2. HeadersConform'
  <2>1. /\ last'.nal = nal_header(FrameType(e)) /\ last'.elements = HeaderOf(e)
        /\ decoder'.sps = SpsOf(e) /\ decoder'.pps = PpsOf(e)
    BY PictureEncoded
  <2>2. Conforms(HeaderOf(e),
                 SliceSyntax(nal_header(FrameType(e)),
                             Dictionary(HeaderOf(e))["slice_type"],
                             SpsOf(e), PpsOf(e)))
    BY <1>1, HeaderRead
  <2> DEFINE n == nal_header(FrameType(e))
             h == HeaderOf(e)
             s == SpsOf(e)
             p == PpsOf(e)
  <2>3. /\ last'.nal = n /\ last'.elements = h
        /\ decoder'.sps = s /\ decoder'.pps = p
        /\ Conforms(h, SliceSyntax(n, Dictionary(h)["slice_type"], s, p))
    BY <2>1, <2>2
  <2> HIDE DEF n, h, s, p
  <2> QED
    BY <2>3 DEF HeadersConform
<1>3. NumbersLegal'
  BY PictureEncoded DEF NumbersLegal
<1>4. OrderCountsAgree'
  <2>1. /\ last'.poc = Order(e) /\ last'.decodedPoc = Order(e)
        /\ last'.display = DisplayOrder(e) /\ last'.idr_display = Base(e)
    BY PictureEncoded
  <2> QED
    BY <2>1 DEF OrderCountsAgree, Order
<1>5. ReferencesAgree'
  <2>1. /\ last'.refs = [l \in 1..Len(Sent(e)) |->
             reconstructed[Active(Sent(e))[l].picture_id]]
        /\ last'.given = {reconstructed[r.picture_id] :
                            r \in Given(Sent(e), ToSet(Held(e)))}
        /\ last'.decodedRefs = [l \in 1..Len(Read(e)) |->
             IF Read(e)[l] = <<>> THEN -1 ELSE Read(e)[l][1].display]
    BY PictureEncoded
  <2>2. Alike(Sent(e), Read(e), ToSet(Held(e)))
    BY <1>1, ListsAlike
  <2> DEFINE lists == Sent(e)
             read == Read(e)
             held == ToSet(Held(e))
  <2>3. LET refs == [l \in 1..Len(lists) |->
                       reconstructed[Active(lists)[l].picture_id]]
        IN  /\ refs = [l \in 1..Len(read) |->
                         IF read[l] = <<>> THEN -1 ELSE read[l][1].display]
            /\ ToSet(refs) \subseteq {reconstructed[r.picture_id] :
                                        r \in Given(lists, held)}
    BY <2>2, AlikeAgree
  <2>4. last'.refs = last'.decodedRefs /\ ToSet(last'.refs) \subseteq last'.given
    BY <2>1, <2>3
  <2> QED
    BY <2>4 DEF ReferencesAgree, ToSet
<1>6. PartitionInside'
  <2>1. last'.sidesExist = (FrameType(e) = "B" =>
                              SidesExist(ToSet(Held(e)), Order(e)))
    BY PictureEncoded
  <2> QED
    BY <1>1, <2>1, ListsAlike DEF PartitionInside
<1> QED
  BY <1>2, <1>3, <1>4, <1>5, <1>6 DEF Followed

LEMMA PpStarts == PpInit => PpInv
<1> SUFFICES ASSUME PpInit PROVE PpInv
  OBVIOUS
<1>1. Steady
  <2>1. Pictures \in Nat
    <3>1. ppShape \in Shapes
      BY DEF PpInit
    <3>2. /\ 2^Log2MaxPicOrderCntLsb \in Nat /\ MaxPictures \in Nat
          /\ ppShape.ip \in Nat \ {0} /\ ppShape.ip <= MaxIpPeriod
          /\ MaxIpPeriod \in Nat /\ 2 * MaxIpPeriod <= 2^Log2MaxPicOrderCntLsb
      BY <3>1, ShapeFacts, PicturesAssumption
    <3> QED
      BY <3>2 DEF Pictures
  <2> QED
    BY <2>1 DEF PpInit, Steady
<1>2. Grouped
  BY DEF PpInit, Grouped
<1>3. Followed
  <2>1. last = Nothing
    BY DEF PpInit
  <2>2. /\ last.type = "none" /\ last.legal /\ last.sidesExist
        /\ last.poc = 0 /\ last.decodedPoc = 0
        /\ last.display = 0 /\ last.idr_display = 0
        /\ last.refs = <<>> /\ last.decodedRefs = <<>> /\ last.given = {}
    BY <2>1 DEF Nothing
  <2>3. ToSet(last.refs) \subseteq last.given
    BY <2>2 DEF ToSet
  <2> QED
    BY <2>2, <2>3 DEF Followed, HeadersConform, NumbersLegal, OrderCountsAgree,
                      ReferencesAgree, PartitionInside
<1> QED
  BY <1>1, <1>2, <1>3 DEF PpInv

LEMMA PpStays == PpInv /\ UNCHANGED ppVars => PpInv'
<1> SUFFICES ASSUME PpInv, UNCHANGED ppVars PROVE PpInv'
  OBVIOUS
<1>1. /\ ppShape' = ppShape /\ TO_DEL' = TO_DEL
      /\ frame_width' = frame_width /\ frame_height' = frame_height
      /\ current_frame_encoding' = current_frame_encoding
      /\ current_frame_num' = current_frame_num
      /\ current_IDR_display' = current_IDR_display
      /\ ReferenceFrames' = ReferenceFrames /\ idr_pic_id' = idr_pic_id
      /\ poc_ref' = poc_ref /\ reconstructed' = reconstructed
      /\ decoder' = decoder /\ last' = last
  BY DEF ppVars, encoderState
<1>2. /\ Pictures' = Pictures /\ Shapes' = Shapes
      /\ Dictionary(sps_rbsp(seq_param))' = Dictionary(sps_rbsp(seq_param))
      /\ Dictionary(pps_rbsp(1))' = Dictionary(pps_rbsp(1))
  BY <1>1, Unchanging
<1>3. Steady'
  BY <1>1, <1>2 DEF PpInv, Steady
<1>4. Grouped'
  <2>1. Place(current_frame_encoding)' = Place(current_frame_encoding)
    BY <1>1 DEF Place, Gop!GopPlace, Gop!IdrPeriod
  <2> QED
    BY <1>1, <2>1 DEF PpInv, Grouped, GroupSoFar
<1>5. Followed'
  BY <1>1 DEF PpInv, Followed, HeadersConform, NumbersLegal, OrderCountsAgree,
              ReferencesAgree, PartitionInside
<1> QED
  BY <1>3, <1>4, <1>5 DEF PpInv

LEMMA InvFollows == PpInv => DecoderFollows
<1> SUFFICES ASSUME PpInv PROVE DecoderFollows
  OBVIOUS
<1>1. Followed /\ Steady
  BY DEF PpInv
<1>2. CroppedSize
  <2>1. ASSUME decoder.sps # <<>>
        PROVE  decoder.sps = Dictionary(sps_rbsp(seq_param))
    <3>1. current_frame_encoding \in Nat
      BY <1>1, EncodingCounts
    <3>2. current_frame_encoding # 0
      BY <1>1, <2>1 DEF Steady
    <3> QED
      BY <1>1, <3>1, <3>2 DEF Steady
  <2>2. frame_width \in {32, 38} /\ frame_height = 16
    BY <1>1 DEF Steady
  <2> DEFINE d == Dictionary(sps_rbsp(seq_param))
             crop == IF d["frame_cropping_flag"] = 1
                     THEN 2 * (d["frame_crop_left_offset"]
                                 + d["frame_crop_right_offset"]) ELSE 0
  <2>3. 16 * (d["pic_width_in_mbs_minus1"] + 1) - crop = frame_width
    BY <2>2, ParameterSets
  <2> HIDE DEF d
  <2> QED
    BY <2>1, <2>3 DEF CroppedSize, d
<1> QED
  BY <1>1, <1>2 DEF Followed, DecoderFollows

LEMMA InvTyped == PpInv => PpTypeOK
<1> SUFFICES ASSUME PpInv PROVE PpTypeOK
  OBVIOUS
<1>1. Steady /\ Grouped
  BY DEF PpInv
<1>2. /\ current_frame_encoding \in 0..Pictures
      /\ reconstructed \in [0..SURFACE_NUM - 1 -> Int]
  BY <1>1 DEF Steady
<1>3. /\ Len(ReferenceFrames) <= num_ref_frames
      /\ \A i, j \in 1..Len(ReferenceFrames) :
           ReferenceFrames[i].picture_id = ReferenceFrames[j].picture_id
             => i = j
  <2>1. CASE current_frame_encoding = 0
    <3>1. ReferenceFrames = <<>>
      BY <1>1, <2>1 DEF Steady
    <3>2. num_ref_frames \in Nat
      BY PicturesAssumption
    <3> QED
      BY <3>1, <3>2
  <2>2. CASE current_frame_encoding # 0
    <3> DEFINE P == ppShape.ip
               base == current_IDR_display
               c == current_frame_num
    <3>1. GroupSoFar(current_frame_encoding - base, base, c)
      <4>1. current_frame_encoding \in Nat
        BY <1>1, EncodingCounts
      <4> QED
        BY <1>1, <2>2, <4>1 DEF Grouped
    <3>2. base \in Nat /\ c \in Nat /\ ReferenceFrames = Refs(P, base, c)
      BY <3>1 DEF GroupSoFar
    <3>3. Period(P)
      BY <1>1, PeriodOf DEF Steady
    <3> HIDE DEF P, base, c
    <3>4. /\ Len(ReferenceFrames) = Kept(c)
          /\ \A i \in 1..Kept(c) : ReferenceFrames[i] = Ref(P, base, c - i)
      <4>1. /\ Len(Refs(P, base, c)) = Kept(c)
            /\ \A i \in 1..Kept(c) : Refs(P, base, c)[i] = Ref(P, base, c - i)
        BY <3>2, <3>3, RefsFacts, ZenonT(60)
      <4> QED
        BY <3>2, <4>1
    <3>5. Kept(c) \in Nat /\ Kept(c) <= num_ref_frames
      BY <3>2, KeptFacts
    <3>6. ASSUME NEW i \in 1..Kept(c), NEW j \in 1..Kept(c), i < j
          PROVE  ReferenceFrames[i].picture_id # ReferenceFrames[j].picture_id
      BY <3>2, <3>3, <3>4, <3>6, RefsApart
    <3>7. \A i, j \in 1..Kept(c) : i = j \/ i < j \/ j < i
      BY <3>5
    <3> QED
      BY <3>4, <3>5, <3>6, <3>7
  <2> QED
    BY <2>1, <2>2
<1> QED
  BY <1>2, <1>3 DEF PpTypeOK

THEOREM PicturesInvariant == PpSpec => []PpInv
<1>1. PpInit => PpInv
  BY PpStarts
<1>2. PpInv /\ [PpNext \/ (PpEnded /\ UNCHANGED ppVars)]_ppVars => PpInv'
  <2>1. PpInv /\ PpNext => PpInv'
    BY SteadyKept, GroupedKept, FollowedKept DEF PpInv, PpNext
  <2> QED
    BY <2>1, PpStays
<1> QED
  BY <1>1, <1>2, PTL DEF PpSpec

THEOREM TheDecoderFollows == PpSpec => []DecoderFollows
BY PicturesInvariant, InvFollows, PTL

THEOREM PicturesTypeCorrect == PpSpec => []PpTypeOK
BY PicturesInvariant, InvTyped, PTL
=============================================================================
