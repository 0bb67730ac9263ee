------------------------------- MODULE Headers -------------------------------
(***************************************************************************)
(* The headers that src/hwEncode/testDemo/encodeTest.c writes into the     *)
(* stream - sequence and picture parameter set and slice header - as       *)
(* sequences of elements, and the syntax of ITU-T H.264 (7.3) by which a   *)
(* decoder reads them: which element comes next, and in how many bits,     *)
(* depends on what it has read before.                                     *)
(***************************************************************************)
EXTENDS Integers, SequencesExt

U(n) == <<"u", n>>
UE == <<"ue", 0>>
SE == <<"se", 0>>

Element(name, code, val) == [name |-> name, code |-> code, val |-> val]
Flag(name, val) == Element(name, U(1), val)
When(condition, elements) == IF condition THEN elements ELSE <<>>

-----------------------------------------------------------------------------
(* sps_rbsp.  sps has the fields of seq_param that are written. *)
sps_rbsp(sps) ==
  <<Element("profile_idc", U(8), sps.profile_idc)>>
  \o [i \in 1..4 |-> Flag("constraint_set_flag",
                          IF i - 1 \in sps.constraint_set_flag THEN 1 ELSE 0)]
  \o <<Element("reserved_zero_4bits", U(4), 0),
       Element("level_idc", U(8), 41),
       Element("seq_parameter_set_id", UE, 0)>>
  \o When(sps.profile_idc = 100,
       <<Element("chroma_format_idc", UE, 1),
         Element("bit_depth_luma_minus8", UE, 0),
         Element("bit_depth_chroma_minus8", UE, 0),
         Flag("qpprime_y_zero_transform_bypass_flag", 0),
         Flag("seq_scaling_matrix_present_flag", 0)>>)
  \o <<Element("log2_max_frame_num_minus4", UE, sps.log2_frame_num - 4),
       Element("pic_order_cnt_type", UE, 0),
       Element("log2_max_pic_order_cnt_lsb_minus4", UE, sps.log2_poc_lsb - 4),
       Element("num_ref_frames", UE, sps.num_ref_frames),
       Flag("gaps_in_frame_num_value_allowed_flag", 0),
       Element("pic_width_in_mbs_minus1", UE, sps.width_in_mbs - 1),
       Element("pic_height_in_map_units_minus1", UE, sps.height_in_mbs - 1),
       Flag("frame_mbs_only_flag", 1), Flag("direct_8x8_inference_flag", 1),
       Flag("frame_cropping_flag", IF sps.cropping THEN 1 ELSE 0)>>
  \o When(sps.cropping,
       <<Element("frame_crop_left_offset", UE, 0),
         Element("frame_crop_right_offset", UE, sps.crop_right),
         Element("frame_crop_top_offset", UE, 0),
         Element("frame_crop_bottom_offset", UE, sps.crop_bottom)>>)
  \o <<Flag("vui_parameters_present_flag", 0)>>

(* pps_rbsp.  All fields of pic_param that are not set there are 0. *)
pps_rbsp(entropy_coding_mode) ==
  <<Element("pic_parameter_set_id", UE, 0),
    Element("seq_parameter_set_id", UE, 0),
    Flag("entropy_coding_mode_flag", entropy_coding_mode),
    Flag("pic_order_present_flag", 0),
    Element("num_slice_groups_minus1", UE, 0),
    Element("num_ref_idx_l0_active_minus1", UE, 0),
    Element("num_ref_idx_l1_active_minus1", UE, 0),
    Flag("weighted_pred_flag", 0), Element("weighted_bipred_idc", U(2), 0),
    Element("pic_init_qp_minus26", SE, 0),
    Element("pic_init_qs_minus26", SE, 0),
    Element("chroma_qp_index_offset", SE, 0),
    Flag("deblocking_filter_control_present_flag", 1),
    Flag("constrained_intra_pred_flag", 0),
    Flag("redundant_pic_cnt_present_flag", 0),
    Flag("transform_8x8_mode_flag", 0),
    Flag("pic_scaling_matrix_present_flag", 0),
    Element("second_chroma_qp_index_offset", SE, 0)>>

slice_type(type) == CASE type = "P" -> 0 [] type = "B" -> 1 [] OTHER -> 2

(* nal_header, as build_packed_slice_buffer calls it. *)
nal_header(type) ==
  [nal_ref_idc |-> CASE slice_type(type) = 2 -> 3 [] type = "P" -> 2
                     [] type = "B" -> 0,
   nal_unit_type |-> IF type = "IDR" THEN 5 ELSE 1]

slice_header_marks_all(type, pic, sps, entropy_coding_mode) ==
  <<Element("first_mb_in_slice", UE, 0),
    Element("slice_type", UE, slice_type(type)),
    Element("pic_parameter_set_id", UE, 0),
    Element("frame_num", U(sps.log2_frame_num), pic.frame_num)>>
  \o When(type = "IDR", <<Element("idr_pic_id", UE, pic.idr_pic_id)>>)
  \o <<Element("pic_order_cnt_lsb", U(sps.log2_poc_lsb), pic.poc)>>
  \o When(type = "B", <<Flag("direct_spatial_mv_pred_flag", 1)>>)
  \o When(type \in {"P", "B"},
       <<Flag("num_ref_idx_active_override_flag", 0),
         Flag("ref_pic_list_reordering_flag_l0", 0)>>)
  \o When(type = "B", <<Flag("ref_pic_list_reordering_flag_l1", 0)>>)
  \o When(type = "IDR", <<Flag("no_output_of_prior_pics_flag", 0),
                          Flag("long_term_reference_flag", 0)>>)
  \o When(type # "IDR",
          <<Flag("adaptive_ref_pic_marking_mode_flag", 0)>>)
  \o When(entropy_coding_mode = 1 /\ slice_type(type) # 2,
          <<Element("cabac_init_idc", UE, 0)>>)
  \o <<Element("slice_qp_delta", SE, 0),
       Element("disable_deblocking_filter_idc", UE, 0),
       Element("slice_alpha_c0_offset_div2", SE, 0),
       Element("slice_beta_offset_div2", SE, 0)>>

(* slice_header.  Which elements there are follows from pic_param here and  *)
(* from the NAL header in the decoder: reference_pic_flag is nal_ref_idc # *)
(* 0, idr_pic_flag is nal_unit_type = 5. *)
slice_header(type, pic, sps, entropy_coding_mode) ==
  <<Element("first_mb_in_slice", UE, 0),
    Element("slice_type", UE, slice_type(type)),
    Element("pic_parameter_set_id", UE, 0),
    Element("frame_num", U(sps.log2_frame_num), pic.frame_num)>>
  \o When(type = "IDR", <<Element("idr_pic_id", UE, pic.idr_pic_id)>>)
  \o <<Element("pic_order_cnt_lsb", U(sps.log2_poc_lsb), pic.poc)>>
  \o When(type = "B", <<Flag("direct_spatial_mv_pred_flag", 1)>>)
  \o When(type \in {"P", "B"},
       <<Flag("num_ref_idx_active_override_flag", 0),
         Flag("ref_pic_list_reordering_flag_l0", 0)>>)
  \o When(type = "B", <<Flag("ref_pic_list_reordering_flag_l1", 0)>>)
  \o When(type = "IDR", <<Flag("no_output_of_prior_pics_flag", 0),
                          Flag("long_term_reference_flag", 0)>>)
  \o When(type \in {"I", "P"},
          <<Flag("adaptive_ref_pic_marking_mode_flag", 0)>>)
  \o When(entropy_coding_mode = 1 /\ slice_type(type) # 2,
          <<Element("cabac_init_idc", UE, 0)>>)
  \o <<Element("slice_qp_delta", SE, 0),
       Element("disable_deblocking_filter_idc", UE, 0),
       Element("slice_alpha_c0_offset_div2", SE, 0),
       Element("slice_beta_offset_div2", SE, 0)>>

-----------------------------------------------------------------------------
(* What a decoder has read: the value of an element by its name.  A repeated *)
(* element counts with its first value. *)
Dictionary(elements) ==
  [name \in {elements[i].name : i \in 1..Len(elements)} |->
     elements[SelectInSeq(elements, LAMBDA e : e.name = name)].val]

(* The elements are those of the syntax, in its order and with its codes,  *)
(* and each value fits the bits it gets. *)
Conforms(elements, syntax) ==
  /\ [i \in 1..Len(elements) |-> <<elements[i].name, elements[i].code>>]
       = syntax
  /\ \A i \in 1..Len(elements) :
       elements[i].code[1] = "u" => elements[i].val \in 0..2^elements[i].code[2] - 1

(* 7.3.3, for frames of one slice, without slice groups, fields, redundant *)
(* pictures and weighted prediction, which the parameter sets exclude. *)
SliceSyntax(nal, type, sps, pps) ==
  LET inter == type \in {0, 1}
      idr == nal.nal_unit_type = 5
  IN  <<<<"first_mb_in_slice", UE>>, <<"slice_type", UE>>,
        <<"pic_parameter_set_id", UE>>,
        <<"frame_num", U(sps["log2_max_frame_num_minus4"] + 4)>>>>
      \o When(idr, <<<<"idr_pic_id", UE>>>>)
      \o <<<<"pic_order_cnt_lsb",
             U(sps["log2_max_pic_order_cnt_lsb_minus4"] + 4)>>>>
      \o When(type = 1, <<<<"direct_spatial_mv_pred_flag", U(1)>>>>)
      \o When(inter, <<<<"num_ref_idx_active_override_flag", U(1)>>,
                       <<"ref_pic_list_reordering_flag_l0", U(1)>>>>)
      \o When(type = 1, <<<<"ref_pic_list_reordering_flag_l1", U(1)>>>>)
      \o When(nal.nal_ref_idc # 0,
              IF idr THEN <<<<"no_output_of_prior_pics_flag", U(1)>>,
                            <<"long_term_reference_flag", U(1)>>>>
                     ELSE <<<<"adaptive_ref_pic_marking_mode_flag", U(1)>>>>)
      \o When(pps["entropy_coding_mode_flag"] = 1 /\ inter,
              <<<<"cabac_init_idc", UE>>>>)
      \o <<<<"slice_qp_delta", SE>>>>
      \o When(pps["deblocking_filter_control_present_flag"] = 1,
              <<<<"disable_deblocking_filter_idc", UE>>,
                <<"slice_alpha_c0_offset_div2", SE>>,
                <<"slice_beta_offset_div2", SE>>>>)
=============================================================================
