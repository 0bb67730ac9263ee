------------------------------ MODULE JpegRead ------------------------------
(***************************************************************************)
(* The way of the rows out of the decompressor of libjpeg:                 *)
(* jpeg_start_decompress and jpeg_read_scanlines, the main controller, the *)
(* postprocessor and the upsamplers (src/jpeg-9b/jdapistd.c, jdmainct.c,   *)
(* jdpostct.c, jdsample.c, jdmerge.c).  Of an iMCU row there are row       *)
(* groups, of a row group rows; the application takes as many rows at a    *)
(* time as it likes, and the source of the data may suspend.  A row is its *)
(* number in the image.                                                    *)
(*                                                                         *)
(* The other way of the main controller, with context rows, is never       *)
(* taken: no upsampler asks for them (jdsample.c:307, jdmerge.c:421).      *)
(*                                                                         *)
(* A definition without a comment, just before the one it resembles, is a  *)
(* plausible bug of that one; no specification uses it.                    *)
(***************************************************************************)
EXTENDS Integers, SequencesExt

CONSTANTS
  MaxOutputHeight,      \* bound on the rows of the image
  VSampFactors,         \* the values of max_v_samp_factor
  TwoPassVSampFactors,  \* and those with a two-pass quantizer
  MaxRowGroups          \* bound on min_DCT_v_scaled_size

VARIABLES
  jrd,            \* the image and how it is postprocessed
  jrdPlace,       \* "start", "scanning", or how it went wrong
  jrdMain,        \* my_main_controller, and how many iMCU rows it got
  upsample,       \* my_upsampler of either kind
  jrdPost,        \* my_post_controller: starting_row, next_row
  whole_image,    \* its virtual array: the row in each of its rows
  output_scanline,
  scanlines       \* the rows that the application got

jrdVars == <<jrd, jrdPlace, jrdMain, upsample, jrdPost, whole_image,
             output_scanline, scanlines>>

ASSUME JrdAssumption ==
  /\ {MaxOutputHeight, MaxRowGroups} \subseteq Nat \ {0}
  /\ VSampFactors \subseteq 1..4 /\ TwoPassVSampFactors \subseteq 1..4

V == jrd.max_v_samp_factor

(* jinit_d_post_controller: the height of the virtual array *)
ImageHeight == ((jrd.output_height - 1) \div V + 1) * V

(* prepare_for_output_pass with the start_pass of each module; upsampling  *)
(* and color conversion are merged for 1 or 2 rows in a group only. *)
JrdInit ==
  /\ jrd \in [output_height : 1..MaxOutputHeight,
              max_v_samp_factor : VSampFactors \cup TwoPassVSampFactors,
              groups : 1..MaxRowGroups, merged : BOOLEAN,
              quantize : {"no", "one pass", "two passes"}]
  /\ jrd.merged => V <= 2
  /\ V \in IF jrd.quantize = "two passes" THEN TwoPassVSampFactors
                                          ELSE VSampFactors
  /\ jrdPlace = IF jrd.quantize = "two passes" THEN "start" ELSE "scanning"
  /\ jrdMain = [buffer_full |-> FALSE, rowgroup_ctr |-> 0, iMCU_rows |-> 0]
  /\ upsample = [next_row_out |-> V, rows_to_go |-> jrd.output_height,
                 group |-> 0, spare_full |-> FALSE]
  /\ jrdPost = [starting_row |-> 0, next_row |-> 0]
  /\ whole_image = [r \in {} |-> 0]
  /\ output_scanline = 0 /\ scanlines = <<>>

-----------------------------------------------------------------------------
(* The row group that the upsampler is handed, counted from the top. *)
Group(m) == (m.iMCU_rows - 1) * jrd.groups + m.rowgroup_ctr

(* Rows i..i + n - 1 *)
Rows(i, n) == [k \in 1..n |-> i + k - 1]

sep_upsample_unbounded(m, room) ==
  LET fill == upsample.next_row_out >= V
      group == IF fill THEN Group(m) ELSE upsample.group
      next == IF fill THEN 0 ELSE upsample.next_row_out
      n == Min({V - next, room})
  IN  [rows |-> Rows(group * V + next, n),
       state |-> [upsample EXCEPT !.group = group, !.next_row_out = next + n,
                                  !.rows_to_go = @ - n],
       consumed |-> next + n >= V]
(* sep_upsample, with room for that many rows: what it emits, the state it *)
(* leaves, and whether it is done with the row group. *)
sep_upsample(m, room) ==
  LET fill == upsample.next_row_out >= V
      group == IF fill THEN Group(m) ELSE upsample.group
      next == IF fill THEN 0 ELSE upsample.next_row_out
      n == Min({V - next, upsample.rows_to_go, room})
  IN  [rows |-> Rows(group * V + next, n),
       state |-> [upsample EXCEPT !.group = group, !.next_row_out = next + n,
                                  !.rows_to_go = @ - n],
       consumed |-> next + n >= V]

merged_2v_upsample_loses_spare(m, room) ==
  LET n == Min({2, upsample.rows_to_go, room})
  IN  [rows |-> Rows(Group(m) * 2, n),
       state |-> [upsample EXCEPT !.rows_to_go = @ - n],
       consumed |-> TRUE]
(* merged_2v_upsample: the second row of a group may have to wait as the   *)
(* spare row. *)
merged_2v_upsample(m, room) ==
  LET n == IF upsample.spare_full THEN 1
           ELSE Min({2, upsample.rows_to_go, room})
      first == Group(m) * 2 + (IF upsample.spare_full THEN 1 ELSE 0)
      spare == ~upsample.spare_full /\ n <= 1
  IN  [rows |-> Rows(first, n),
       state |-> [upsample EXCEPT !.spare_full = spare, !.rows_to_go = @ - n],
       consumed |-> ~spare]

(* merged_1v_upsample *)
merged_1v_upsample(m) ==
  [rows |-> <<Group(m)>>, state |-> upsample, consumed |-> TRUE]

Upsampled(m, room) ==
  CASE ~jrd.merged -> sep_upsample(m, room)
    [] jrd.merged /\ V = 2 -> merged_2v_upsample(m, room)
    [] OTHER -> merged_1v_upsample(m)

-----------------------------------------------------------------------------
(* process_data_simple_main: decompress_data fills an empty buffer.  When  *)
(* it suspends instead, nothing changes and no row is returned. *)
Filled ==
  IF jrdMain.buffer_full THEN jrdMain
  ELSE [jrdMain EXCEPT !.buffer_full = TRUE, !.iMCU_rows = @ + 1]

(* The rest of it, after the postprocessor *)
Drained(m, consumed) ==
  LET ctr == m.rowgroup_ctr + (IF consumed THEN 1 ELSE 0)
  IN  IF ctr >= jrd.groups
      THEN [m EXCEPT !.buffer_full = FALSE, !.rowgroup_ctr = 0]
      ELSE [m EXCEPT !.rowgroup_ctr = ctr]

(* post_process_1pass never takes more than a strip. *)
Room(max_lines) ==
  IF jrd.quantize = "one pass" THEN Min({max_lines, V}) ELSE max_lines

(* jpeg_read_scanlines when there is no second pass *)
jpeg_read_scanlines(max_lines) ==
  /\ jrdPlace = "scanning" /\ jrd.quantize # "two passes"
  /\ output_scanline < jrd.output_height
  /\ LET up == Upsampled(Filled, Room(max_lines))
     IN  /\ jrdMain' = Drained(Filled, up.consumed)
         /\ upsample' = up.state
         /\ scanlines' = scanlines \o up.rows
         /\ output_scanline' = output_scanline + Len(up.rows)
  /\ UNCHANGED <<jrd, jrdPlace, jrdPost, whole_image>>

(* access_virt_sarray for a strip of the virtual array *)
StripExists == jrdPost.starting_row + V <= ImageHeight

Advanced(n) ==
  IF jrdPost.next_row + n >= V
  THEN [starting_row |-> jrdPost.starting_row + V, next_row |-> 0]
  ELSE [jrdPost EXCEPT !.next_row = @ + n]

(* output_pass_setup, called by jpeg_start_decompress: once through the    *)
(* loop of the dummy pass, with post_process_prepass.  Without progress it *)
(* returns as suspended. *)
DummyPass ==
  /\ jrdPlace = "start" /\ output_scanline < jrd.output_height
  /\ LET up == Upsampled(Filled, V - jrdPost.next_row)
         at == jrdPost.starting_row + jrdPost.next_row
     IN  /\ jrdMain' = Drained(Filled, up.consumed)
         /\ upsample' = up.state
         /\ whole_image' =
              [r \in DOMAIN whole_image \cup (at..at + Len(up.rows) - 1) |->
                 IF r >= at THEN up.rows[r - at + 1] ELSE whole_image[r]]
         /\ jrdPost' = Advanced(Len(up.rows))
         /\ output_scanline' = output_scanline + Len(up.rows)
         /\ jrdPlace' = CASE jrdPost.next_row = 0 /\ ~StripExists -> "error"
                          [] up.rows = <<>> -> "stalled"
                          [] OTHER -> "start"
  /\ UNCHANGED <<jrd, scanlines>>

(* output_pass_setup: the dummy pass is over, the second pass begins. *)
SecondPass ==
  /\ jrdPlace = "start" /\ output_scanline >= jrd.output_height
  /\ jrdPlace' = "scanning" /\ output_scanline' = 0
  /\ jrdPost' = [starting_row |-> 0, next_row |-> 0]
  /\ UNCHANGED <<jrd, jrdMain, upsample, whole_image, scanlines>>

TwoPassRowsWholeStrips(max_lines) == Min({V - jrdPost.next_row, max_lines})
(* post_process_2pass: how many rows to emit.  The rows left in the image  *)
(* are counted from the beginning of the strip. *)
TwoPassRows(max_lines) ==
  Min({V - jrdPost.next_row, max_lines,
       jrd.output_height - jrdPost.starting_row})

(* jpeg_read_scanlines in the second pass *)
jpeg_read_scanlines_2pass(max_lines) ==
  /\ jrdPlace = "scanning" /\ jrd.quantize = "two passes"
  /\ output_scanline < jrd.output_height
  /\ LET n == TwoPassRows(max_lines)
         at == jrdPost.starting_row + jrdPost.next_row
     IN  /\ scanlines' = scanlines \o
              [k \in 1..n |-> IF at + k - 1 \in DOMAIN whole_image
                              THEN whole_image[at + k - 1] ELSE -1]
         /\ jrdPost' = Advanced(n)
         /\ output_scanline' = output_scanline + n
         /\ jrdPlace' = IF jrdPost.next_row = 0 /\ ~StripExists THEN "error"
                        ELSE jrdPlace
  /\ UNCHANGED <<jrd, jrdMain, upsample, whole_image>>

JrdNext ==
  \/ \E n \in 1..MaxOutputHeight :
       jpeg_read_scanlines(n) \/ jpeg_read_scanlines_2pass(n)
  \/ DummyPass \/ SecondPass

JrdEnded == jrdPlace = "scanning" /\ output_scanline >= jrd.output_height

JrdSpec == JrdInit /\ [][JrdNext \/ (JrdEnded /\ UNCHANGED jrdVars)]_jrdVars

-----------------------------------------------------------------------------
(* Every variable has its type. *)
JrdTypeOK ==
  /\ jrdPlace \in {"start", "scanning", "stalled", "error"}
  /\ jrdMain.rowgroup_ctr \in 0..jrd.groups - 1
  /\ jrdMain.iMCU_rows <= (jrd.output_height - 1) \div (V * jrd.groups) + 1
  /\ upsample.next_row_out \in 0..V
  /\ upsample.rows_to_go \in 0..jrd.output_height
  /\ jrdPost.next_row \in 0..V - 1

(* jpeg_read_scanlines stops at the bottom of the image, also for a buffer *)
(* that has room for more lines (jdapistd.c:143-149).                      *)
StopsAtBottom == output_scanline <= jrd.output_height

(* The application gets the rows from the top, each once, however many it  *)
(* asks for at a time, and neither pass hangs or leaves the array.         *)
RowsInOrder ==
  /\ scanlines = Rows(0, Len(scanlines))
  /\ jrdPlace = "scanning" => Len(scanlines) = output_scanline
  /\ jrdPlace \notin {"stalled", "error"}

(* What comes out of the decompressor is the image. *)
RowsLeaveDecompressor == RowsInOrder /\ StopsAtBottom
=============================================================================
