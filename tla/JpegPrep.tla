------------------------------ MODULE JpegPrep ------------------------------
(***************************************************************************)
(* The way of the rows of an image into the compressor of libjpeg:         *)
(* jpeg_write_scanlines, the main controller and the preprocessor          *)
(* (src/jpeg-9b/jcapistd.c, jcmainct.c, jcprepct.c).  The application      *)
(* passes the rows in pieces of any size, the compressor may suspend when  *)
(* its destination is full, and a smoothing downsampler wants to see the   *)
(* row groups above and below.  A row of samples is its number in the      *)
(* image; the downsampler's output is the list of rows it has seen.        *)
(*                                                                         *)
(* A definition without a comment, just before the one it resembles, is a  *)
(* plausible bug of that one; no specification uses it.                    *)
(***************************************************************************)
EXTENDS Integers, SequencesExt

CONSTANTS
  MaxImageHeight,   \* bound on the rows of the image
  MaxSampFactor,    \* bound on max_v_samp_factor
  MaxGroups         \* bound on min_DCT_v_scaled_size, the row groups of an
                    \* iMCU row

VARIABLES
  jpg,          \* the image: its height, the factors, context rows or not
  jpgPlace,     \* "application", "main", "prepare", "compress" or "finished"
  jpgCall,      \* next_scanline; in_row_ctr, in_rows_avail of the call
  jpgMain,      \* my_main_controller: cur_iMCU_row, rowgroup_ctr, suspended
  jpgPrep,      \* my_prep_controller, but for its buffer
  color_buf,    \* the image row in each row of the conversion buffer
  jpgBuffer,    \* the iMCU row that is being put together
  compressed    \* what compress_data took, iMCU row by iMCU row

jpgVars == <<jpg, jpgPlace, jpgCall, jpgMain, jpgPrep, color_buf, jpgBuffer,
             compressed>>

ASSUME JpgAssumption ==
  {MaxImageHeight, MaxSampFactor, MaxGroups} \subseteq Nat \ {0}

RowGroup == jpg.max_v_samp_factor

(* The image is compressed in its own size: jpeg_height is its height, and *)
(* block_size the number of row groups. *)
total_iMCU_rows ==
  (jpg.image_height - 1) \div (RowGroup * jpg.groups) + 1

(* Rows of the conversion buffer that no image row was put in. *)
NoRow == -1

(* start_pass_main, start_pass_prep; a component has its full height or is *)
(* reduced to one row for a row group. *)
JpgInit ==
  /\ jpg \in [image_height : 1..MaxImageHeight,
              max_v_samp_factor : 1..MaxSampFactor, groups : 1..MaxGroups,
              need_context_rows : BOOLEAN, reduced : BOOLEAN]
  /\ jpgPlace = "application"
  /\ jpgCall = [next_scanline |-> 0, in_row_ctr |-> 0, in_rows_avail |-> 0]
  /\ jpgMain = [cur_iMCU_row |-> 0, rowgroup_ctr |-> 0, suspended |-> FALSE]
  /\ jpgPrep = [rows_to_go |-> jpg.image_height, next_buf_row |-> 0,
                this_row_group |-> 0, next_buf_stop |-> 2 * RowGroup]
  /\ color_buf = [i \in 0..3 * RowGroup - 1 |-> NoRow]
  /\ jpgBuffer = <<>> /\ compressed = <<>>

-----------------------------------------------------------------------------
(* jpeg_write_scanlines, until the main controller has it *)
jpeg_write_scanlines(num_lines) ==
  /\ jpgPlace = "application"
  /\ num_lines <= jpg.image_height - jpgCall.next_scanline
  /\ jpgPlace' = "main"
  /\ jpgCall' = [jpgCall EXCEPT !.in_row_ctr = 0, !.in_rows_avail = num_lines]
  /\ UNCHANGED <<jpg, jpgMain, jpgPrep, color_buf, jpgBuffer, compressed>>

(* jpeg_write_scanlines, with the rows that were consumed *)
CallReturns(call) ==
  /\ jpgPlace' = "application"
  /\ jpgCall' = [next_scanline |-> call.next_scanline + call.in_row_ctr,
                 in_row_ctr |-> 0, in_rows_avail |-> 0]

(* process_data_simple_main: the head of the loop *)
MainLoop ==
  /\ jpgPlace = "main"
  /\ IF jpgMain.cur_iMCU_row = total_iMCU_rows THEN CallReturns(jpgCall)
     ELSE /\ jpgPlace' = IF jpgMain.rowgroup_ctr < jpg.groups
                         THEN "prepare" ELSE "compress"
          /\ UNCHANGED jpgCall
  /\ UNCHANGED <<jpg, jpgMain, jpgPrep, color_buf, jpgBuffer, compressed>>

(* process_data_simple_main, after pre_process_data *)
Prepared(rowgroup_ctr, call) ==
  IF rowgroup_ctr = jpg.groups
    THEN jpgPlace' = "compress" /\ jpgCall' = call
    ELSE CallReturns(call)

-----------------------------------------------------------------------------
(* color_convert: the next rows of the piece go into the conversion        *)
(* buffer; row i of the piece is row next_scanline + i of the image. *)
Converted(numrows) ==
  [i \in DOMAIN color_buf |->
     LET k == i - jpgPrep.next_buf_row
     IN  IF k \in 0..numrows - 1
         THEN jpgCall.next_scanline + jpgCall.in_row_ctr + k ELSE color_buf[i]]

(* create_context_buffer: the pointers above and below wrap around. *)
RowAt(buf, i) == buf[(i + 3 * RowGroup) % (3 * RowGroup)]

expand_bottom_edge_in_place(buf, first, stop) ==
  [i \in DOMAIN buf |->
     IF first > 0 /\ i \in first..stop - 1 THEN buf[first - 1] ELSE buf[i]]
(* expand_bottom_edge: the row before first is repeated in first..stop - 1 *)
expand_bottom_edge(buf, first, stop) ==
  [i \in DOMAIN buf |->
     IF i \in first..stop - 1 THEN RowAt(buf, first - 1) ELSE buf[i]]

(* The downsampler makes one row, or one for each, from a row group. *)
Downsampled(rows) ==
  IF jpg.reduced THEN <<rows>> ELSE [k \in 1..Len(rows) |-> <<rows[k]>>]

(* pre_process_data: once through its loop *)
pre_process_data ==
  /\ jpgPlace = "prepare" /\ ~jpg.need_context_rows
  /\ LET numrows == Min({RowGroup - jpgPrep.next_buf_row,
                         jpgCall.in_rows_avail - jpgCall.in_row_ctr})
         rows_to_go == jpgPrep.rows_to_go - numrows
         filled == jpgPrep.next_buf_row + numrows
         padded == IF rows_to_go = 0 /\ filled < RowGroup
                   THEN expand_bottom_edge(Converted(numrows), filled,
                                           RowGroup)
                   ELSE Converted(numrows)
         full == filled = RowGroup \/ rows_to_go = 0
         made == IF full THEN jpgBuffer \o
                   Downsampled([k \in 1..RowGroup |-> padded[k - 1]])
                 ELSE jpgBuffer
         counted == jpgMain.rowgroup_ctr + (IF full THEN 1 ELSE 0)
         height == jpg.groups * Len(Downsampled([k \in 1..RowGroup |-> 0]))
         rowgroup_ctr == IF rows_to_go = 0 THEN jpg.groups ELSE counted
         call == [jpgCall EXCEPT !.in_row_ctr = @ + numrows]
     IN  IF numrows = 0
         THEN /\ Prepared(jpgMain.rowgroup_ctr, jpgCall)
              /\ UNCHANGED <<jpgMain, jpgPrep, color_buf, jpgBuffer>>
         ELSE /\ color_buf' = padded
              /\ jpgPrep' = [jpgPrep EXCEPT !.rows_to_go = rows_to_go,
                               !.next_buf_row = IF full THEN 0 ELSE filled]
              /\ jpgBuffer' = IF rows_to_go = 0
                              THEN [k \in 1..height |->
                                      made[Min({k, Len(made)})]]
                              ELSE made
              /\ jpgMain' = [jpgMain EXCEPT !.rowgroup_ctr = rowgroup_ctr]
              /\ IF call.in_row_ctr < call.in_rows_avail
                    /\ rowgroup_ctr < jpg.groups
                 THEN jpgCall' = call /\ UNCHANGED jpgPlace
                 ELSE Prepared(rowgroup_ctr, call)
  /\ UNCHANGED <<jpg, compressed>>

-----------------------------------------------------------------------------
TopAsItIs(buf) == buf
(* pre_process_context: at the top of the image the first row is repeated  *)
(* above the buffer, which is where the pointers wrap around to. *)
TopPadded(buf) ==
  IF jpgPrep.rows_to_go = jpg.image_height
    THEN [i \in DOMAIN buf |-> IF i >= 2 * RowGroup THEN buf[0] ELSE buf[i]]
    ELSE buf

(* A row group as a downsampler sees it, with one above and one below *)
InContext(buf, first) ==
  [k \in 1..3 * RowGroup |-> RowAt(buf, first - RowGroup + k - 1)]

(* pre_process_context: once through its loop *)
pre_process_context ==
  /\ jpgPlace = "prepare" /\ jpg.need_context_rows
  /\ LET more == jpgCall.in_row_ctr < jpgCall.in_rows_avail
         numrows == IF ~more THEN 0
                    ELSE Min({jpgPrep.next_buf_stop - jpgPrep.next_buf_row,
                              jpgCall.in_rows_avail - jpgCall.in_row_ctr})
         filled == IF more THEN jpgPrep.next_buf_row + numrows
                           ELSE jpgPrep.next_buf_stop
         buf == IF more THEN TopPadded(Converted(numrows))
                ELSE expand_bottom_edge(color_buf, jpgPrep.next_buf_row,
                                         filled)
         full == filled = jpgPrep.next_buf_stop
         rowgroup_ctr == jpgMain.rowgroup_ctr + (IF full THEN 1 ELSE 0)
         call == [jpgCall EXCEPT !.in_row_ctr = @ + numrows]
         next_group == jpgPrep.this_row_group + RowGroup
         next_row == IF filled >= 3 * RowGroup THEN 0 ELSE filled
     IN  IF ~more /\ jpgPrep.rows_to_go # 0
         THEN /\ Prepared(jpgMain.rowgroup_ctr, jpgCall)
              /\ UNCHANGED <<jpgMain, jpgPrep, color_buf, jpgBuffer>>
         ELSE /\ color_buf' = buf
              /\ jpgMain' = [jpgMain EXCEPT !.rowgroup_ctr = rowgroup_ctr]
              /\ jpgBuffer' = IF full THEN Append(jpgBuffer,
                                     InContext(buf, jpgPrep.this_row_group))
                              ELSE jpgBuffer
              /\ jpgPrep' =
                   IF full
                   THEN [rows_to_go |-> jpgPrep.rows_to_go - numrows,
                         next_buf_row |-> next_row,
                         this_row_group |-> IF next_group >= 3 * RowGroup
                                            THEN 0 ELSE next_group,
                         next_buf_stop |-> next_row + RowGroup]
                   ELSE [jpgPrep EXCEPT !.rows_to_go = @ - numrows,
                                        !.next_buf_row = filled]
              /\ IF rowgroup_ctr < jpg.groups
                 THEN jpgCall' = call /\ UNCHANGED jpgPlace
                 ELSE Prepared(rowgroup_ctr, call)
  /\ UNCHANGED <<jpg, compressed>>

-----------------------------------------------------------------------------
(* compress_data took the iMCU row: the hack is undone, the buffer empty. *)
CompressDone ==
  /\ jpgPlace = "compress"
  /\ compressed' = Append(compressed, jpgBuffer) /\ jpgBuffer' = <<>>
  /\ jpgCall' = [jpgCall EXCEPT
                   !.in_row_ctr = @ + (IF jpgMain.suspended THEN 1 ELSE 0)]
  /\ jpgMain' = [cur_iMCU_row |-> jpgMain.cur_iMCU_row + 1,
                 rowgroup_ctr |-> 0, suspended |-> FALSE]
  /\ jpgPlace' = "main"
  /\ UNCHANGED <<jpg, jpgPrep, color_buf>>

SuspendedAfterAll ==
  /\ jpgPlace = "compress"
  /\ CallReturns(jpgCall)
  /\ jpgMain' = [jpgMain EXCEPT !.suspended = TRUE]
  /\ UNCHANGED <<jpg, jpgPrep, color_buf, jpgBuffer, compressed>>
(* compress_data suspended: the application is told one row less. *)
Suspended ==
  /\ jpgPlace = "compress"
  /\ CallReturns([jpgCall EXCEPT
                 !.in_row_ctr = @ - (IF jpgMain.suspended THEN 0 ELSE 1)])
  /\ jpgMain' = [jpgMain EXCEPT !.suspended = TRUE]
  /\ UNCHANGED <<jpg, jpgPrep, color_buf, jpgBuffer, compressed>>

(* jpeg_finish_compress, which the application calls after the last row. *)
jpeg_finish_compress ==
  /\ jpgPlace = "application" /\ jpgCall.next_scanline = jpg.image_height
  /\ jpgPlace' = "finished"
  /\ UNCHANGED <<jpg, jpgCall, jpgMain, jpgPrep, color_buf, jpgBuffer,
                 compressed>>

JpgNext ==
  \/ \E n \in 1..MaxImageHeight : jpeg_write_scanlines(n)
  \/ MainLoop \/ pre_process_data \/ pre_process_context
  \/ CompressDone \/ Suspended \/ jpeg_finish_compress

JpgEnded == jpgPlace = "finished"

JpgSpec ==
  JpgInit /\ [][JpgNext \/ (JpgEnded /\ UNCHANGED jpgVars)]_jpgVars

-----------------------------------------------------------------------------
(* Every variable has its type. *)
JpgTypeOK ==
  /\ jpgCall.next_scanline \in 0..jpg.image_height
  /\ jpgCall.in_row_ctr \in 0..jpgCall.in_rows_avail
  /\ jpgMain.cur_iMCU_row \in 0..total_iMCU_rows
  /\ jpgMain.rowgroup_ctr \in 0..jpg.groups
  /\ jpgPrep.rows_to_go \in 0..jpg.image_height
  /\ jpgPrep.next_buf_row \in 0..jpgPrep.next_buf_stop
  /\ jpgPrep.next_buf_stop \in 1..3 * RowGroup

(* Row n of the image; above and below it the first and the last. *)
ImageRow(n) == Max({0, Min({n, jpg.image_height - 1})})
RealGroups == (jpg.image_height - 1) \div RowGroup + 1

(* What the downsampler has to see for row group g: with context rows all  *)
(* of them, without the rows of the group; past the bottom the output is   *)
(* the last one again. *)
Wanted(g) ==
  IF jpg.need_context_rows
    THEN <<[k \in 1..3 * RowGroup |->
              ImageRow((g - 1) * RowGroup + k - 1)]>>
    ELSE LET last == Downsampled([k \in 1..RowGroup |->
                       ImageRow((RealGroups - 1) * RowGroup + k - 1)])
         IN  IF g < RealGroups
             THEN Downsampled([k \in 1..RowGroup |->
                                 ImageRow(g * RowGroup + k - 1)])
             ELSE [k \in 1..Len(last) |-> last[Len(last)]]

(* The compressor gets the iMCU rows in order, each made from the right    *)
(* rows of the image, whatever the pieces were and wherever it suspended.  *)
RowsCompressed ==
  \A m \in 1..Len(compressed) :
    compressed[m] =
      FlattenSeq([k \in 1..jpg.groups |-> Wanted((m - 1) * jpg.groups + k - 1)])

(* The application does not get to think that it is done before the        *)
(* compressor has taken the last iMCU row.                                 *)
LastRowHeldBack ==
  jpgCall.next_scanline = jpg.image_height =>
    Len(compressed) = total_iMCU_rows

(* The compressor gets what the application wrote, and the application     *)
(* goes on until it has all of it.                                         *)
RowsReachCompressor == RowsCompressed /\ LastRowHeldBack
=============================================================================
