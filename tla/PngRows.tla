------------------------------ MODULE PngRows ------------------------------
(***************************************************************************)
(* The rows of a picture in the push reader of libpng (libpng-1.6.23):     *)
(* png_read_start_row, png_push_process_row and png_read_push_finish_row,  *)
(* with png_do_read_interlace and png_progressive_combine_row, by which    *)
(* the row callback of libpng-manual.txt keeps its picture.  One step is   *)
(* one row of compressed data: it hands the application all the rows the   *)
(* data stands for.                                                        *)
(*                                                                         *)
(* A pixel is the pair of its column and its row in the picture.           *)
(*                                                                         *)
(* A definition without a comment, just before the one it resembles, is a  *)
(* plausible bug of that one; no specification uses it.                    *)
(***************************************************************************)
EXTENDS Naturals, FiniteSetsExt, SequencesExt

CONSTANTS MaxWidth, MaxHeight  \* the pictures that are read

VARIABLES
  pngHead,   \* width, height, interlaced, expand (PNG_INTERLACE is set)
  pngAt,     \* how many pixels of the compressed data have been used
  pngRow,    \* pass, row_number, num_rows, iwidth
  pngTold,   \* history: the calls of the row callback, <<pass, row>>
  pngImage   \* the picture the application keeps

pngRowVars == <<pngHead, pngAt, pngRow, pngTold, pngImage>>

Picture == (0 .. pngHead.width - 1) \X (0 .. pngHead.height - 1)

-----------------------------------------------------------------------------
(* The file: Adam7 of the PNG specification, the pass of every pixel of a  *)
(* block of eight by eight, and the pixels in the order the compressed     *)
(* data has them.                                                          *)
Adam7 == << <<0, 5, 3, 5, 1, 5, 3, 5>>, <<6, 6, 6, 6, 6, 6, 6, 6>>,
            <<4, 5, 4, 5, 4, 5, 4, 5>>, <<6, 6, 6, 6, 6, 6, 6, 6>>,
            <<2, 5, 3, 5, 2, 5, 3, 5>>, <<6, 6, 6, 6, 6, 6, 6, 6>>,
            <<4, 5, 4, 5, 4, 5, 4, 5>>, <<6, 6, 6, 6, 6, 6, 6, 6>> >>
PassOf(px) == Adam7[(px[2] % 8) + 1][(px[1] % 8) + 1]

PixelsOf(w, h, interlaced) ==
  LET raster == [i \in 1 .. w * h |-> <<(i - 1) % w, (i - 1) \div w>>]
      ofPass(p) == SelectSeq(raster, LAMBDA px : PassOf(px) = p)
  IN  IF interlaced
      THEN FoldLeft(LAMBDA data, p : data \o ofPass(p), <<>>,
                    <<0, 1, 2, 3, 4, 5, 6>>)
      ELSE raster

Compressed ==
  [size \in (1 .. MaxWidth) \X (1 .. MaxHeight) \X BOOLEAN |->
     PixelsOf(size[1], size[2], size[3])]
Data == Compressed[<<pngHead.width, pngHead.height, pngHead.interlaced>>]

-----------------------------------------------------------------------------
(* png_pass_start, png_pass_inc, png_pass_ystart, png_pass_yinc. *)
pass_start == <<0, 4, 0, 2, 0, 1, 0>>
pass_inc == <<8, 8, 4, 4, 2, 2, 1>>
pass_ystart == <<0, 0, 4, 0, 2, 0, 1>>
pass_yinc == <<8, 8, 8, 4, 4, 2, 2>>

(* The columns and the rows of a pass. *)
ColsOf(p) == (pngHead.width + pass_inc[p + 1] - 1 - pass_start[p + 1])
               \div pass_inc[p + 1]
RowsOf(p) == IF pngHead.expand THEN pngHead.height
             ELSE (pngHead.height + pass_yinc[p + 1] - 1 - pass_ystart[p + 1])
                    \div pass_yinc[p + 1]

(* A picture whose interlace libpng expands, one whose passes the          *)
(* application puts together, and one that is not interlaced; num_rows and *)
(* iwidth are those of png_read_start_row.                                 *)
RowsInit ==
  /\ pngHead \in [width : 1 .. MaxWidth, height : 1 .. MaxHeight,
                  interlaced : BOOLEAN, expand : BOOLEAN]
  /\ pngHead.expand => pngHead.interlaced
  /\ pngRow = [pass |-> 0, row_number |-> 0,
               num_rows |-> IF pngHead.interlaced THEN RowsOf(0)
                            ELSE pngHead.height,
               iwidth |-> IF pngHead.interlaced THEN ColsOf(0)
                          ELSE pngHead.width]
  /\ pngAt = 0 /\ pngTold = <<>>
  /\ pngImage = [px \in Picture |-> <<>>]

NarrowByOne(p) == \/ p = 1 /\ pngHead.width < 4
                  \/ p = 3 /\ pngHead.width < 3
                  \/ p = 5 /\ pngHead.width < 2
(* A pass without columns. *)
Narrow(p) == \/ p = 1 /\ pngHead.width < 5
             \/ p = 3 /\ pngHead.width < 3
             \/ p = 5 /\ pngHead.width < 2

(* The next pass: 7 when none is left.  With PNG_INTERLACE a pass without  *)
(* rows is not passed over, for its rows are those of the picture.         *)
NextPass(p) ==
  Min({7} \union {q \in p + 1 .. 6 : /\ ~Narrow(q)
                                     /\ pngHead.expand \/ RowsOf(q) # 0})

FinishKeepsWidth(r) ==
  IF r.row_number + 1 < r.num_rows \/ ~pngHead.interlaced
  THEN [r EXCEPT !.row_number = @ + 1]
  ELSE [r EXCEPT !.row_number = 0, !.pass = NextPass(r.pass),
                 !.num_rows = RowsOf(Min({6, NextPass(r.pass)}))]
(* After the last pass num_rows and iwidth stay those of the last one. *)
png_read_push_finish_row(r) ==
  IF r.row_number + 1 < r.num_rows \/ ~pngHead.interlaced
  THEN [r EXCEPT !.row_number = @ + 1]
  ELSE LET pass == NextPass(r.pass)
       IN  [pass |-> pass, row_number |-> 0,
            num_rows |-> RowsOf(Min({6, pass})),
            iwidth |-> ColsOf(Min({6, pass}))]

-----------------------------------------------------------------------------
(* What the application does with a row of its picture: the row of the     *)
(* pass it was told, as it is (without PNG_INTERLACE), or combined.        *)

(* png_do_read_interlace: every pixel of the row stands for a block. *)
Expanded(p, pixels) ==
  IF pngHead.expand /\ p < 6
  THEN [x \in 1 .. Len(pixels) * pass_inc[p + 1] |->
          pixels[(x - 1) \div pass_inc[p + 1] + 1]]
  ELSE pixels

CombinedSparkle(p) ==
  {x \in 0 .. pngHead.width - 1 :
     /\ x >= pass_start[p + 1]
     /\ (x - pass_start[p + 1]) % pass_inc[p + 1] = 0}
CombinedAll(p) == 0 .. pngHead.width - 1
(* png_combine_row with its blocky display: the even passes copy the row,  *)
(* the odd ones only the blocks that begin with a column of theirs.        *)
Combined(p) ==
  {x \in 0 .. pngHead.width - 1 :
     p \in {1, 3, 5} =>
       /\ x >= pass_start[p + 1]
       /\ (x - pass_start[p + 1]) % pass_inc[p + 1] < pass_inc[p + 1] \div 2}

Drawn(image, r, buf) ==
  IF pngHead.expand \/ ~pngHead.interlaced
  THEN [px \in Picture |->
          IF px[2] = r.row_number /\ px[1] \in Combined(r.pass)
          THEN buf[px[1] + 1] ELSE image[px]]
  ELSE LET col(j) == pass_start[r.pass + 1] + (j - 1) * pass_inc[r.pass + 1]
           row == pass_ystart[r.pass + 1]
                    + r.row_number * pass_yinc[r.pass + 1]
       IN  [px \in Picture |->
              IF px[2] = row /\ \E j \in DOMAIN buf : px[1] = col(j)
              THEN buf[CHOOSE j \in DOMAIN buf : px[1] = col(j)]
              ELSE image[px]]

(* png_push_have_row and png_read_push_finish_row: one row is handed over, *)
(* with the data (buf) or without (NULL, <<>>).                            *)
HaveRow(s, buf) ==
  [row |-> png_read_push_finish_row(s.row),
   told |-> Append(s.told, <<s.row.pass, s.row.row_number>>),
   image |-> IF buf = <<>> THEN s.image ELSE Drawn(s.image, s.row, buf)]

(* for (i = 0; i < n && png_ptr->pass == p; i++) *)
HaveRows(s, n, p, buf) ==
  FoldLeft(LAMBDA t, i : IF t.row.pass = p THEN HaveRow(t, buf) ELSE t,
           s, [i \in 1 .. n |-> i])

RowsWith == <<8, 8, 4, 4, 2, 2, 1>>
RowsWithout == <<0, 0, 4, 0, 2, 0, 1>>
(* After the rows of the pass, the first rows of the next ones, above      *)
(* their first data: <<pass, how many>>.                                   *)
FollowNoEmpty(p) ==
  CASE p \in {0, 1} -> << <<2, 4>> >>
    [] p \in {2, 3} -> << <<4, 2>> >>
    [] p \in {4, 5} -> << <<6, 1>> >>
    [] p = 6 -> <<>>
Follow(p) ==
  CASE p = 0 -> << <<2, 4>> >> \o IF pngHead.height <= 4
                                  THEN << <<4, 2>>, <<6, 1>> >> ELSE <<>>
    [] p = 1 -> << <<2, 4>> >>
    [] p \in {2, 3} -> << <<4, 2>> >>
    [] p \in {4, 5} -> << <<6, 1>> >>
    [] p = 6 -> <<>>

(* png_process_IDAT_data has no row left to fill, or no data to fill it. *)
RowsOver == \/ pngRow.row_number >= pngRow.num_rows \/ pngRow.pass > 6
            \/ pngAt + pngRow.iwidth > Len(Data)

(* A row of iwidth pixels has been inflated: png_push_process_row. *)
png_push_process_row ==
  LET p == pngRow.pass
      buf == Expanded(p, SubSeq(Data, pngAt + 1, pngAt + pngRow.iwidth))
      s == [row |-> pngRow, told |-> pngTold, image |-> pngImage]
      own == HaveRows(HaveRows(s, RowsWith[p + 1], p, buf),
                      RowsWithout[p + 1], p, <<>>)
      t == IF pngHead.expand
           THEN FoldLeft(LAMBDA u, f : HaveRows(u, f[2], f[1], <<>>),
                         own, Follow(p))
           ELSE HaveRow(s, buf)
  IN  /\ ~RowsOver
      /\ pngAt' = pngAt + pngRow.iwidth
      /\ pngRow' = t.row /\ pngTold' = t.told /\ pngImage' = t.image
      /\ UNCHANGED pngHead

RowsEnded == RowsOver /\ UNCHANGED pngRowVars
RowsNext == png_push_process_row

-----------------------------------------------------------------------------
(* The types: the row and the pass are those of the tables, and every      *)
(* place of the picture holds a pixel of the picture or nothing.           *)
RowsTypeOK ==
  /\ pngHead \in [width : 1 .. MaxWidth, height : 1 .. MaxHeight,
                  interlaced : BOOLEAN, expand : BOOLEAN]
  /\ pngRow.pass \in 0 .. 7
  /\ pngRow.row_number \in 0 .. pngHead.height
  /\ pngRow.num_rows \in 0 .. pngHead.height
  /\ pngRow.iwidth \in 1 .. pngHead.width
  /\ pngAt \in 0 .. Len(Data)
  /\ DOMAIN pngImage = Picture
  /\ \A px \in Picture : pngImage[px] \in Picture \union {<<>>}

(* The calls a reader of the manual expects: every row of the picture in   *)
(* every pass that has columns; without the interlace handler, every row   *)
(* of every sub-image.                                                     *)
RowsWanted(p) ==
  LET rows == {y \in 0 .. pngHead.height - 1 :
                 \E x \in 0 .. pngHead.width - 1 : PassOf(<<x, y>>) = p}
  IN  IF ~pngHead.interlaced THEN IF p = 0 THEN pngHead.height ELSE 0
      ELSE IF pngHead.expand
      THEN IF \E x \in 0 .. pngHead.width - 1, y \in 0 .. 7 :
                   PassOf(<<x, y>>) = p
           THEN pngHead.height ELSE 0
      ELSE Cardinality(rows)
CallsWanted ==
  FoldLeft(LAMBDA calls, p :
             calls \o [y \in 1 .. RowsWanted(p) |-> <<p, y - 1>>],
           <<>>, <<0, 1, 2, 3, 4, 5, 6>>)

(* "This function will be called for every row in every pass ... The rows  *)
(* and passes are called in order" (libpng-manual.txt:2613-2618): for      *)
(* every size of the picture, the small ones with empty passes too, the    *)
(* callback has been told the rows so far and at the end all of them.      *)
CallsInOrder ==
  /\ Len(pngTold) <= Len(CallsWanted)
  /\ pngTold = SubSeq(CallsWanted, 1, Len(pngTold))
  /\ RowsOver => pngTold = CallsWanted

(* When the reader takes the picture for complete, every pixel is at its   *)
(* place and all of the compressed data was used: no pass was read with a  *)
(* width or a number of rows that is not its own.                          *)
PictureWhole ==
  RowsOver => /\ pngAt = Len(Data)
              /\ \A px \in Picture : pngImage[px] = px

(* "The first pass (pass == 0, really) will completely cover the old row,  *)
(* so the rows do not have to be initialized" (libpng-manual.txt:2645):    *)
(* no later call combines with a place that holds nothing.                 *)
FirstPassCovers ==
  pngHead.expand /\ pngRow.pass > 0 =>
    \A px \in Picture : pngImage[px] # <<>>

(* The row callback is told every row and pass that the manual promises,   *)
(* and the image it combines is whole at the end and dense before.         *)
RowsReachPicture == CallsInOrder /\ PictureWhole /\ FirstPassCovers
=============================================================================
