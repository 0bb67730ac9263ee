------------------------------ MODULE PngPush ------------------------------
(***************************************************************************)
(* The push reader of libpng (libpng-1.6.23/pngpread.c): the application   *)
(* hands png_process_data the file in pieces of any size, and the reader   *)
(* saves what it cannot use yet.  One step is one round of its loop, a     *)
(* call of png_process_some_data.  A field of four bytes of the file       *)
(* (length, name, CRC) is Field bytes here, and the signature two fields.  *)
(* PngRows models what the rows are made of; here a byte of compressed     *)
(* data completes a row, belongs to one, ends the stream or is damaged.    *)
(*                                                                         *)
(* A definition without a comment, just before the one it resembles, is a  *)
(* plausible bug of that one; no specification uses it.                    *)
(***************************************************************************)
EXTENDS Naturals, FiniteSetsExt, SequencesExt

CONSTANTS Field,      \* bytes of a field of the file
          ImageRows,  \* rows of the picture (num_rows)
          MaxPiece    \* bytes of a piece the application hands over

VARIABLES
  pngFile,   \* the chunks of the file
  pngFed,    \* how many of its bytes the application has handed over
  pngPause,  \* what its info callback asks for: "no", "save" or "again"
  pngHeld,   \* the last call was paused, and the rest of the piece saved
  pngPtr     \* the png_struct

pngPushVars == <<pngFile, pngFed, pngPause, pngHeld, pngPtr>>

IHDR_LENGTH == 1
Chunk(name, data) == [name |-> name, data |-> data, crc |-> "good"]
Damaged(chunk) == [chunk EXCEPT !.crc = "bad"]

-----------------------------------------------------------------------------
(* The files: legal ones, with the picture in one chunk or in several, and *)
(* with every fault the reader tells apart.                                *)
Ihdr == Chunk("IHDR", <<"head">>)
Text == Chunk("tEXt", <<"a", "b">>)
Iend == Chunk("IEND", <<>>)
IDAT(data) == Chunk("IDAT", data)
AllRows == IDAT(<<"row", "row", "end">>)

Files ==
  { <<Ihdr, Text, IDAT(<<"part", "row">>), IDAT(<<>>), IDAT(<<"row", "end">>),
      Text, Iend>>,
    <<Ihdr, AllRows, Iend, Text>>,                   \* data after the end
    <<Ihdr, AllRows, Text, IDAT(<<"part">>), Iend>>, \* a late IDAT
    <<Ihdr, IDAT(<<"row">>), Iend>>,                 \* no end of the stream
    <<Ihdr, IDAT(<<"row", "end">>), Iend>>,          \* a row is missing
    <<Ihdr, IDAT(<<"row", "row", "row", "end">>), Iend>>,
    <<Ihdr, IDAT(<<"row", "row", "end", "part">>), Iend>>,
    <<Ihdr, IDAT(<<"row", "bad", "row", "end">>), Iend>>,
    <<Ihdr, Damaged(AllRows), Iend>>, <<Ihdr, Damaged(Text), AllRows, Iend>>,
    <<AllRows, Iend>>, <<Ihdr, Iend>>, <<Text, Ihdr, AllRows, Iend>>,
    <<Ihdr, Ihdr, AllRows, Iend>>,
    <<Chunk("IHDR", <<>>), AllRows, Iend>>,
    <<Ihdr, Chunk("t3Xt", <<>>), AllRows, Iend>>,    \* not a name
    <<Ihdr, AllRows, Chunk("t3Xt", <<>>), Iend>>,
    <<Chunk("not PNG", <<>>)>> }

FieldOf(what) == [i \in 1 .. Field |-> what]
Bytes(chunk) == IF chunk.name = "not PNG" THEN FieldOf(<<"garbage">>)
                ELSE FieldOf(<<"length", Len(chunk.data)>>)
                       \o FieldOf(<<chunk.name>>)
                       \o [i \in DOMAIN chunk.data |-> <<chunk.data[i]>>]
                       \o FieldOf(<<chunk.crc>>)
Signature(file) == IF file[1].name = "not PNG" THEN FieldOf(<<"sig">>)
                   ELSE FieldOf(<<"sig">>) \o FieldOf(<<"sig">>)
StreamOf(file) == FoldLeft(LAMBDA bytes, chunk : bytes \o Bytes(chunk),
                           Signature(file), file)
Streams == [file \in Files |-> StreamOf(file)]
Stream == Streams[pngFile]

-----------------------------------------------------------------------------
(* png_create_read_struct. *)
NewPng == [process_mode |-> "SIG", mode |-> {}, sig_bytes |-> 0,
           push_length |-> 0, chunk_name |-> "", idat_size |-> 0,
           zstream_ended |-> FALSE, row_number |-> 0, error |-> FALSE,
           save_buffer |-> <<>>, current_buffer |-> <<>>, buffer_size |-> 0,
           calls |-> <<>>]   \* history: the callbacks, and png_error

(* F(x), with x evaluated once. *)
Once(F(_), x) == CHOOSE y \in {F(z) : z \in {x}} : TRUE

Told(p, what) == [p EXCEPT !.calls = Append(@, what)]
(* png_error does not return: the application gives the reader up. *)
png_error(p) == [Told(p, <<"error">>) EXCEPT !.error = TRUE]

(* The bytes that are next, and the reader without them. *)
NextBytes(p, n) == SubSeq(p.save_buffer \o p.current_buffer, 1, n)
FillLeavesSave(p, n) ==
  [p EXCEPT !.current_buffer = SubSeq(@, n + 1, Len(@)), !.buffer_size = @ - n]
(* png_push_fill_buffer: from the saved bytes first, then from the piece. *)
png_push_fill_buffer(p, n) ==
  LET saved == Min({n, Len(p.save_buffer)})
  IN  [p EXCEPT
         !.save_buffer = SubSeq(@, saved + 1, Len(@)),
         !.current_buffer = SubSeq(@, n - saved + 1, Len(@)),
         !.buffer_size = @ - n]

SaveForgets(p) ==
  [p EXCEPT !.save_buffer = p.current_buffer, !.current_buffer = <<>>,
            !.buffer_size = 0]
SaveKeepsSize(p) ==
  [p EXCEPT !.save_buffer = @ \o p.current_buffer, !.current_buffer = <<>>]
png_push_save_buffer(p) ==
  [p EXCEPT !.save_buffer = @ \o p.current_buffer, !.current_buffer = <<>>,
            !.buffer_size = 0]

png_push_restore_buffer(p, piece) ==
  [p EXCEPT !.current_buffer = piece,
            !.buffer_size = Len(piece) + Len(p.save_buffer)]

(* png_crc_finish after n bytes of data: an ancillary chunk that is        *)
(* damaged is only warned about.                                           *)
png_crc_finish(p, n) ==
  LET crc == NextBytes(p, n + Field)[n + 1]
      read == png_push_fill_buffer(p, n + Field)
  IN  IF crc = <<"bad">> /\ p.chunk_name \in {"IHDR", "IDAT", "IEND"}
      THEN png_error(read) ELSE read

-----------------------------------------------------------------------------
png_push_read_sig(p) ==
  LET n == Min({2 * Field - p.sig_bytes, p.buffer_size})
      read == [png_push_fill_buffer(p, n) EXCEPT !.sig_bytes = @ + n]
  IN  IF NextBytes(p, n) # [i \in 1 .. n |-> <<"sig">>] THEN png_error(read)
      ELSE IF read.sig_bytes >= 2 * Field
           THEN [read EXCEPT !.process_mode = "CHUNK"] ELSE read

(* The length and the name of the next chunk, when they are there. *)
Header(p) ==
  [png_push_fill_buffer(p, 2 * Field) EXCEPT
     !.push_length = NextBytes(p, 2 * Field)[1][2],
     !.chunk_name = NextBytes(p, 2 * Field)[Field + 1][1],
     !.mode = @ \union {"HAVE_CHUNK_HEADER"}]

(* The handlers of the chunks that are read whole: png_handle_IHDR,        *)
(* png_handle_IEND, and one for all the ancillary chunks.                  *)
png_handle_IHDR(p) ==
  IF "HAVE_IHDR" \in p.mode THEN png_error(p)
  ELSE png_crc_finish([p EXCEPT !.mode = @ \union {"HAVE_IHDR"}],
                      p.push_length)
png_handle_IEND(p) ==
  IF ~({"HAVE_IHDR", "HAVE_IDAT"} \subseteq p.mode) THEN png_error(p)
  ELSE LET read == png_crc_finish(
                     [p EXCEPT !.mode = @ \union {"AFTER_IDAT", "HAVE_IEND"}],
                     p.push_length)
       IN  IF read.error THEN read
           ELSE Told([read EXCEPT !.process_mode = "DONE"], <<"end">>)
png_handle_ancillary(p) ==
  IF "HAVE_IHDR" \notin p.mode THEN png_error(p)
  ELSE png_crc_finish(
         [p EXCEPT !.mode = @ \union IF "HAVE_IDAT" \in @ THEN {"AFTER_IDAT"}
                                     ELSE {}],
         p.push_length)

(* png_push_have_info: the application may pause here.                     *)
(* png_process_data_pause saves what is left, or gives it back.            *)
InfoCall(p, pause) ==
  LET told == Told(p, <<"info">>)
  IN  CASE pause = "save" -> png_push_save_buffer(told)
        [] pause = "again" -> [told EXCEPT !.buffer_size = 0]
        [] pause = "no" -> told

(* An IDAT begins the compressed data.  A late one, after another chunk    *)
(* that came after the data, is "Too many IDATs found": a warning.         *)
ReadIDATHeader(p, pause) ==
  IF "HAVE_IHDR" \notin p.mode THEN png_error(p)
  ELSE InfoCall([p EXCEPT !.process_mode = "IDAT", !.idat_size = p.push_length,
                   !.mode = @ \union {"HAVE_IDAT"}
                     \union IF "AFTER_IDAT" \in @
                            THEN {"HAVE_CHUNK_AFTER_IDAT"} ELSE {}],
                pause)

(* The chunks that are handled when all of them is there. *)
HandleChunk(h, pause) ==
  LET handled == CASE h.chunk_name = "IHDR" -> png_handle_IHDR(h)
                   [] h.chunk_name = "IEND" -> png_handle_IEND(h)
                   [] OTHER -> png_handle_ancillary(h)
  IN  IF h.chunk_name = "IDAT" THEN ReadIDATHeader(h, pause)
      ELSE IF h.chunk_name = "IHDR" /\ h.push_length # IHDR_LENGTH
           THEN png_error(h)
      ELSE IF h.push_length + Field > h.buffer_size
           THEN png_push_save_buffer(h)
      ELSE [handled EXCEPT !.mode = @ \ {"HAVE_CHUNK_HEADER"}]

(* The name of a chunk is checked where its header is read here; the one   *)
(* that png_push_read_IDAT has read is not.                                *)
png_push_read_chunk(p, pause) ==
  IF "HAVE_CHUNK_HEADER" \in p.mode THEN HandleChunk(p, pause)
  ELSE IF p.buffer_size < 2 * Field THEN png_push_save_buffer(p)
  ELSE Once(LAMBDA h : IF h.chunk_name = "t3Xt" THEN png_error(h)
                       ELSE HandleChunk(h, pause), Header(p))

-----------------------------------------------------------------------------
InflateOnce(p, byte) ==
  IF byte = "row" /\ ~p.zstream_ended
  THEN Told([p EXCEPT !.row_number = @ + 1], <<"row", p.row_number>>)
  ELSE [p EXCEPT !.zstream_ended = @ \/ byte = "end"]
(* png_process_IDAT_data, for one byte: what follows the last row or the   *)
(* end of the stream is dropped.                                           *)
Inflate(p, byte) ==
  LET full == p.row_number >= ImageRows
  IN  IF p.error \/ p.zstream_ended THEN p
      ELSE IF byte = "end" \/ full THEN [p EXCEPT !.zstream_ended = TRUE]
      ELSE IF byte = "bad" THEN png_error([p EXCEPT !.zstream_ended = TRUE])
      ELSE IF byte = "row"
           THEN Told([p EXCEPT !.row_number = @ + 1], <<"row", p.row_number>>)
      ELSE p

(* One of the two buffers, as far as it belongs to the chunk. *)
TakeFrom(p, buffer) ==
  LET n == Min({p.idat_size, Len(buffer)})
      read == FoldLeft(LAMBDA q, byte :
                         Once(LAMBDA r : Inflate(r, byte[1]), q), p,
                       SubSeq(buffer, 1, n))
  IN  [png_push_fill_buffer(read, n) EXCEPT !.idat_size = @ - n]

(* The data of the chunk, from the saved bytes and from the piece, and its *)
(* CRC when all of it is there.                                            *)
ReadData(p) ==
  LET end(q) == IF q.error \/ q.idat_size # 0 THEN q
                ELSE IF q.buffer_size < Field THEN png_push_save_buffer(q)
                ELSE [png_crc_finish(q, 0) EXCEPT
                        !.mode = (@ \ {"HAVE_CHUNK_HEADER"})
                                   \union {"AFTER_IDAT"}]
  IN  Once(end, Once(LAMBDA q : TakeFrom(q, q.current_buffer),
                     TakeFrom(p, p.save_buffer)))

(* The next chunk goes on with the data, or comes after its end. *)
AfterHeader(h) ==
  LET other == [h EXCEPT !.process_mode = "CHUNK"]
  IN  IF h.chunk_name = "IDAT"
      THEN ReadData([h EXCEPT !.idat_size = h.push_length])
      ELSE IF h.zstream_ended THEN other ELSE png_error(other)

png_push_read_IDAT(p) ==
  IF "HAVE_CHUNK_HEADER" \in p.mode THEN ReadData(p)
  ELSE IF p.buffer_size < 2 * Field THEN png_push_save_buffer(p)
  ELSE Once(AfterHeader, Header(p))

SomeData(p, pause) ==
  CASE p.process_mode = "SIG" -> png_push_read_sig(p)
    [] p.process_mode = "CHUNK" -> png_push_read_chunk(p, pause)
    [] p.process_mode = "IDAT" -> png_push_read_IDAT(p)
    [] OTHER -> [p EXCEPT !.buffer_size = 0]

-----------------------------------------------------------------------------
PushInit ==
  /\ pngFile \in Files /\ pngPause \in {"no", "save", "again"}
  /\ pngFed = 0 /\ pngHeld = FALSE /\ pngPtr = NewPng

Processing == pngPtr.buffer_size # 0 /\ ~pngPtr.error

(* The application calls png_process_data with the next piece; with none,  *)
(* it lets the reader go on with what it holds after a pause.              *)
png_process_data ==
  /\ pngPtr.buffer_size = 0 /\ ~pngPtr.error
  /\ \E n \in 0 .. Min({MaxPiece, Len(Stream) - pngFed}) :
       /\ n = 0 => pngHeld
       /\ pngFed' = pngFed + n
       /\ pngPtr' = png_push_restore_buffer(
                      pngPtr, SubSeq(Stream, pngFed + 1, pngFed + n))
  /\ pngHeld' = FALSE
  /\ UNCHANGED <<pngFile, pngPause>>

(* One round of its loop.  A pause that gives the bytes back returns their *)
(* number to the application, which hands them over again.                 *)
png_process_some_data ==
  /\ Processing
  /\ \E p \in {SomeData(pngPtr, pngPause)} :
       LET informed == p.calls # pngPtr.calls /\ Last(p.calls) = <<"info">>
       IN  /\ pngPtr' = p
           /\ pngHeld' = (informed /\ pngPause = "save")
           /\ pngFed' = IF informed /\ pngPause = "again"
                        THEN pngFed - Len(p.current_buffer) ELSE pngFed
  /\ UNCHANGED <<pngFile, pngPause>>

PushNext == png_process_data \/ png_process_some_data

PushEnded ==
  /\ ~Processing /\ UNCHANGED pngPushVars
  /\ pngPtr.error \/ (pngFed = Len(Stream) /\ ~pngHeld)

-----------------------------------------------------------------------------
(* The types. *)
PushTypeOK ==
  /\ pngFile \in Files /\ pngFed \in 0 .. Len(Stream)
  /\ pngPtr.process_mode \in {"SIG", "CHUNK", "IDAT", "DONE"}
  /\ pngPtr.mode \subseteq {"HAVE_IHDR", "HAVE_IDAT", "AFTER_IDAT",
                            "HAVE_CHUNK_AFTER_IDAT", "HAVE_CHUNK_HEADER",
                            "HAVE_IEND"}
  /\ pngPtr.sig_bytes \in 0 .. 2 * Field
  /\ {pngPtr.push_length, pngPtr.idat_size, pngPtr.buffer_size} \subseteq Nat
  /\ pngPtr.row_number \in 0 .. ImageRows

Round(p) == IF p.buffer_size = 0 \/ p.error THEN p ELSE SomeData(p, "no")

(* The callbacks a single call makes that is given the first n bytes at    *)
(* once.                                                                   *)
AtOnce ==
  [file \in Files |->
     [n \in 0 .. Len(Streams[file]) |->
        FoldLeft(LAMBDA p, i : Once(Round, p),
                 png_push_restore_buffer(NewPng, SubSeq(Streams[file], 1, n)),
                 [i \in 1 .. 2 * Len(Streams[file]) |-> i]).calls]]

(* However the file is cut into pieces, and wherever the application       *)
(* pauses: the callbacks are those of a single call with all the bytes,    *)
(* and when a call returns none of those the bytes allow is missing.       *)
PiecesDoNotMatter ==
  /\ IsPrefix(pngPtr.calls, AtOnce[pngFile][pngFed])
  /\ ~Processing /\ ~pngHeld => pngPtr.calls = AtOnce[pngFile][pngFed]

(* What the reader saved and what is left of the piece are the last bytes  *)
(* it was given, in order: no byte is lost, doubled or swapped when the    *)
(* two buffers are joined, and buffer_size counts them both.               *)
NoByteLost ==
  LET piece == IF pngPause = "again" /\ ~Processing THEN <<>>
               ELSE pngPtr.current_buffer
      unread == pngPtr.save_buffer \o piece
  IN  ~pngPtr.error /\ pngPtr.process_mode # "DONE" =>
        /\ Len(unread) <= pngFed
        /\ unread = SubSeq(Stream, pngFed - Len(unread) + 1, pngFed)
        /\ Processing => pngPtr.buffer_size = Len(unread)

(* The application is never told a row before the header is complete, a    *)
(* row twice, out of order or below the picture, nor anything after the    *)
(* end or an error.                                                        *)
CallsLegal ==
  LET calls == pngPtr.calls
      rows == SelectSeq(calls, LAMBDA c : c[1] = "row")
  IN  /\ \A i \in DOMAIN calls :
           /\ calls[i][1] \in {"end", "error"} => i = Len(calls)
           /\ i = 1 => calls[i][1] \in {"info", "error"}
      /\ Len(rows) <= ImageRows
      /\ \A i \in DOMAIN rows : rows[i] = <<"row", i - 1>>

(* Every call of png_process_data returns. *)
CallsReturn == Processing ~> ~Processing

(* However the bytes are cut into pieces, the reader loses none of them    *)
(* and calls back as it would for the whole file at once.                  *)
PiecesJoined == PiecesDoNotMatter /\ NoByteLost /\ CallsLegal
=============================================================================
