------------------------------ MODULE Bitstream ------------------------------
(***************************************************************************)
(* The bit writer of src/hwEncode/testDemo/encodeTest.c: bitstream_put_ui, *)
(* _put_ue, _put_se, _byte_aligning and bitstream_end, on words of any     *)
(* width.  A word is a number below 2^WORD; bits come in at its low end,   *)
(* and a full word is turned round for a host that stores the low byte     *)
(* first.  The writer does not clear what it puts into a new word: the     *)
(* part of the value that is already in the last word is shifted out       *)
(* later, if enough bits follow.                                           *)
(*                                                                         *)
(* A definition without a comment, just before the one it resembles, is a  *)
(* plausible bug of that one; no specification uses it.                    *)
(***************************************************************************)
EXTENDS Integers, FiniteSetsExt, SequencesExt

CONSTANTS
  WORD_BYTES, BYTE_BITS,  \* 4 and 8
  STEPPING,               \* BITSTREAM_ALLOCATE_STEPPING, in words
  MaxItems,               \* bound on the elements written
  MaxCode                 \* bound on the values of ue and se

(* A word holds every code, and has no more values than a number.          *)
ASSUME BitsAssumption ==
  /\ {WORD_BYTES, BYTE_BITS, STEPPING} \subseteq Nat \ {0}
  /\ MaxItems \in Nat /\ MaxCode \in Nat
  /\ \A n \in 0..WORD_BYTES * BYTE_BITS : 2^n \in Nat
  /\ 2 * MaxCode + 1 < 2^(WORD_BYTES * BYTE_BITS)

VARIABLES
  bs,       \* [buffer, bit_offset]; Len(buffer) is max_size_in_dword
  junk,     \* what realloc leaves in a new word
  asked,    \* history: the elements written, with the bit_offset after each
  bsPlace   \* "start", "body", "closing", "closed"

bsVars == <<bs, junk, asked, bsPlace>>

WORD == WORD_BYTES * BYTE_BITS
Words == 0..2^WORD - 1
Word(v) == v % 2^WORD
Byte(w, k) == (w \div 2^(k * BYTE_BITS)) % 2^BYTE_BITS

(* va_swap32: the bytes in the opposite order. *)
va_swap32(w) ==
  MapThenSumSet(LAMBDA k : Byte(w, k) * 2^((WORD_BYTES - 1 - k) * BYTE_BITS),
                0..WORD_BYTES - 1)

Pos == bs.bit_offset \div WORD

(* bitstream_start: the words come from calloc. *)
bitstream_start ==
  [buffer |-> [i \in 1..STEPPING |-> 0], bit_offset |-> 0]

-----------------------------------------------------------------------------
GrownAnew(buffer, pos) ==
  IF pos + 1 = Len(buffer) THEN [i \in 1..Len(buffer) + STEPPING |-> junk]
                           ELSE buffer

(* The word after pos is always there before it is written. *)
Grown(buffer, pos) ==
  IF pos + 1 = Len(buffer) THEN buffer \o [i \in 1..STEPPING |-> junk]
                           ELSE buffer

(* The element fills the word at pos and goes on in the next one, which    *)
(* gets all of val.  val has no more than n bits, so | is +. *)
PutFull(b, val, n, pos, left) ==
  [buffer |-> [Grown(b.buffer, pos) EXCEPT
                 ![pos + 1] = va_swap32(Word(@ * 2^left)
                                          + val \div 2^(n - left)),
                 ![pos + 2] = val],
   bit_offset |-> b.bit_offset + n]

PutUiRewinds(b, val, n) ==
  LET pos == b.bit_offset \div WORD
      left == WORD - (b.bit_offset % WORD)
  IN  CASE n = 0 -> b
        [] n # 0 /\ left >= n ->
             [b EXCEPT !.buffer[pos + 1] = Word(@ * 2^n) + val,
                       !.bit_offset = @ + n]
        [] OTHER -> PutFull(b, val, n, pos, left)

(* bitstream_put_ui.  A size of WORD at the start of a word shifts by the  *)
(* width, which C leaves open; that is asked for the start code only, when *)
(* the word is 0 and every outcome the same. *)
PutUi(b, val, n) ==
  LET pos == b.bit_offset \div WORD
      left == WORD - (b.bit_offset % WORD)
  IN  CASE n = 0 -> b
        [] n # 0 /\ left > n ->
             [b EXCEPT !.buffer[pos + 1] = Word(@ * 2^n) + val,
                       !.bit_offset = @ + n]
        [] OTHER -> PutFull(b, val, n, pos, left)

SizeInBits(v) == CHOOSE n \in 0..WORD : 2^n > v /\ (n = 0 \/ 2^(n - 1) <= v)

PutUeFromZero(b, v) ==
  PutUi(PutUi(b, 0, SizeInBits(v)), v + 1, SizeInBits(v + 1))

(* bitstream_put_ue: as many zeros as bits follow the first one of v + 1. *)
PutUe(b, v) ==
  PutUi(PutUi(b, 0, SizeInBits(v + 1) - 1), v + 1, SizeInBits(v + 1))

(* bitstream_put_se *)
PutSe(b, v) == PutUe(b, IF v <= 0 THEN -2 * v ELSE 2 * v - 1)

(* bitstream_byte_aligning *)
Aligned(b, bit) ==
  LET left == BYTE_BITS - (b.bit_offset % BYTE_BITS)
  IN  IF left = BYTE_BITS THEN b
      ELSE PutUi(b, IF bit = 1 THEN 2^left - 1 ELSE 0, left)

(* rbsp_trailing_bits *)
Trailing(b) == Aligned(PutUi(b, 1, 1), 0)

EndedUnshifted(b) ==
  LET left == WORD - (b.bit_offset % WORD)
  IN  IF left = WORD THEN b
      ELSE [b EXCEPT !.buffer[b.bit_offset \div WORD + 1] = va_swap32(@)]

(* bitstream_end: the last word is filled with zeros and turned round. *)
Ended(b) ==
  LET left == WORD - (b.bit_offset % WORD)
  IN  IF left = WORD THEN b
      ELSE [b EXCEPT !.buffer[b.bit_offset \div WORD + 1] =
                       va_swap32(Word(@ * 2^left))]

-----------------------------------------------------------------------------
Written(b, element) ==
  /\ bs' = b
  /\ asked' = Append(asked, element @@ [end |-> b.bit_offset])

(* nal_start_code_prefix *)
StartCode ==
  /\ bsPlace = "start" /\ bsPlace' = "body"
  /\ Written(PutUi(bs, 1, WORD), [kind |-> "ui", val |-> 1, size |-> WORD])
  /\ UNCHANGED junk

(* An element of a header.  The values that tell words apart: few or all   *)
(* bits set. *)
PutElement ==
  /\ bsPlace = "body" /\ Len(asked) <= MaxItems
  /\ \/ \E n \in 1..WORD - 1 :
          \E v \in {0, 1, 2^(n - 1), 2^n - 1} :
            Written(PutUi(bs, v, n), [kind |-> "ui", val |-> v, size |-> n])
     \/ \E v \in 0..MaxCode : Written(PutUe(bs, v), [kind |-> "ue", val |-> v])
     \/ \E v \in -MaxCode..MaxCode :
          Written(PutSe(bs, v), [kind |-> "se", val |-> v])
  /\ UNCHANGED <<junk, bsPlace>>

(* A parameter set ends with rbsp_trailing_bits, a slice header with ones  *)
(* before CABAC data, and anywhere before CAVLC data. *)
Close ==
  /\ bsPlace = "body" /\ bsPlace' = "closing"
  /\ \/ Written(Trailing(bs), [kind |-> "trailing"])
     \/ Written(Aligned(bs, 1), [kind |-> "ones"])
     \/ UNCHANGED <<bs, asked>>
  /\ UNCHANGED junk

bitstream_end ==
  /\ bsPlace = "closing" /\ bsPlace' = "closed"
  /\ bs' = Ended(bs)
  /\ UNCHANGED <<junk, asked>>

BsInit ==
  /\ bs = bitstream_start /\ junk \in {0, 2^WORD - 1}
  /\ asked = <<>> /\ bsPlace = "start"

BsNext == StartCode \/ PutElement \/ Close \/ bitstream_end

BsSpec == BsInit /\ [][BsNext]_bsVars

BsEnded == bsPlace = "closed"

-----------------------------------------------------------------------------
(* The buffer is grown by whole steps, and before the writer gets to its   *)
(* end: the word that the next bit goes into is there. *)
BufferKeepsUp ==
  /\ Len(bs.buffer) % STEPPING = 0
  /\ bs.bit_offset \in 0..WORD * Len(bs.buffer) - 1

(* Every word of the buffer is a word of the machine, and the writer never *)
(* stands past the buffer. *)
BsTypeOK ==
  /\ bs.buffer \in Seq(Words) /\ BufferKeepsUp
  /\ junk \in Words
  /\ bsPlace \in {"start", "body", "closing", "closed"}

(* The bits in the order in which they lie in memory, the high bit of a    *)
(* byte first. *)
MemoryBit(i) ==
  LET byte == i \div BYTE_BITS
  IN  (Byte(bs.buffer[byte \div WORD_BYTES + 1], byte % WORD_BYTES)
         \div 2^(BYTE_BITS - 1 - (i % BYTE_BITS))) % 2

Number(from, to) ==
  FoldLeft(LAMBDA n, i : 2 * n + MemoryBit(i), 0,
           [k \in 1..to - from |-> from + k - 1])

AllBits(bit, from, to) == \A i \in from..to - 1 : MemoryBit(i) = bit

(* What a parser of H.264 (ITU-T H.264, 7.2 and 9.1) reads between two     *)
(* places: z zeros, a one and z more bits are the code number 2^z - 1 + the *)
(* number in those bits, and code number k is the signed (-1)^(k+1) k/2,   *)
(* rounded up. *)
ReadsUe(k, from, to) ==
  LET z == (to - from) \div 2
  IN  /\ to = from + 2 * z + 1
      /\ AllBits(0, from, from + z) /\ MemoryBit(from + z) = 1
      /\ k = 2^z - 1 + Number(from + z + 1, to)

Signed(k) == IF k % 2 = 0 THEN -(k \div 2) ELSE (k + 1) \div 2

Reads(element, from, to) ==
  CASE element.kind = "ui" ->
         to = from + element.size /\ Number(from, to) = element.val
    [] element.kind = "ue" -> ReadsUe(element.val, from, to)
    [] element.kind = "se" ->
         \E k \in 0..2 * MaxCode :
           Signed(k) = element.val /\ ReadsUe(k, from, to)
    [] element.kind = "trailing" ->
         /\ to % BYTE_BITS = 0 /\ to - from \in 1..BYTE_BITS
         /\ MemoryBit(from) = 1 /\ AllBits(0, from + 1, to)
    [] element.kind = "ones" ->
         /\ to % BYTE_BITS = 0 /\ to - from \in 0..BYTE_BITS - 1
         /\ AllBits(1, from, to)

(* A closed header reads back as what was asked for, element by element,   *)
(* wherever the words end, whatever the words held before: the uncleared   *)
(* bits of put_ui are all shifted out. *)
HeaderReadsBack ==
  bsPlace = "closed" =>
    \A i \in 1..Len(asked) :
      Reads(asked[i], IF i = 1 THEN 0 ELSE asked[i - 1].end, asked[i].end)

(* The driver gets whole bytes, (length_in_bits + 7) / 8 of them: what     *)
(* lies in the last one after the header is 0. *)
RestIsZero ==
  bsPlace = "closed" =>
    LET rest == bs.bit_offset % BYTE_BITS
    IN  rest # 0 =>
          AllBits(0, bs.bit_offset, bs.bit_offset + BYTE_BITS - rest)

(* The buffer that is handed to the driver is the header that was written, *)
(* in whole bytes.                                                         *)
HeaderReadable == HeaderReadsBack /\ RestIsZero
=============================================================================
