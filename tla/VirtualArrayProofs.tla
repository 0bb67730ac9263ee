------------------------- MODULE VirtualArrayProofs -------------------------
(***************************************************************************)
(* Proofs about the virtual arrays of libjpeg, for any height, any number  *)
(* of rows in memory, and any size of the chunks that memory came in; and  *)
(* about the rows on their way into its compressor, for any height, any    *)
(* factors, and any pieces in which the application passes them.           *)
(***************************************************************************)
EXTENDS VirtualArray, JpegPrep, CommonFacts, TLAPS

-----------------------------------------------------------------------------
LEMMA MaxOfTwo ==
  ASSUME NEW a \in Int, NEW b \in Int
  PROVE  Max({a, b}) = IF a >= b THEN a ELSE b
<1>1. \A x \in {a, b} : (\A y \in {a, b} : x >= y)
                          => x = IF a >= b THEN a ELSE b
  OBVIOUS
<1>2. \E x \in {a, b} : \A y \in {a, b} : x >= y
  OBVIOUS
<1> QED
  BY <1>1, <1>2 DEF Max

LEMMA MinOfTwo ==
  ASSUME NEW a \in Int, NEW b \in Int
  PROVE  Min({a, b}) = IF a <= b THEN a ELSE b
<1>1. \A x \in {a, b} : (\A y \in {a, b} : x <= y)
                          => x = IF a <= b THEN a ELSE b
  OBVIOUS
<1>2. \E x \in {a, b} : \A y \in {a, b} : x <= y
  OBVIOUS
<1> QED
  BY <1>1, <1>2 DEF Min

LEMMA MinOfFour ==
  ASSUME NEW a \in Int, NEW b \in Int, NEW c \in Int, NEW d \in Int
  PROVE  /\ Min({a, b, c, d}) \in {a, b, c, d}
         /\ \A y \in {a, b, c, d} : Min({a, b, c, d}) <= y
<1> DEFINE S == {a, b, c, d}
<1>1. \E x \in S : \A y \in S : x <= y
  <2>1. PICK p \in {a, b} : p <= a /\ p <= b
    OBVIOUS
  <2>2. PICK q \in {c, d} : q <= c /\ q <= d
    OBVIOUS
  <2>3. PICK x \in {p, q} : x <= p /\ x <= q
    BY <2>1, <2>2
  <2>4. x <= a /\ x <= b /\ x <= c /\ x <= d /\ x \in S
    BY <2>1, <2>2, <2>3
  <2> QED
    BY <2>4
<1> HIDE DEF S
<1>2. Min(S) \in S /\ \A y \in S : Min(S) <= y
  BY <1>1 DEF Min
<1> QED
  BY <1>2 DEF S

-----------------------------------------------------------------------------
(* Where the chunks are in the file *)

(* The function that FileOffsets defines by recursion exists. *)
LEMMA OffsetsDefined ==
  ASSUME NEW v, NEW K \in Nat, NEW rows \in [0..K -> Int],
         v.cur_start_row \in Int
  PROVE  LET f == FileOffsets(v, rows)
         IN  f = [k \in 0..K |-> IF k = 0 THEN v.cur_start_row
                                 ELSE f[k - 1] + rows[k - 1]]
<1> DEFINE cur == v.cur_start_row
           Def(f, n) == [k \in 0..n |-> IF k = 0 THEN cur
                                        ELSE f[k - 1] + rows[k - 1]]
           Bad == {n \in 0..K : ~ \E f : f = Def(f, n)}
<1>1. Bad = {}
  <2> SUFFICES ASSUME Bad # {} PROVE FALSE
    OBVIOUS
  <2>a. Bad \subseteq Nat
    OBVIOUS
  <2>b. \E n \in Bad : \A m \in Bad : n <= m
    <3> HIDE DEF Bad
    <3> QED
      BY <2>a, LeastNumber
  <2>1. PICK n \in Bad : \A m \in Bad : n <= m
    BY <2>b
  <2>c. n \in 0..K
    OBVIOUS
  <2>2. CASE n = 0
    <3> DEFINE f == [k \in 0..0 |-> cur]
    <3>1. f = Def(f, 0)
      OBVIOUS
    <3> QED
      BY <3>1, <2>1, <2>2
  <2>3. CASE n # 0
    <3>a. n - 1 \in 0..K /\ ~(n <= n - 1)
      BY <2>c, <2>3
    <3>1. n - 1 \in 0..K /\ n - 1 \notin Bad
      <4> HIDE DEF Bad
      <4> QED
        BY <2>1, <3>a
    <3>2. PICK f : f = Def(f, n - 1)
      BY <3>1
    <3> DEFINE g == [k \in 0..n |-> IF k = n THEN f[n - 1] + rows[n - 1]
                                    ELSE f[k]]
    <3>3. ASSUME NEW k \in 0..n
          PROVE  g[k] = IF k = 0 THEN cur ELSE g[k - 1] + rows[k - 1]
      <4>1. CASE k = n
        <5>1. n - 1 \in 0..n /\ n - 1 # n
          BY <2>1, <2>3
        <5> QED
          BY <4>1, <5>1, <2>3
      <4>2. CASE k # n
        <5>1. k \in 0..n - 1 /\ k - 1 # n
              /\ (k # 0 => k - 1 \in 0..n)
          BY <4>2, <2>1
        <5>2. f[k] = IF k = 0 THEN cur ELSE f[k - 1] + rows[k - 1]
          BY <5>1, <3>2
        <5> QED
          BY <5>1, <5>2, <4>2
      <4> QED
        BY <4>1, <4>2
    <3>4. g = Def(g, n)
      BY <3>3
    <3> QED
      BY <3>4, <2>1
  <2> QED
    BY <2>2, <2>3
<1>2. \E f : f = Def(f, K)
  <2>1. K \in 0..K
    OBVIOUS
  <2> QED
    BY <1>1, <2>1
<1>3. DOMAIN rows = 0..K
  OBVIOUS
<1> QED
  BY <1>2, <1>3 DEF FileOffsets

(* As long as the chunks before are full, a chunk is in the file where it  *)
(* is in the array. *)
LEMMA OffsetsWhenFull ==
  ASSUME NEW v, NEW K \in Nat, NEW rows \in [0..K -> Int],
         v.cur_start_row \in Int, NEW c \in Nat, NEW n \in 0..K,
         \A j \in 0..n - 1 : rows[j] = c
  PROVE  FileOffsets(v, rows)[n] = v.cur_start_row + c * n
<1> DEFINE cur == v.cur_start_row
           f == FileOffsets(v, rows)
           Bad == {k \in 0..n : f[k] # cur + c * k}
<1>1. f = [k \in 0..K |-> IF k = 0 THEN cur ELSE f[k - 1] + rows[k - 1]]
  BY OffsetsDefined
<1> HIDE DEF f
<1>2. Bad = {}
  <2> SUFFICES ASSUME Bad # {} PROVE FALSE
    OBVIOUS
  <2>a. Bad \subseteq Nat
    OBVIOUS
  <2>b. \E k \in Bad : \A m \in Bad : k <= m
    <3> HIDE DEF Bad
    <3> QED
      BY <2>a, LeastNumber
  <2>1. PICK k \in Bad : \A m \in Bad : k <= m
    BY <2>b
  <2>2. k \in 0..n /\ k \in 0..K /\ f[k] # cur + c * k
    BY <2>1
  <2>3. CASE k = 0
    <3>1. f[k] = cur /\ c * k = 0 /\ cur + 0 = cur
      BY <2>2, <2>3, <1>1
    <3> QED
      BY <3>1, <2>2
  <2>4. CASE k # 0
    <3>1. k - 1 \in 0..n /\ k - 1 \notin Bad /\ k - 1 \in 0..n - 1
      BY <2>1, <2>2, <2>4
    <3>2. f[k - 1] = cur + c * (k - 1) /\ rows[k - 1] = c
      BY <3>1
    <3>3. f[k] = f[k - 1] + rows[k - 1]
      BY <2>2, <2>4, <1>1
    <3>4. c * (k - 1) = c * k - c /\ c * k \in Int
      BY <2>2
    <3>5. f[k] = cur + c * k
      BY <3>2, <3>3, <3>4
    <3> QED
      BY <3>5, <2>2
  <2> QED
    BY <2>3, <2>4
<1>3. n \in 0..n
  OBVIOUS
<1> QED
  BY <1>2, <1>3 DEF f

-----------------------------------------------------------------------------
(* What do_sarray_io transfers *)

LEMMA ChunkMultiples ==
  ASSUME NEW c \in Nat \ {0}, NEW j \in Int, NEW k \in Int, j < k
  PROVE  j * c + c <= k * c
<1>1. k - j \in Int /\ k - j >= 1
  OBVIOUS
<1>2. c * (k - j) >= c
  BY <1>1, Multiple
<1>3. c * (k - j) = k * c - j * c /\ k * c \in Int /\ j * c \in Int
  OBVIOUS
<1> QED
  BY <1>2, <1>3

(* Row by row the defined part of the buffer, whatever the chunks are. *)
LEMMA TransferredIs ==
  ASSUME NEW v, v.rows_in_mem \in Nat \ {0}, v.rowsperchunk \in Nat \ {0},
         v.cur_start_row \in Nat, v.first_undef_row \in Nat,
         v.rows_in_array \in Nat, v.first_undef_row <= v.rows_in_array
  PROVE  Transferred(v)
           = [i \in {i \in 0..v.rows_in_mem - 1 :
                       v.cur_start_row + i < v.first_undef_row} |->
                v.cur_start_row + i]
<1> DEFINE m == v.rows_in_mem
           c == v.rowsperchunk
           cur == v.cur_start_row
           undef == v.first_undef_row
           A == v.rows_in_array
           K == (m - 1) \div c
           Chunks == 0..K
           thisrow == [k \in Chunks |-> cur + k * c]
           rows == [k \in Chunks |->
                      Min({c, m - k * c, undef - thisrow[k], A - thisrow[k]})]
           offset == FileOffsets(v, rows)
           Moved(i) == /\ \A j \in 0..i \div c : rows[j] > 0
                       /\ (i % c) < rows[i \div c]
           moved == {i \in 0..m - 1 : Moved(i)}
<1>1. Transferred(v)
        = [i \in moved |-> offset[i \div c] + (i % c)]
  BY DEF Transferred
<1>2. K \in Nat /\ m - 1 = c * K + ((m - 1) % c) /\ (m - 1) % c \in 0..c - 1
  <2>1. m - 1 \in Nat /\ c \in Nat \ {0}
    OBVIOUS
  <2> QED
    BY <2>1, DivMod
<1>3. m \in Nat \ {0} /\ c \in Nat \ {0} /\ cur \in Nat /\ undef \in Nat
      /\ A \in Nat /\ undef <= A
  OBVIOUS
<1> HIDE DEF m, c, cur, undef, A, K
<1>4. \A k \in Chunks : k * c \in Int /\ thisrow[k] = cur + k * c
  BY <1>2, <1>3
<1> HIDE DEF thisrow
<1>5. ASSUME NEW k \in Chunks
      PROVE  /\ rows[k] \in Int
             /\ rows[k] \in {c, m - k * c, undef - (cur + k * c),
                             A - (cur + k * c)}
             /\ rows[k] <= c /\ rows[k] <= m - k * c
             /\ rows[k] <= undef - (cur + k * c)
  <2> DEFINE x == m - k * c
             y == undef - (cur + k * c)
             z == A - (cur + k * c)
  <2>1. k * c \in Int /\ thisrow[k] = cur + k * c
    BY <1>4
  <2>2. c \in Int /\ x \in Int /\ y \in Int /\ z \in Int
    BY <2>1, <1>3
  <2>3. rows[k] = Min({c, x, y, z})
    BY <2>1
  <2> HIDE DEF x, y, z
  <2>4. /\ Min({c, x, y, z}) \in {c, x, y, z}
        /\ Min({c, x, y, z}) <= c /\ Min({c, x, y, z}) <= x
        /\ Min({c, x, y, z}) <= y
    BY <2>2, MinOfFour
  <2>5. /\ rows[k] \in {c, x, y, z} /\ rows[k] \in Int
        /\ rows[k] <= c /\ rows[k] <= x /\ rows[k] <= y
    BY <2>2, <2>3, <2>4
  <2> QED
    BY <2>5 DEF x, y, z
<1>6. rows \in [Chunks -> Int] /\ DOMAIN rows = Chunks
  BY <1>5
<1> HIDE DEF rows
<1>7. ASSUME NEW i \in 0..m - 1
      PROVE  /\ i \div c \in Chunks /\ i % c \in 0..c - 1
             /\ i = (i \div c) * c + (i % c)
  <2> DEFINE k == i \div c
             r == i % c
  <2>a. i \in Nat /\ c \in Nat \ {0}
    BY <1>3
  <2>1. k \in Nat /\ r \in 0..c - 1 /\ i = c * k + r
    BY <2>a, DivMod
  <2>2. c * k = k * c /\ k * c \in Int /\ c * K = K * c /\ K * c \in Int
    BY <2>1, <1>2, <1>3
  <2> HIDE DEF k, r
  <2>3. k <= K
    <3> SUFFICES ASSUME K < k PROVE FALSE
      BY <2>1, <1>2
    <3>1. K * c + c <= k * c
      BY <2>1, <1>2, <1>3, ChunkMultiples
    <3>2. i <= m - 1 /\ m - 1 < K * c + c
      BY <1>2, <1>3, <2>2
    <3> QED
      BY <3>1, <3>2, <2>1, <2>2, <1>3
  <2> QED
    BY <2>1, <2>2, <2>3, <1>2 DEF k, r
<1>8. ASSUME NEW i \in 0..m - 1, Moved(i) PROVE cur + i < undef
  <2> DEFINE k == i \div c
             r == i % c
  <2>1. k \in Chunks /\ r \in 0..c - 1 /\ i = k * c + r /\ r < rows[k]
    BY <1>7, <1>8
  <2> HIDE DEF k, r
  <2>2. rows[k] \in Int /\ rows[k] <= undef - (cur + k * c) /\ k * c \in Int
    BY <2>1, <1>4, <1>5
  <2> QED
    BY <2>1, <2>2, <1>3
<1>9. ASSUME NEW i \in 0..m - 1, cur + i < undef
      PROVE  /\ Moved(i)
             /\ \A j \in 0..(i \div c) - 1 : rows[j] = c
  <2>1. PICK k \in Chunks, r \in 0..c - 1 :
          k = i \div c /\ r = i % c /\ i = k * c + r
    BY <1>7
  <2>2. ASSUME NEW j \in 0..k, rows[j] <= 0 PROVE FALSE
    <3>1. j \in Chunks /\ j \in Int /\ k \in Int
      BY <2>1, <1>2
    <3>2. j * c \in Int /\ k * c \in Int
      BY <3>1, <2>1, <1>4
    <3>3. j * c <= k * c
      <4>1. CASE j = k
        BY <4>1, <3>2
      <4>2. CASE j # k
        <5>1. j < k
          BY <4>2, <3>1
        <5>2. j * c + c <= k * c
          BY <5>1, <3>1, <1>3, ChunkMultiples
        <5> QED
          BY <5>2, <3>2, <1>3
      <4> QED
        BY <4>1, <4>2
    <3>4. j * c <= i
      BY <3>2, <3>3, <2>1, <1>3
    <3> QED
      BY <3>1, <3>2, <3>4, <2>2, <1>3, <1>5, <1>9
  <2>3. ASSUME NEW j \in 0..k - 1 PROVE rows[j] = c
    <3>1. j \in Chunks /\ j \in Int /\ k \in Int /\ j < k
      BY <2>1, <1>2
    <3>2. j * c \in Int /\ k * c \in Int /\ j * c + c <= k * c
      BY <3>1, <2>1, <1>3, <1>4, ChunkMultiples
    <3>3. j * c + c <= i
      BY <3>2, <2>1, <1>3
    <3>4. /\ c <= m - j * c /\ c <= undef - (cur + j * c)
          /\ c <= A - (cur + j * c)
      BY <3>2, <3>3, <1>3, <1>9
    <3> QED
      BY <3>1, <3>2, <3>4, <1>3, <1>5
  <2>4. r < rows[k]
    <3>1. k * c \in Int /\ rows[k] \in Int
          /\ rows[k] \in {c, m - k * c, undef - (cur + k * c),
                          A - (cur + k * c)}
      BY <2>1, <1>4, <1>5
    <3> QED
      BY <3>1, <2>1, <1>3, <1>9
  <2>5. \A j \in 0..k : rows[j] > 0
    <3>1. \A j \in 0..k : rows[j] \in Int
      BY <2>1, <1>2, <1>5
    <3> QED
      BY <3>1, <2>2
  <2> QED
    BY <2>1, <2>3, <2>4, <2>5
<1>10. moved = {i \in 0..m - 1 : cur + i < undef}
  BY <1>8, <1>9
<1>11. ASSUME NEW i \in moved PROVE offset[i \div c] + (i % c) = cur + i
  <2>1. i \in 0..m - 1 /\ cur + i < undef
    BY <1>8
  <2>2. PICK k \in Chunks, r \in 0..c - 1 :
          k = i \div c /\ r = i % c /\ i = k * c + r
    BY <2>1, <1>7
  <2>3. \A j \in 0..k - 1 : rows[j] = c
    BY <2>1, <2>2, <1>9
  <2>4. FileOffsets(v, rows)[k] = v.cur_start_row + c * k
    <3>1. v.cur_start_row \in Int /\ c \in Nat /\ K \in Nat
          /\ k \in 0..K /\ rows \in [0..K -> Int]
      BY <1>2, <1>3, <1>6 DEF cur
    <3>2. v.cur_start_row \in Int
      BY <3>1
    <3>3. K \in Nat
      BY <3>1
    <3>4. rows \in [0..K -> Int]
      BY <3>1
    <3>5. k \in 0..K /\ c \in Nat
      BY <3>1
    <3> QED
      BY ONLY <3>2, <3>3, <3>4, <3>5, <2>3, OffsetsWhenFull
  <2>5. c * k = k * c /\ k * c \in Int
    BY <2>2, <1>3, <1>4
  <2> QED
    BY <2>2, <2>4, <2>5, <1>3 DEF cur
<1> HIDE DEF moved, offset
<1>12. Transferred(v) = [i \in moved |-> cur + i]
  BY <1>1, <1>11
<1> QED
  BY <1>10, <1>12 DEF m, cur, undef

-----------------------------------------------------------------------------
(* The invariant *)

RowValues == UserValues \cup {Blank, Garbage}

ArrayTyped ==
  /\ virtPlace \in {"requested", "realized", "freed"}
  /\ virt \in [rows_in_array : 1..MaxRows, maxaccess : 1..MaxAccess,
               pre_zero : BOOLEAN, rows_in_mem : Nat, rowsperchunk : Nat,
               cur_start_row : Nat, first_undef_row : Nat,
               dirty : BOOLEAN, b_s_open : BOOLEAN]
  /\ virt.rows_in_mem <= virt.rows_in_array
  /\ virt.cur_start_row < virt.rows_in_array
  /\ virt.first_undef_row <= virt.rows_in_array
  /\ temp_file \in [0..virt.rows_in_array - 1 -> RowValues]
  /\ mem_buffer \in [DOMAIN mem_buffer -> RowValues]
  /\ strip_at \in [start : Nat, num : Nat, at : Nat, writable : BOOLEAN]
  /\ virtPlace # "realized" =>
       /\ strip_at = NoStrip
       /\ virt.cur_start_row = 0 /\ virt.first_undef_row = 0

(* A window that does not hold the whole array has room for every strip,   *)
(* and a file.  The strip that is on loan is in the window, and what may   *)
(* be written of it is dirty. *)
WindowSound ==
  virtPlace = "realized" =>
    /\ virt.rows_in_mem >= 1 /\ virt.rowsperchunk >= 1
    /\ DOMAIN mem_buffer = 0..virt.rows_in_mem - 1
    /\ IF virt.b_s_open THEN virt.maxaccess <= virt.rows_in_mem
       ELSE virt.rows_in_mem = virt.rows_in_array /\ virt.cur_start_row = 0
    /\ strip_at.num > 0 =>
         /\ virt.cur_start_row <= strip_at.start
         /\ strip_at.start + strip_at.num
              <= virt.cur_start_row + virt.rows_in_mem
         /\ strip_at.start + strip_at.num <= virt.rows_in_array
         /\ strip_at.at = strip_at.start - virt.cur_start_row
    /\ strip_at.writable =>
         /\ strip_at.start + strip_at.num <= virt.first_undef_row
         /\ virt.dirty

VirtInv == ArrayTyped /\ WindowSound /\ FileUpToDate

-----------------------------------------------------------------------------
(* The file after the buffer was written to it has every defined row.      *)
LEMMA WrittenBack ==
  ASSUME VirtInv, virtPlace = "realized"
  PROVE  /\ FileWritten(virt) \in [0..virt.rows_in_array - 1 -> RowValues]
         /\ \A r \in Defined : FileWritten(virt)[r] = Row(r)
<1> DEFINE m == virt.rows_in_mem
           cur == virt.cur_start_row
           undef == virt.first_undef_row
           A == virt.rows_in_array
           to == Transferred(virt)
           new == {to[i] : i \in DOMAIN to}
           file == FileWritten(virt)
<1>1. /\ m \in Nat \ {0} /\ cur \in Nat /\ undef \in Nat /\ A \in Nat
      /\ undef <= A /\ virt.rowsperchunk \in Nat \ {0}
      /\ DOMAIN mem_buffer = 0..m - 1
      /\ mem_buffer \in [0..m - 1 -> RowValues]
      /\ temp_file \in [0..A - 1 -> RowValues]
  BY DEF VirtInv, ArrayTyped, WindowSound
<1>2. to = [i \in {i \in 0..m - 1 : cur + i < undef} |-> cur + i]
  BY <1>1, TransferredIs
<1>3. file = [r \in 0..A - 1 |->
                IF r \in new
                THEN mem_buffer[CHOOSE i \in DOMAIN to : to[i] = r]
                ELSE temp_file[r]]
  BY <1>1 DEF FileWritten
<1>4. \A r \in Defined : InWindow(r) <=> r \in cur..cur + m - 1
  BY DEF InWindow
<1>5. Defined = 0..undef - 1
  BY DEF Defined
<1> HIDE DEF to, m, cur, undef, A, file
<1>6. ASSUME NEW r \in new
      PROVE  /\ r - cur \in 0..m - 1 /\ r < undef /\ r >= cur
             /\ (CHOOSE i \in DOMAIN to : to[i] = r) = r - cur
  <2>1. PICK j \in DOMAIN to : to[j] = r
    OBVIOUS
  <2>2. j \in 0..m - 1 /\ cur + j < undef /\ r = cur + j
    BY <2>1, <1>2
  <2>3. \A i \in DOMAIN to : to[i] = r => i = j
    <3>1. \A i \in DOMAIN to : i \in 0..m - 1 /\ to[i] = cur + i
      BY <1>2
    <3> QED
      BY <3>1, <2>2, <1>1
  <2>4. (CHOOSE i \in DOMAIN to : to[i] = r) = j
    BY <2>1, <2>3
  <2>5. r - cur = j
    BY <2>2, <1>1
  <2> QED
    BY <2>2, <2>4, <2>5, <1>1
<1>7. ASSUME NEW r \in cur..cur + m - 1, r < undef PROVE r \in new
  <2>1. r - cur \in DOMAIN to /\ to[r - cur] = r
    BY <1>1, <1>2, <1>7
  <2> QED
    BY <2>1
<1> HIDE DEF new
<1>8. file \in [0..A - 1 -> RowValues]
  BY <1>1, <1>3, <1>6
<1>9. ASSUME NEW r \in Defined PROVE file[r] = Row(r)
  <2>1. r \in 0..A - 1 /\ r \in Int /\ r < undef
    BY <1>1, <1>5
  <2>2. CASE r \in cur..cur + m - 1
    <3>1. r \in new
      BY <2>1, <2>2, <1>7
    <3>2. file[r] = mem_buffer[r - cur]
      BY <3>1, <2>1, <1>3, <1>6
    <3>3. Row(r) = mem_buffer[r - cur]
      BY <2>2, <1>4 DEF Row, cur
    <3> QED
      BY <3>2, <3>3
  <2>3. CASE r \notin cur..cur + m - 1
    <3>1. r \notin new
      BY <2>1, <2>3, <1>1, <1>6
    <3>2. file[r] = temp_file[r]
      BY <3>1, <2>1, <1>3
    <3>3. ~InWindow(r)
      BY <2>3, <1>4
    <3>4. Row(r) = temp_file[r]
      BY <3>3 DEF Row
    <3> QED
      BY <3>2, <3>4
  <2> QED
    BY <2>2, <2>3
<1> QED
  BY <1>8, <1>9 DEF file, A

(* The buffer after the file was read has its defined rows. *)
LEMMA ReadBack ==
  ASSUME VirtInv, virtPlace = "realized", NEW v,
         v.rows_in_mem = virt.rows_in_mem,
         v.rowsperchunk = virt.rowsperchunk,
         v.rows_in_array = virt.rows_in_array,
         v.first_undef_row = virt.first_undef_row,
         v.cur_start_row \in Nat,
         NEW file \in [0..virt.rows_in_array - 1 -> RowValues]
  PROVE  /\ BufferRead(v, file) \in [0..virt.rows_in_mem - 1 -> RowValues]
         /\ \A r \in Defined :
              r \in v.cur_start_row..v.cur_start_row + virt.rows_in_mem - 1 =>
                BufferRead(v, file)[r - v.cur_start_row] = file[r]
<1> DEFINE m == virt.rows_in_mem
           cur == v.cur_start_row
           undef == virt.first_undef_row
           A == virt.rows_in_array
           from == Transferred(v)
           buffer == BufferRead(v, file)
<1>1. /\ m \in Nat \ {0} /\ cur \in Nat /\ undef \in Nat /\ A \in Nat
      /\ undef <= A /\ virt.rowsperchunk \in Nat \ {0}
      /\ mem_buffer \in [0..m - 1 -> RowValues]
  BY DEF VirtInv, ArrayTyped, WindowSound
<1>2. from = [i \in {i \in 0..m - 1 : cur + i < undef} |-> cur + i]
  BY <1>1, TransferredIs
<1>3. buffer = [i \in 0..m - 1 |->
                  IF i \in DOMAIN from THEN file[from[i]] ELSE mem_buffer[i]]
  BY <1>1 DEF BufferRead
<1>4. Defined = 0..undef - 1 /\ file \in [0..A - 1 -> RowValues]
  BY DEF Defined
<1> HIDE DEF m, cur, undef, A, from, buffer
<1>5. \A i \in 0..m - 1 :
        /\ i \in DOMAIN from <=> cur + i < undef
        /\ i \in DOMAIN from => from[i] = cur + i /\ cur + i \in 0..A - 1
  BY <1>1, <1>2
<1>6. buffer \in [0..m - 1 -> RowValues]
  BY <1>1, <1>3, <1>4, <1>5
<1>7. ASSUME NEW r \in Defined, r \in cur..cur + m - 1
      PROVE  buffer[r - cur] = file[r]
  <2>1. r - cur \in 0..m - 1 /\ cur + (r - cur) = r /\ r < undef
    BY <1>1, <1>4, <1>7
  <2> QED
    BY <2>1, <1>3, <1>5
<1> QED
  BY <1>6, <1>7 DEF m, cur, buffer

-----------------------------------------------------------------------------
(* The strips *)

(* What access_virt_sarray comes to: the window has the strip, every       *)
(* defined row is what it was, and new rows are blank if that was asked    *)
(* for. *)
Borrowed(s, n, w) ==
  /\ virtPlace = "realized" /\ virtPlace' = "realized"
  /\ s + n <= virt.rows_in_array /\ n <= virt.maxaccess
  /\ IF w THEN s <= virt.first_undef_row
     ELSE s + n <= virt.first_undef_row \/ virt.pre_zero
  /\ virt' \in [rows_in_array : 1..MaxRows, maxaccess : 1..MaxAccess,
                pre_zero : BOOLEAN, rows_in_mem : Nat, rowsperchunk : Nat,
                cur_start_row : Nat, first_undef_row : Nat,
                dirty : BOOLEAN, b_s_open : BOOLEAN]
  /\ virt'.rows_in_array = virt.rows_in_array
  /\ virt'.maxaccess = virt.maxaccess
  /\ virt'.pre_zero = virt.pre_zero
  /\ virt'.rows_in_mem = virt.rows_in_mem
  /\ virt'.rowsperchunk = virt.rowsperchunk
  /\ virt'.b_s_open = virt.b_s_open
  /\ virt'.first_undef_row = IF w /\ s + n > virt.first_undef_row THEN s + n
                             ELSE virt.first_undef_row
  /\ w => virt'.dirty
  /\ virt'.cur_start_row <= s
  /\ s + n <= virt'.cur_start_row + virt.rows_in_mem
  /\ ~virt.b_s_open => virt'.cur_start_row = 0
  /\ temp_file' \in [0..virt.rows_in_array - 1 -> RowValues]
  /\ mem_buffer' \in [0..virt.rows_in_mem - 1 -> RowValues]
  /\ strip_at' = [start |-> s, num |-> n, at |-> s - virt'.cur_start_row,
                  writable |-> w]
  /\ \A r \in Defined :
       IF InWindow(r)' THEN mem_buffer'[r - virt'.cur_start_row] = Row(r)
       ELSE temp_file'[r] = Row(r)
  /\ virt.b_s_open /\ ~virt'.dirty =>
       \A r \in Defined :
         InWindow(r)' => temp_file'[r] = mem_buffer'[r - virt'.cur_start_row]
  /\ virt.pre_zero =>
       \A r \in s..s + n - 1 :
         r \notin Defined => mem_buffer'[r - virt'.cur_start_row] = Blank

LEMMA AccessBorrows ==
  ASSUME VirtInv, NEW s \in 0..MaxRows - 1, NEW n \in 1..MaxAccess,
         NEW w \in BOOLEAN, access_virt_sarray(s, n, w)
  PROVE  Borrowed(s, n, w)
<1> DEFINE m == virt.rows_in_mem
           cur == virt.cur_start_row
           undef == virt.first_undef_row
           A == virt.rows_in_array
           e == s + n
           outside == s < cur \/ e > cur + m
           file == IF outside /\ virt.dirty THEN FileWritten(virt)
                                            ELSE temp_file
           moved == IF ~outside THEN virt
                    ELSE [virt EXCEPT !.dirty = FALSE,
                                      !.cur_start_row = WindowFor(s, n)]
           buffer == IF outside THEN BufferRead(moved, file) ELSE mem_buffer
           cleared == {r - moved.cur_start_row : r \in Max({undef, s})..e - 1}
<1>1. /\ virtPlace = "realized" /\ virtPlace' = virtPlace
      /\ ~BadAccess(s, n, w)
      /\ outside => virt.b_s_open
      /\ mem_buffer' = [i \in DOMAIN buffer |->
                          IF virt.pre_zero /\ i \in cleared THEN Blank
                                                            ELSE buffer[i]]
      /\ temp_file' = file
      /\ virt' = Flagged(moved, e, w)
      /\ strip_at' = [start |-> s, num |-> n,
                      at |-> s - moved.cur_start_row, writable |-> w]
  BY DEF access_virt_sarray
<1>2. /\ m \in Nat \ {0} /\ cur \in Nat /\ undef \in Nat /\ A \in Nat
      /\ m <= A /\ cur < A /\ undef <= A /\ s \in Nat /\ n \in Nat \ {0}
      /\ virt.maxaccess \in Nat
      /\ mem_buffer \in [0..m - 1 -> RowValues]
      /\ temp_file \in [0..A - 1 -> RowValues]
      /\ IF virt.b_s_open THEN virt.maxaccess <= m ELSE m = A /\ cur = 0
  <2>1. MaxRows \in Nat /\ MaxAccess \in Nat
    BY VirtAssumption
  <2>2. ArrayTyped /\ WindowSound /\ virtPlace = "realized"
    BY <1>1 DEF VirtInv
  <2>3. /\ m \in Nat /\ cur \in Nat /\ undef \in Nat /\ A \in Nat
        /\ m <= A /\ cur < A /\ undef <= A /\ virt.maxaccess \in Nat
        /\ mem_buffer \in [DOMAIN mem_buffer -> RowValues]
        /\ temp_file \in [0..A - 1 -> RowValues]
    BY <2>1, <2>2, SMTT(30) DEF ArrayTyped
  <2>4. /\ m >= 1 /\ DOMAIN mem_buffer = 0..m - 1
        /\ IF virt.b_s_open THEN virt.maxaccess <= m ELSE m = A /\ cur = 0
    BY <2>2 DEF WindowSound
  <2>5. s \in Nat /\ n \in Nat \ {0}
    BY <2>1
  <2> QED
    BY <2>3, <2>4, <2>5
<1>3. /\ e <= A /\ n <= virt.maxaccess /\ e \in Nat
      /\ IF w THEN s <= undef ELSE e <= undef \/ virt.pre_zero
  <2>1. e \in Nat
    BY <1>2
  <2> QED
    BY <2>1, <1>1, <1>2 DEF BadAccess
<1>4. /\ moved.cur_start_row \in Nat /\ moved.cur_start_row <= s
      /\ e <= moved.cur_start_row + m
      /\ ~virt.b_s_open => moved.cur_start_row = 0
  <2>1. CASE ~outside
    BY <2>1, <1>2, <1>3, SMTT(30)
  <2>2. CASE outside
    <3>1. moved.cur_start_row = WindowFor(s, n)
      BY <2>2 DEF VirtInv, ArrayTyped
    <3>2. virt.b_s_open /\ virt.maxaccess <= m
      BY <2>2, <1>1, <1>2
    <3>3. CASE s > cur
      BY <3>1, <3>2, <3>3, <1>2, <1>3, SMTT(30) DEF WindowFor
    <3>4. CASE ~(s > cur)
      <4>1. WindowFor(s, n) = Max({s + n - virt.rows_in_mem, 0})
        BY <3>4, <1>2 DEF WindowFor
      <4>2. s + n - virt.rows_in_mem \in Int /\ 0 \in Int
        BY <1>2, <1>3
      <4>3. Max({s + n - virt.rows_in_mem, 0})
              = IF s + n - virt.rows_in_mem >= 0
                THEN s + n - virt.rows_in_mem ELSE 0
        BY <4>2, MaxOfTwo
      <4> HIDE DEF moved
      <4> QED
        BY <4>1, <4>2, <4>3, <3>1, <3>2, <3>4, <1>2, <1>3, SMTT(30)
    <3> QED
      BY <3>3, <3>4
  <2> QED
    BY <2>1, <2>2
<1>5. /\ moved.rows_in_mem = m /\ moved.rowsperchunk = virt.rowsperchunk
      /\ moved.rows_in_array = A /\ moved.first_undef_row = undef
      /\ moved.maxaccess = virt.maxaccess /\ moved.pre_zero = virt.pre_zero
      /\ moved.b_s_open = virt.b_s_open
      /\ moved.dirty = (~outside /\ virt.dirty)
      /\ moved \in [rows_in_array : 1..MaxRows, maxaccess : 1..MaxAccess,
                    pre_zero : BOOLEAN, rows_in_mem : Nat,
                    rowsperchunk : Nat, cur_start_row : Nat,
                    first_undef_row : Nat, dirty : BOOLEAN,
                    b_s_open : BOOLEAN]
  BY <1>4 DEF VirtInv, ArrayTyped
<1> DEFINE c == moved.cur_start_row
<1>6. c = moved.cur_start_row
  OBVIOUS
<1>7. file \in [0..A - 1 -> RowValues]
      /\ \A r \in Defined :
           outside \/ ~InWindow(r) => file[r] = Row(r)
  <2>1. CASE outside /\ virt.dirty
    BY <2>1, <1>1, WrittenBack
  <2>2. CASE ~(outside /\ virt.dirty)
    <3>1. file = temp_file
      BY <2>2
    <3>2. ASSUME NEW r \in Defined, outside \/ ~InWindow(r)
          PROVE  temp_file[r] = Row(r)
      <4>1. CASE ~InWindow(r)
        BY <4>1 DEF Row
      <4>2. CASE InWindow(r)
        <5>1. outside /\ ~virt.dirty /\ virt.b_s_open
          BY <4>2, <3>2, <2>2, <1>1
        <5>2. temp_file[r] = mem_buffer[r - virt.cur_start_row]
          BY <5>1, <4>2, <1>1 DEF VirtInv, FileUpToDate
        <5> QED
          BY <5>2, <4>2 DEF Row
      <4> QED
        BY <4>1, <4>2
    <3> QED
      BY <3>1, <3>2, <1>2
  <2> QED
    BY <2>1, <2>2
<1>8. \A r \in Defined : InWindow(r) => Row(r) = mem_buffer[r - cur]
  BY DEF Row
<1>9. /\ buffer \in [0..m - 1 -> RowValues]
      /\ \A r \in Defined : r \in c..c + m - 1 => buffer[r - c] = Row(r)
      /\ outside => \A r \in Defined : r \in c..c + m - 1 =>
                                         file[r] = buffer[r - c]
  <2>1. CASE outside
    <3>1. buffer = BufferRead(moved, file)
      BY <2>1
    <3> HIDE DEF moved, file, buffer, outside
    <3>2. /\ BufferRead(moved, file) \in [0..m - 1 -> RowValues]
          /\ \A r \in Defined : r \in c..c + m - 1 =>
               BufferRead(moved, file)[r - c] = file[r]
      BY <1>1, <1>4, <1>5, <1>7, ReadBack
    <3> QED
      BY <3>1, <3>2, <2>1, <1>7
  <2>2. CASE ~outside
    <3>1. buffer = mem_buffer /\ c = cur
      BY <2>2
    <3>2. \A r \in Defined : r \in cur..cur + m - 1 => InWindow(r)
      BY DEF InWindow
    <3> QED
      BY <3>1, <3>2, <2>2, <1>2, <1>8
  <2> QED
    BY <2>1, <2>2
<1>10. virt' = [moved EXCEPT
                  !.first_undef_row = IF w THEN Max({undef, e}) ELSE undef,
                  !.dirty = moved.dirty \/ w]
  BY <1>1, <1>5 DEF Flagged
<1>11. Max({undef, e}) = IF undef >= e THEN undef ELSE e
  <2>1. undef \in Int /\ e \in Int
    BY <1>2, <1>3
  <2> HIDE DEF undef, e
  <2> QED
    BY <2>1, MaxOfTwo
<1>12. Max({undef, s}) = IF undef >= s THEN undef ELSE s
  BY <1>2, MaxOfTwo, SMTT(30)
<1>13. cleared = {r - c : r \in (IF undef >= s THEN undef ELSE s)..e - 1}
  BY <1>12
<1> HIDE DEF file, buffer, cleared, outside, moved
<1>14. /\ virt' \in [rows_in_array : 1..MaxRows, maxaccess : 1..MaxAccess,
                     pre_zero : BOOLEAN, rows_in_mem : Nat,
                     rowsperchunk : Nat, cur_start_row : Nat,
                     first_undef_row : Nat, dirty : BOOLEAN,
                     b_s_open : BOOLEAN]
       /\ virt'.rows_in_array = A /\ virt'.maxaccess = virt.maxaccess
       /\ virt'.pre_zero = virt.pre_zero /\ virt'.rows_in_mem = m
       /\ virt'.rowsperchunk = virt.rowsperchunk
       /\ virt'.b_s_open = virt.b_s_open
       /\ virt'.first_undef_row = (IF w /\ e > undef THEN e ELSE undef)
       /\ virt'.dirty = ((~outside /\ virt.dirty) \/ w)
       /\ virt'.cur_start_row = c
  <2>1. (IF w THEN Max({undef, e}) ELSE undef)
          = IF w /\ e > undef THEN e ELSE undef
    BY <1>2, <1>3, <1>11
  <2> QED
    BY <2>1, <1>2, <1>3, <1>5, <1>10
<1>15. Defined = 0..undef - 1 /\ \A r : InWindow(r)' <=> r \in c..c + m - 1
  BY <1>14 DEF Defined, InWindow
<1>16. mem_buffer' = [i \in 0..m - 1 |->
                        IF virt.pre_zero /\ i \in cleared THEN Blank
                                                          ELSE buffer[i]]
  BY <1>1, <1>9
<1>17. mem_buffer' \in [0..m - 1 -> RowValues]
  BY <1>9, <1>16 DEF RowValues
<1>18. ASSUME NEW r \in Defined, r \in c..c + m - 1
       PROVE  mem_buffer'[r - c] = Row(r) /\ buffer[r - c] = Row(r)
  <2>0. r \in 0..undef - 1 /\ undef \in Nat
    BY <1>2, <1>15
  <2>a. c \in Nat /\ m \in Nat
    BY <1>2, <1>4
  <2>b. r \in c..c + m - 1 /\ r \in Int /\ r < undef
    BY <2>0, <1>18
  <2>1. r - c \in 0..m - 1 /\ r \in Int /\ r < undef /\ c \in Int
    <3> HIDE DEF c, m, undef
    <3> QED
      BY <2>a, <2>b
  <2>c. e \in Int /\ s \in Int /\ undef \in Int
    BY <1>2, <1>3
  <2>d. \A q \in (IF undef >= s THEN undef ELSE s)..e - 1 :
          q \in Int /\ q >= undef
    <3> HIDE DEF e, undef
    <3> QED
      BY <2>c
  <2>2. r - c \notin cleared
    <3> DEFINE S == (IF undef >= s THEN undef ELSE s)..e - 1
    <3>1. \A q \in S : q \in Int /\ q >= undef
      BY <2>d
    <3>2. undef \in Int /\ c \in Int /\ r \in Int /\ r < undef
      BY <2>1, <2>c
    <3>3. cleared = {q - c : q \in S}
      BY <1>13
    <3> HIDE DEF S, c, undef
    <3>4. \A q \in S : q - c # r - c
      BY <3>1, <3>2
    <3> QED
      BY <3>3, <3>4
  <2> QED
    BY <2>1, <2>2, <1>9, <1>16, <1>18
<1>19. ASSUME virt.pre_zero, NEW r \in s..e - 1, r \notin Defined
       PROVE  mem_buffer'[r - c] = Blank
  <2>a. /\ e \in Int /\ s \in Nat /\ undef \in Nat /\ m \in Nat /\ c \in Nat
        /\ c <= s /\ e <= c + m
    BY <1>2, <1>3, <1>4
  <2>b. r \in Int /\ r >= s /\ r < e /\ r \notin 0..undef - 1
    <3>1. r \in s..e - 1 /\ r \notin 0..undef - 1
      BY <1>15, <1>19
    <3> HIDE DEF e, undef, c, m
    <3> QED
      BY <3>1, <2>a
  <2> HIDE DEF e, undef, c, m
  <2>1. r >= undef /\ r \in Int /\ r - c \in 0..m - 1
    BY <2>a, <2>b
  <2>2. r - c \in cleared
    <3>1. r \in (IF undef >= s THEN undef ELSE s)..e - 1
      BY <2>a, <2>b, <2>1
    <3> QED
      BY <3>1, <1>13
  <2> QED
    BY <2>1, <2>2, <1>16, <1>19
<1>20. ASSUME NEW r \in Defined, r \notin c..c + m - 1
       PROVE  temp_file'[r] = Row(r)
  <2>1. CASE outside
    BY <2>1, <1>1, <1>7
  <2>2. CASE ~outside
    <3>1. c = cur
      BY <2>2 DEF moved
    <3>2. ~InWindow(r)
      BY <3>1, <1>20 DEF InWindow
    <3> QED
      BY <3>2, <1>1, <1>7
  <2> QED
    BY <2>1, <2>2
<1>21. ASSUME virt.b_s_open, ~virt'.dirty, NEW r \in Defined,
              r \in c..c + m - 1
       PROVE  temp_file'[r] = mem_buffer'[r - c]
  <2>1. mem_buffer'[r - c] = Row(r) /\ buffer[r - c] = Row(r)
    BY <1>18, <1>21
  <2>2. CASE outside
    BY <2>1, <2>2, <1>1, <1>9, <1>21
  <2>3. CASE ~outside
    <3>1. c = cur /\ ~virt.dirty /\ InWindow(r)
      BY <2>3, <1>14, <1>21 DEF moved, InWindow
    <3>2. temp_file[r] = mem_buffer[r - virt.cur_start_row]
      BY <3>1, <1>1, <1>21 DEF VirtInv, FileUpToDate
    <3>3. temp_file' = temp_file
      BY <2>3, <1>1 DEF file
    <3> QED
      BY <3>1, <3>2, <3>3, <2>1, <1>8
  <2> QED
    BY <2>2, <2>3
<1>22. /\ temp_file' \in [0..A - 1 -> RowValues]
       /\ strip_at' = [start |-> s, num |-> n, at |-> s - c, writable |-> w]
  BY <1>1, <1>7
<1>23. w => virt'.dirty
  BY <1>14
<1> HIDE DEF c
<1>24. \A r \in Defined :
         IF InWindow(r)' THEN mem_buffer'[r - c] = Row(r)
         ELSE temp_file'[r] = Row(r)
  BY <1>15, <1>18, <1>20
<1>25. virt.b_s_open /\ ~virt'.dirty =>
         \A r \in Defined : InWindow(r)' => temp_file'[r] = mem_buffer'[r - c]
  BY <1>15, <1>21
<1>26. virt.pre_zero =>
         \A r \in s..e - 1 : r \notin Defined => mem_buffer'[r - c] = Blank
  BY <1>19
<1>27. c <= s /\ e <= c + m /\ (~virt.b_s_open => c = 0)
  BY <1>4 DEF c
<1>28. c = virt'.cur_start_row
  BY <1>14 DEF c
<1>29. virtPlace' = "realized"
  BY <1>1
<1>30. /\ s + n <= virt.rows_in_array /\ n <= virt.maxaccess
       /\ IF w THEN s <= virt.first_undef_row
          ELSE s + n <= virt.first_undef_row \/ virt.pre_zero
  BY <1>3
<1>31. virt'.first_undef_row = IF w /\ s + n > virt.first_undef_row
                               THEN s + n ELSE virt.first_undef_row
  BY <1>14
<1>32. /\ virt'.rows_in_array = virt.rows_in_array
       /\ virt'.maxaccess = virt.maxaccess
       /\ virt'.pre_zero = virt.pre_zero
       /\ virt'.rows_in_mem = virt.rows_in_mem
       /\ virt'.rowsperchunk = virt.rowsperchunk
       /\ virt'.b_s_open = virt.b_s_open
  BY <1>14
<1>33. /\ virt'.cur_start_row <= s
       /\ s + n <= virt'.cur_start_row + virt.rows_in_mem
       /\ ~virt.b_s_open => virt'.cur_start_row = 0
  BY <1>27, <1>28
<1>34. /\ temp_file' \in [0..virt.rows_in_array - 1 -> RowValues]
       /\ mem_buffer' \in [0..virt.rows_in_mem - 1 -> RowValues]
       /\ strip_at' = [start |-> s, num |-> n,
                       at |-> s - virt'.cur_start_row, writable |-> w]
  BY <1>17, <1>22, <1>28
<1>35. \A r \in Defined :
         IF InWindow(r)' THEN mem_buffer'[r - virt'.cur_start_row] = Row(r)
         ELSE temp_file'[r] = Row(r)
  BY <1>24, <1>28
<1>36. virt.b_s_open /\ ~virt'.dirty =>
         \A r \in Defined :
           InWindow(r)' => temp_file'[r] = mem_buffer'[r - virt'.cur_start_row]
  BY <1>25, <1>28
<1>37. virt.pre_zero =>
         \A r \in s..s + n - 1 :
           r \notin Defined => mem_buffer'[r - virt'.cur_start_row] = Blank
  BY <1>26, <1>28
<1>38. virt' \in [rows_in_array : 1..MaxRows, maxaccess : 1..MaxAccess,
                  pre_zero : BOOLEAN, rows_in_mem : Nat,
                  rowsperchunk : Nat, cur_start_row : Nat,
                  first_undef_row : Nat, dirty : BOOLEAN,
                  b_s_open : BOOLEAN]
  BY <1>14
<1> QED
  BY ONLY <1>1, <1>23, <1>29, <1>30, <1>31, <1>32, <1>33, <1>34, <1>35,
          <1>36, <1>37, <1>38 DEF Borrowed

-----------------------------------------------------------------------------
(* The steps *)

(* The number of rows that are kept in memory is one of the array, and     *)
(* when it is not all of them, a strip fits into it. *)
LEMMA RowsFit ==
  ASSUME NEW avail \in Nat, virt.rows_in_array \in Nat \ {0},
         virt.maxaccess \in Nat \ {0}
  PROVE  /\ RowsInMem(avail) \in 1..virt.rows_in_array
         /\ RowsInMem(avail) # virt.rows_in_array =>
              virt.maxaccess <= RowsInMem(avail)
<1> DEFINE A == virt.rows_in_array
           ma == virt.maxaccess
           q == (A - 1) \div ma
           mm == Max({avail \div ma, 1})
<1>1. RowsInMem(avail) = IF avail >= A \/ q + 1 <= mm THEN A ELSE mm * ma
  BY DEF RowsInMem
<1>2. A \in Nat \ {0} /\ ma \in Nat \ {0}
  OBVIOUS
<1>3. mm \in Nat /\ mm >= 1
  <2>a. avail \in Nat /\ ma \in Nat \ {0}
    BY <1>2
  <2>b. avail \div ma \in Nat
    <3> HIDE DEF ma
    <3> QED
      BY <2>a, DivMod
  <2>1. avail \div ma \in Int /\ 1 \in Int
    BY <2>b
  <2>2. mm = IF avail \div ma >= 1 THEN avail \div ma ELSE 1
    BY <2>1, MaxOfTwo
  <2> QED
    BY <2>1, <2>2
<1>4. q \in Nat /\ ma * q <= A - 1
  <2>1. A - 1 \in Nat
    BY <1>2
  <2>2. q \in Nat /\ A - 1 = ma * q + ((A - 1) % ma)
        /\ (A - 1) % ma \in 0..ma - 1
    BY <2>1, <1>2, DivMod
  <2>3. ma * q \in Int
    BY <2>2, <1>2
  <2> QED
    BY <2>2, <2>3, <1>2
<1> HIDE DEF A, ma, q, mm
<1>5. ma * mm \in Int /\ ma * mm >= ma /\ mm * ma = ma * mm
  BY <1>2, <1>3, Multiple
<1>6. ASSUME mm <= q PROVE ma * mm <= ma * q
  <2>1. CASE mm = q
    BY <2>1, <1>2, <1>4
  <2>2. CASE mm # q
    <3>1. mm * ma + ma <= q * ma
      BY <2>2, <1>2, <1>3, <1>4, <1>6, ChunkMultiples
    <3>2. q * ma = ma * q /\ ma * q \in Int
      BY <1>2, <1>4
    <3> QED
      BY <3>1, <3>2, <1>2, <1>5
  <2> QED
    BY <2>1, <2>2
<1>7. CASE avail >= A \/ q + 1 <= mm
  BY <1>1, <1>2, <1>7 DEF A
<1>8. CASE ~(avail >= A \/ q + 1 <= mm)
  <2>1. mm <= q
    BY <1>3, <1>4, <1>8
  <2>2. RowsInMem(avail) = ma * mm
    BY <1>1, <1>5, <1>8
  <2>3. ma * mm <= A - 1 /\ ma * q \in Int
    BY <2>1, <1>2, <1>4, <1>5, <1>6
  <2>4. ma * mm \in 1..A /\ ma <= ma * mm
    BY <2>3, <1>2, <1>5
  <2> QED
    BY <2>2, <2>4 DEF A, ma
<1> QED
  BY <1>7, <1>8

(* At the start nothing is realized. *)
LEMMA VirtStarts ==
  VirtInit => VirtInv
<1> SUFFICES ASSUME VirtInit PROVE VirtInv
  OBVIOUS
<1>0. MaxRows \in Nat /\ MaxAccess \in Nat
  BY VirtAssumption
<1>a. /\ virt \in [rows_in_array : 1..MaxRows, maxaccess : 1..MaxAccess,
                   pre_zero : BOOLEAN, rows_in_mem : Nat, rowsperchunk : Nat,
                   cur_start_row : Nat, first_undef_row : Nat,
                   dirty : BOOLEAN, b_s_open : BOOLEAN]
      /\ virt.rows_in_mem = 0 /\ virt.cur_start_row = 0
      /\ virt.first_undef_row = 0 /\ virt.rows_in_array \in 1..MaxRows
  <2>1. virt \in [rows_in_array : 1..MaxRows, maxaccess : 1..MaxAccess,
                  pre_zero : BOOLEAN, rows_in_mem : {0}, rowsperchunk : {0},
                  cur_start_row : {0}, first_undef_row : {0},
                  dirty : {FALSE}, b_s_open : {FALSE}]
    BY DEF VirtInit
  <2>2. 0 \in Nat /\ FALSE \in BOOLEAN
    OBVIOUS
  <2>3. /\ virt.rows_in_array \in 1..MaxRows /\ virt.maxaccess \in 1..MaxAccess
        /\ virt.pre_zero \in BOOLEAN /\ virt.rows_in_mem = 0
        /\ virt.rowsperchunk = 0 /\ virt.cur_start_row = 0
        /\ virt.first_undef_row = 0 /\ virt.dirty = FALSE
        /\ virt.b_s_open = FALSE
    BY <2>1
  <2>4. virt = [rows_in_array |-> virt.rows_in_array,
                maxaccess |-> virt.maxaccess, pre_zero |-> virt.pre_zero,
                rows_in_mem |-> 0, rowsperchunk |-> 0, cur_start_row |-> 0,
                first_undef_row |-> 0, dirty |-> FALSE, b_s_open |-> FALSE]
    BY <2>1, <2>3
  <2>5. virt \in [rows_in_array : 1..MaxRows, maxaccess : 1..MaxAccess,
                  pre_zero : BOOLEAN, rows_in_mem : Nat, rowsperchunk : Nat,
                  cur_start_row : Nat, first_undef_row : Nat,
                  dirty : BOOLEAN, b_s_open : BOOLEAN]
    BY <2>2, <2>3, <2>4
  <2> QED
    BY <2>3, <2>5
<1>b. /\ temp_file \in [0..virt.rows_in_array - 1 -> RowValues]
      /\ mem_buffer \in [DOMAIN mem_buffer -> RowValues]
  BY DEF VirtInit, RowValues
<1>c. /\ strip_at \in [start : Nat, num : Nat, at : Nat, writable : BOOLEAN]
      /\ strip_at = NoStrip /\ virtPlace = "requested"
  BY DEF VirtInit, NoStrip
<1>1. ArrayTyped
  BY <1>0, <1>a, <1>b, <1>c DEF ArrayTyped
<1>2. WindowSound /\ FileUpToDate
  BY DEF VirtInit, WindowSound, FileUpToDate
<1> QED
  BY <1>1, <1>2 DEF VirtInv

LEMMA FreedSound ==
  ASSUME VirtInv, free_pool PROVE VirtInv'
<1>0. MaxRows \in Nat /\ ArrayTyped
  BY VirtAssumption DEF VirtInv
<1>a. /\ virt' \in [rows_in_array : 1..MaxRows, maxaccess : 1..MaxAccess,
                    pre_zero : BOOLEAN, rows_in_mem : Nat,
                    rowsperchunk : Nat, cur_start_row : Nat,
                    first_undef_row : Nat, dirty : BOOLEAN,
                    b_s_open : BOOLEAN]
      /\ virt'.rows_in_mem = virt.rows_in_mem /\ virt'.cur_start_row = 0
      /\ virt'.first_undef_row = 0
      /\ virt'.rows_in_array = virt.rows_in_array
      /\ virt.rows_in_array \in 1..MaxRows
      /\ virt.rows_in_mem <= virt.rows_in_array
  BY <1>0 DEF free_pool, ArrayTyped
<1>b. /\ temp_file' \in [0..virt.rows_in_array - 1 -> RowValues]
      /\ mem_buffer' \in [DOMAIN mem_buffer' -> RowValues]
  BY <1>0 DEF free_pool, ArrayTyped, RowValues
<1>c. /\ strip_at' \in [start : Nat, num : Nat, at : Nat, writable : BOOLEAN]
      /\ strip_at' = NoStrip /\ virtPlace' = "freed"
  BY DEF free_pool, NoStrip
<1>1. ArrayTyped'
  BY <1>0, <1>a, <1>b, <1>c, SMTT(30) DEF ArrayTyped
<1>2. WindowSound' /\ FileUpToDate'
  BY DEF free_pool, WindowSound, FileUpToDate
<1> QED
  BY <1>1, <1>2 DEF VirtInv

LEMMA RealizedSound ==
  ASSUME VirtInv, realize_virt_arrays PROVE VirtInv'
<1>1. CASE free_pool
  BY <1>1, FreedSound
<1>2. CASE ~free_pool
  <2>1. PICK avail \in 0..virt.rows_in_array :
          \E chunk \in IF RowsInMem(avail) # virt.rows_in_array
                       THEN 1..RowsInMem(avail) ELSE {RowsInMem(avail)} :
            /\ virt' = [virt EXCEPT
                          !.rows_in_mem = RowsInMem(avail),
                          !.rowsperchunk = chunk,
                          !.b_s_open = RowsInMem(avail) # virt.rows_in_array]
            /\ mem_buffer' = [i \in 0..RowsInMem(avail) - 1 |-> Garbage]
            /\ virtPlace' = "realized"
            /\ UNCHANGED <<temp_file, strip_at>>
    BY <1>2 DEF realize_virt_arrays
  <2> DEFINE rows == RowsInMem(avail)
             spills == rows # virt.rows_in_array
  <2>2. virt.rows_in_array \in Nat \ {0} /\ virt.maxaccess \in Nat \ {0}
    BY VirtAssumption, SMTT(30) DEF VirtInv, ArrayTyped
  <2>3. rows \in 1..virt.rows_in_array /\ (spills => virt.maxaccess <= rows)
    BY <2>2, RowsFit
  <2> HIDE DEF rows
  <2>4. PICK chunk \in 1..rows :
          /\ virt' = [virt EXCEPT !.rows_in_mem = rows,
                                  !.rowsperchunk = chunk,
                                  !.b_s_open = spills]
          /\ mem_buffer' = [i \in 0..rows - 1 |-> Garbage]
          /\ virtPlace' = "realized"
          /\ temp_file' = temp_file /\ strip_at' = strip_at
    BY <2>1, <2>3 DEF rows
  <2>5. virtPlace = "requested"
    BY DEF realize_virt_arrays
  <2>6. /\ strip_at = NoStrip /\ virt.cur_start_row = 0
        /\ virt.first_undef_row = 0
    BY <2>5 DEF VirtInv, ArrayTyped
  <2>a. rows \in Nat /\ chunk \in Nat /\ chunk >= 1 /\ ArrayTyped
    BY <2>3, <2>4 DEF VirtInv
  <2>b. /\ virt' \in [rows_in_array : 1..MaxRows, maxaccess : 1..MaxAccess,
                      pre_zero : BOOLEAN, rows_in_mem : Nat,
                      rowsperchunk : Nat, cur_start_row : Nat,
                      first_undef_row : Nat, dirty : BOOLEAN,
                      b_s_open : BOOLEAN]
        /\ virt'.rows_in_array = virt.rows_in_array
        /\ virt'.maxaccess = virt.maxaccess
        /\ virt'.rows_in_mem = rows /\ virt'.rowsperchunk = chunk
        /\ virt'.cur_start_row = 0 /\ virt'.first_undef_row = 0
        /\ virt'.b_s_open = spills
    BY <2>a, <2>4, <2>6 DEF ArrayTyped
  <2>c. /\ temp_file' \in [0..virt.rows_in_array - 1 -> RowValues]
        /\ mem_buffer' \in [DOMAIN mem_buffer' -> RowValues]
        /\ DOMAIN mem_buffer' = 0..rows - 1
    BY <2>a, <2>4 DEF ArrayTyped, RowValues
  <2>d. /\ strip_at' \in [start : Nat, num : Nat, at : Nat,
                          writable : BOOLEAN]
        /\ strip_at'.num = 0 /\ ~strip_at'.writable
    BY <2>a, <2>4, <2>6 DEF ArrayTyped, NoStrip
  <2>7. ArrayTyped'
    BY <2>2, <2>3, <2>4, <2>b, <2>c, <2>d, SMTT(30) DEF ArrayTyped
  <2>8. WindowSound'
    <3>1. (~spills) => rows = virt.rows_in_array
      OBVIOUS
    <3> HIDE DEF spills
    <3> QED
      BY <3>1, <2>2, <2>3, <2>4, <2>a, <2>b, <2>c, <2>d, SMTT(30)
      DEF WindowSound
  <2>9. FileUpToDate'
    BY <2>4, <2>6 DEF VirtInv, ArrayTyped, FileUpToDate, Defined
  <2> QED
    BY <2>7, <2>8, <2>9 DEF VirtInv
<1> QED
  BY <1>1, <1>2

LEMMA BorrowedSound ==
  ASSUME VirtInv, NEW s \in 0..MaxRows - 1, NEW n \in 1..MaxAccess,
         NEW w \in BOOLEAN, Borrowed(s, n, w)
  PROVE  VirtInv'
<1>1. /\ virt.rows_in_mem \in Nat \ {0} /\ virt.rows_in_array \in Nat
      /\ virt.first_undef_row \in Nat /\ s \in Nat /\ n \in Nat \ {0}
      /\ virt.rows_in_mem <= virt.rows_in_array /\ virt.rowsperchunk >= 1
      /\ virt.first_undef_row <= virt.rows_in_array
      /\ IF virt.b_s_open THEN virt.maxaccess <= virt.rows_in_mem
         ELSE virt.rows_in_mem = virt.rows_in_array
  <2>1. MaxRows \in Nat /\ MaxAccess \in Nat
    BY VirtAssumption
  <2>2. virtPlace = "realized" /\ ArrayTyped /\ WindowSound
    BY DEF Borrowed, VirtInv
  <2>3. /\ virt.rows_in_mem \in Nat /\ virt.rows_in_array \in Nat
        /\ virt.first_undef_row \in Nat
        /\ virt.rows_in_mem <= virt.rows_in_array
        /\ virt.first_undef_row <= virt.rows_in_array
    BY <2>1, <2>2 DEF ArrayTyped
  <2>4. /\ virt.rows_in_mem >= 1 /\ virt.rowsperchunk >= 1
        /\ IF virt.b_s_open THEN virt.maxaccess <= virt.rows_in_mem
           ELSE virt.rows_in_mem = virt.rows_in_array
    BY <2>2 DEF WindowSound
  <2> QED
    BY <2>1, <2>3, <2>4
<1>2. virt'.cur_start_row \in Nat
  BY DEF Borrowed
<1>3. ArrayTyped'
  <2>1. virt'.cur_start_row < virt'.rows_in_array
    BY <1>1, <1>2 DEF Borrowed
  <2>2. virt'.first_undef_row <= virt'.rows_in_array
    BY <1>1 DEF Borrowed
  <2>3. /\ strip_at' \in [start : Nat, num : Nat, at : Nat,
                          writable : BOOLEAN]
    BY <1>1, <1>2 DEF Borrowed
  <2>4. /\ temp_file' \in [0..virt'.rows_in_array - 1 -> RowValues]
        /\ mem_buffer' \in [DOMAIN mem_buffer' -> RowValues]
    BY DEF Borrowed
  <2> QED
    BY <2>1, <2>2, <2>3, <2>4, <1>1 DEF Borrowed, ArrayTyped
<1>4. WindowSound'
  <2>1. strip_at' = [start |-> s, num |-> n, at |-> s - virt'.cur_start_row,
                     writable |-> w]
    BY DEF Borrowed
  <2>2. w => s + n <= virt'.first_undef_row
    BY <1>1 DEF Borrowed
  <2> QED
    BY <2>1, <2>2, <1>1, SMTT(30) DEF Borrowed, WindowSound
<1>5. FileUpToDate'
  <2> SUFFICES ASSUME virt'.b_s_open, ~virt'.dirty, NEW r \in Defined',
                      InWindow(r)'
               PROVE  temp_file'[r] = mem_buffer'[r - virt'.cur_start_row]
    BY DEF FileUpToDate
  <2>1. ~w /\ virt'.first_undef_row = virt.first_undef_row
    BY DEF Borrowed
  <2>2. r \in Defined
    BY <2>1 DEF Defined
  <2> QED
    BY <2>2 DEF Borrowed
<1> QED
  BY <1>3, <1>4, <1>5 DEF VirtInv

(* A user writes into the window, and only where the buffer is dirty. *)
LEMMA UserWritesSound ==
  ASSUME VirtInv, NEW r \in Lent, NEW k \in 1..MaxWrites,
         UserWrites(r, <<r, k>>)
  PROVE  VirtInv'
<1>1. /\ virtPlace = "realized" /\ strip_at.writable /\ virt.dirty
      /\ virt' = virt /\ temp_file' = temp_file /\ strip_at' = strip_at
      /\ virtPlace' = virtPlace
      /\ mem_buffer' = [mem_buffer EXCEPT
           ![strip_at.at + (r - strip_at.start)] = <<r, k>>]
  BY DEF UserWrites, VirtInv, WindowSound
<1>2. <<r, k>> \in RowValues
  <2>a. /\ strip_at.start \in Nat /\ strip_at.num \in Nat
        /\ virt.first_undef_row \in Nat /\ virt.rows_in_array \in 1..MaxRows
        /\ virt.first_undef_row <= virt.rows_in_array
    BY DEF VirtInv, ArrayTyped
  <2>b. strip_at.start + strip_at.num <= virt.first_undef_row
    BY <1>1 DEF VirtInv, WindowSound
  <2>1. r \in 0..MaxRows - 1
    BY <2>a, <2>b, VirtAssumption DEF Lent
  <2> QED
    BY <2>1 DEF RowValues, UserValues
<1>3. mem_buffer' \in [DOMAIN mem_buffer -> RowValues]
      /\ DOMAIN mem_buffer' = DOMAIN mem_buffer
  BY <1>1, <1>2 DEF VirtInv, ArrayTyped
<1>4. ArrayTyped'
  BY <1>1, <1>3 DEF VirtInv, ArrayTyped
<1>5. WindowSound'
  BY <1>1, <1>3 DEF VirtInv, WindowSound
<1>6. FileUpToDate'
  BY <1>1 DEF FileUpToDate
<1> QED
  BY <1>4, <1>5, <1>6 DEF VirtInv

LEMMA VirtStepSound ==
  VirtInv /\ [VirtNext]_virtVars => VirtInv'
<1> SUFFICES ASSUME VirtInv, [VirtNext]_virtVars PROVE VirtInv'
  OBVIOUS
<1>1. CASE realize_virt_arrays
  BY <1>1, RealizedSound
<1>2. ASSUME NEW access \in Accesses,
             access_virt_sarray(access[1], access[2], access[3])
      PROVE  VirtInv'
  <2>1. /\ access[1] \in 0..MaxRows - 1 /\ access[2] \in 1..MaxAccess
        /\ access[3] \in BOOLEAN
    BY DEF Accesses
  <2>2. Borrowed(access[1], access[2], access[3])
    BY <2>1, <1>2, AccessBorrows
  <2> QED
    BY <2>1, <2>2, BorrowedSound
<1>3. CASE free_pool
  BY <1>3, FreedSound
<1>4. ASSUME NEW r \in Lent, NEW k \in 1..MaxWrites, UserWrites(r, <<r, k>>)
      PROVE  VirtInv'
  BY <1>4, UserWritesSound
<1>5. CASE UNCHANGED virtVars
  <2>1. /\ virt' = virt /\ mem_buffer' = mem_buffer /\ strip_at' = strip_at
        /\ temp_file' = temp_file /\ virtPlace' = virtPlace
    BY <1>5 DEF virtVars
  <2> QED
    BY <2>1 DEF VirtInv, ArrayTyped, WindowSound, FileUpToDate, Defined,
                InWindow
<1> QED
  BY <1>1, <1>2, <1>3, <1>4, <1>5 DEF VirtNext, AccessFails

-----------------------------------------------------------------------------
(* The theorems *)

(* Between two calls of the users of an array the window, the buffer, the  *)
(* file and the strip on loan are what the invariant says: any number of   *)
(* rows may fit into memory, in chunks of any size.                        *)
THEOREM ArrayInvariant ==
  VirtSpec => []VirtInv
BY VirtStarts, VirtStepSound, PTL DEF VirtSpec

(* The window stays on the array, the strip on loan inside the window, and *)
(* every row has a value that was written into it, zero, or none. *)
THEOREM ArrayTypeCorrect ==
  VirtSpec => []VirtTypeOK
<1>1. VirtInv => VirtTypeOK
  <2> SUFFICES ASSUME VirtInv PROVE VirtTypeOK
    OBVIOUS
  <2>1. /\ virtPlace \in {"requested", "realized", "freed"}
        /\ virt.rows_in_mem \in Nat /\ virt.cur_start_row \in Nat
        /\ virt.first_undef_row \in Nat /\ virt.rows_in_array \in Nat
        /\ virt.rows_in_mem <= virt.rows_in_array
        /\ virt.cur_start_row < virt.rows_in_array
        /\ virt.first_undef_row <= virt.rows_in_array
        /\ temp_file \in [0..virt.rows_in_array - 1 -> RowValues]
        /\ mem_buffer \in [DOMAIN mem_buffer -> RowValues]
        /\ strip_at.start \in Nat /\ strip_at.num \in Nat
    BY VirtAssumption DEF VirtInv, ArrayTyped
  <2>2. ASSUME virtPlace = "realized", NEW r \in Lent PROVE InWindow(r)
    <3>1. strip_at.num > 0 /\ r \in Int /\ r >= strip_at.start
          /\ r < strip_at.start + strip_at.num
      BY <2>1, <2>2 DEF Lent
    <3>2. /\ virt.cur_start_row <= strip_at.start
          /\ strip_at.start + strip_at.num
               <= virt.cur_start_row + virt.rows_in_mem
      BY <3>1, <2>2 DEF VirtInv, WindowSound
    <3> QED
      BY <3>1, <3>2, <2>1 DEF InWindow
  <2>3. \A i \in DOMAIN mem_buffer :
          mem_buffer[i] \in UserValues \cup {Blank, Garbage}
    BY <2>1 DEF RowValues
  <2> QED
    BY <2>1, <2>2, <2>3 DEF VirtTypeOK
<1> QED
  BY <1>1, ArrayInvariant, PTL

(* As long as the buffer is not dirty it may be dropped without writing    *)
(* it: the file has every defined row of it. *)
THEOREM BufferMayBeDropped ==
  VirtSpec => []FileUpToDate
<1>1. VirtInv => FileUpToDate
  BY DEF VirtInv
<1> QED
  BY <1>1, ArrayInvariant, PTL

-----------------------------------------------------------------------------
(* The refinement *)

LEMMA StartsPlain ==
  VirtInit => Plain!PlainInit
<1> SUFFICES ASSUME VirtInit PROVE Plain!PlainInit
  OBVIOUS
<1>1. /\ virt.pre_zero \in BOOLEAN /\ virt.first_undef_row = 0
      /\ strip_at = NoStrip /\ virtPlace = "requested"
  BY DEF VirtInit
<1>2. Defined = {} /\ Lent = {}
  BY <1>1 DEF Defined, Lent, NoStrip
<1>3. \A r : Row(r) = Blank
  BY <1>2 DEF Row
<1> QED
  BY <1>1, <1>2, <1>3 DEF Plain!PlainInit, NoStrip

LEMMA FreeEnds ==
  ASSUME VirtInv, virtPlace # "freed", free_pool
  PROVE  Plain!End
BY DEF Plain!End, free_pool

LEMMA RealizeRefines ==
  ASSUME VirtInv, realize_virt_arrays
  PROVE  [Plain!PlainNext]_(Plain!plainVars)
<1>1. virtPlace = "requested"
  BY DEF realize_virt_arrays
<1>2. CASE free_pool
  BY <1>1, <1>2, FreeEnds DEF Plain!PlainNext
<1>3. CASE ~free_pool
  <2>1. /\ virt'.rows_in_array = virt.rows_in_array
        /\ virt'.first_undef_row = virt.first_undef_row
        /\ virt'.pre_zero = virt.pre_zero
        /\ virtPlace' = "realized" /\ strip_at' = strip_at
    BY <1>3 DEF realize_virt_arrays, VirtInv, ArrayTyped
  <2>2. virt.first_undef_row = 0 /\ strip_at = NoStrip
    BY <1>1 DEF VirtInv, ArrayTyped
  <2>3. Defined = {} /\ Defined' = {} /\ Lent = {} /\ Lent' = {}
    BY <2>1, <2>2 DEF Defined, Lent, NoStrip
  <2>4. \A r : Row(r) = Blank /\ Row(r)' = Blank
    BY <2>3 DEF Row
  <2>5. UNCHANGED Plain!plainVars
    BY <1>1, <2>1, <2>3, <2>4 DEF Plain!plainVars
  <2> QED
    BY <2>5
<1> QED
  BY <1>2, <1>3

(* What a user borrows is what the plain array lends. *)
LEMMA BorrowedLent ==
  ASSUME VirtInv, NEW s \in 0..MaxRows - 1, NEW n \in 1..MaxAccess,
         NEW w \in BOOLEAN, Borrowed(s, n, w)
  PROVE  Plain!Lend(s, s + n - 1, w)
<1> DEFINE e == s + n
           undef == virt.first_undef_row
           c == virt'.cur_start_row
           m == virt.rows_in_mem
           A == virt.rows_in_array
<1>1. /\ m \in Nat /\ A \in Nat /\ undef \in Nat /\ s \in Nat
      /\ n \in Nat \ {0} /\ undef <= A /\ c \in Nat /\ e \in Nat
  <2>1. MaxRows \in Nat /\ MaxAccess \in Nat
    BY VirtAssumption
  <2>2. ArrayTyped /\ c \in Nat
    BY DEF VirtInv, Borrowed
  <2>3. s \in Nat /\ n \in Nat \ {0}
    BY <2>1
  <2>4. m \in Nat /\ A \in Nat /\ undef \in Nat /\ undef <= A
    BY <2>1, <2>2 DEF ArrayTyped
  <2> QED
    BY <2>2, <2>3, <2>4
<1>2. /\ virtPlace = "realized" /\ virtPlace' = "realized"
      /\ virt'.pre_zero = virt.pre_zero /\ virt'.rows_in_array = A
      /\ virt'.rows_in_mem = m
      /\ virt'.first_undef_row = (IF w /\ e > undef THEN e ELSE undef)
      /\ IF w THEN s <= undef ELSE e <= undef \/ virt.pre_zero
      /\ c <= s /\ e <= c + m /\ e <= A
  BY DEF Borrowed
<1>3. strip_at' = [start |-> s, num |-> n, at |-> s - c, writable |-> w]
  BY DEF Borrowed
<1>4. Lent' = s..e - 1
  BY <1>3 DEF Lent
<1>5. Defined = 0..undef - 1
      /\ Defined' = 0..(IF w /\ e > undef THEN e ELSE undef) - 1
      /\ \A r : InWindow(r)' <=> r \in c..c + m - 1
  BY <1>2 DEF Defined, InWindow
<1>6. /\ \A r \in Defined :
           IF InWindow(r)' THEN mem_buffer'[r - c] = Row(r)
           ELSE temp_file'[r] = Row(r)
      /\ virt.pre_zero => \A r \in s..e - 1 :
                            r \notin Defined => mem_buffer'[r - c] = Blank
  BY DEF Borrowed
<1>7. virt.pre_zero \in BOOLEAN
  BY DEF VirtInv, ArrayTyped
<1> HIDE DEF e, undef, c, m, A
<1>8. ASSUME NEW r \in s..e - 1 PROVE InWindow(r)' /\ r \in Int
  BY <1>1, <1>2, <1>5
<1>9. ASSUME NEW r \in Defined PROVE Row(r)' = Row(r) /\ r \in Defined'
  <2>1. r \in Defined'
    BY <1>1, <1>5
  <2>2. CASE InWindow(r)'
    <3>1. Row(r)' = mem_buffer'[r - c]
      BY <2>1, <2>2 DEF Row, c
    <3> QED
      BY <3>1, <2>1, <2>2, <1>6
  <2>3. CASE ~InWindow(r)'
    <3>1. Row(r)' = temp_file'[r]
      BY <2>1, <2>3 DEF Row
    <3> QED
      BY <3>1, <2>1, <2>3, <1>6
  <2> QED
    BY <2>2, <2>3
<1>10. ASSUME NEW r \in s..e - 1 PROVE mem_buffer'[r - c] = Row(r)'
  <2>1. CASE r \in Defined'
    BY <2>1, <1>8 DEF Row, c
  <2>2. CASE r \notin Defined'
    <3>1. ~w /\ r \notin Defined
      BY <2>2, <1>1, <1>5, <1>8, <1>9
    <3>2. virt.pre_zero
      BY <3>1, <1>1, <1>2, <1>5, <1>8
    <3>3. mem_buffer'[r - c] = Blank
      BY <3>1, <3>2, <1>6
    <3>4. Row(r)' = Blank
      BY <2>2 DEF Row
    <3> QED
      BY <3>3, <3>4
  <2> QED
    BY <2>1, <2>2
<1>11. ASSUME NEW r \in 0..A - 1, Row(r)' # Row(r)
       PROVE  ~virt.pre_zero /\ r \in undef..virt'.first_undef_row - 1
  <2>1. r \notin Defined /\ Row(r) = Blank
    BY <1>9, <1>11 DEF Row
  <2>2. r \in Defined'
    BY <2>1, <1>11 DEF Row
  <2>3. w /\ r \in s..e - 1 /\ r \in undef..e - 1 /\ e > undef
    BY <2>1, <2>2, <1>1, <1>2, <1>5, <1>11
  <2>4. ~virt.pre_zero
    BY <2>1, <2>3, <1>6, <1>10, <1>11
  <2> QED
    BY <2>3, <2>4, <1>2
<1>12. ASSUME NEW r \in s..e - 1
       PROVE  /\ r \in 0..A - 1
              /\ strip_at'.at + (r - strip_at'.start) = r - c
  BY <1>1, <1>2, <1>3
<1>13. virt'.rows_in_array = virt.rows_in_array
  BY <1>2 DEF A
<1>14. [r \in Lent |-> mem_buffer[strip_at.at + (r - strip_at.start)]]'
         = [r \in s..e - 1 |-> mem_buffer'[r - c]]
  BY <1>4, <1>12
<1>15. [r \in 0..virt.rows_in_array - 1 |-> Row(r)]'
         = [r \in 0..A - 1 |-> Row(r)']
  BY <1>13 DEF A
<1>16. [r \in 0..virt.rows_in_array - 1 |-> Row(r)]
         = [r \in 0..A - 1 |-> Row(r)]
  BY DEF A
<1>17. s + n - 1 = e - 1
  BY DEF e
<1>18. e - 1 < undef <=> e <= undef
  BY <1>1
<1>19. virt'.first_undef_row
         = IF w /\ e - 1 >= undef THEN e - 1 + 1 ELSE undef
  BY <1>1, <1>2
<1>20. strip_at'.writable = w
  BY <1>3
<1> QED
  BY <1>2, <1>7, <1>10, <1>11, <1>12, <1>13, <1>14, <1>15, <1>16, <1>17,
     <1>18, <1>19, <1>20
  DEF Plain!Lend, undef

(* What a user writes into its strip is written into the plain array. *)
LEMMA UserWritesPlain ==
  ASSUME VirtInv, NEW r \in Lent, NEW k \in 1..MaxWrites,
         UserWrites(r, <<r, k>>)
  PROVE  Plain!Write(r, <<r, k>>)
<1> DEFINE c == virt.cur_start_row
           s == strip_at.start
           e == strip_at.start + strip_at.num
           A == virt.rows_in_array
           x == <<r, k>>
<1>1. /\ virtPlace = "realized" /\ strip_at.writable
      /\ virt' = virt /\ temp_file' = temp_file /\ strip_at' = strip_at
      /\ virtPlace' = virtPlace
      /\ mem_buffer' = [mem_buffer EXCEPT ![strip_at.at + (r - s)] = x]
  BY DEF UserWrites
<1>2. /\ strip_at.start \in Nat /\ strip_at.num \in Nat
      /\ virt.cur_start_row \in Nat /\ virt.rows_in_mem \in Nat
      /\ virt.first_undef_row \in Nat /\ virt.rows_in_array \in Nat
      /\ virt.first_undef_row <= virt.rows_in_array
  <2>1. MaxRows \in Nat
    BY VirtAssumption
  <2> QED
    BY <2>1 DEF VirtInv, ArrayTyped
<1>3. strip_at.num > 0 /\ r \in s..e - 1 /\ r \in Int
  BY <1>2 DEF Lent
<1>4. /\ c <= s /\ e <= c + virt.rows_in_mem /\ e <= A
      /\ strip_at.at = s - c /\ e <= virt.first_undef_row
      /\ DOMAIN mem_buffer = 0..virt.rows_in_mem - 1
  BY <1>1, <1>3 DEF VirtInv, WindowSound
<1>5. ASSUME NEW q \in s..e - 1
      PROVE  /\ strip_at.at + (q - s) = q - c /\ q \in Int
             /\ q - c \in DOMAIN mem_buffer
             /\ q \in Defined /\ InWindow(q) /\ q \in 0..A - 1
  <2>1. q \in Int /\ q >= s /\ q < e /\ s \in Nat /\ e \in Nat
    BY <1>2
  <2>2. /\ c \in Nat /\ A \in Nat /\ virt.first_undef_row \in Nat
        /\ virt.rows_in_mem \in Nat
    BY <1>2
  <2>3. strip_at.at + (q - s) = q - c
    BY <2>1, <2>2, <1>4
  <2>4. q - c \in 0..virt.rows_in_mem - 1
    <3>1. c <= s /\ e <= c + virt.rows_in_mem
      BY <1>4
    <3>2. q >= c /\ q < c + virt.rows_in_mem
      <4> HIDE DEF c, s, e
      <4> QED
        BY <3>1, <2>1, <2>2
    <3> HIDE DEF c, s, e
    <3> QED
      BY <3>2, <2>1, <2>2
  <2>5. q \in Defined /\ InWindow(q)
    <3>1. q < virt.first_undef_row /\ q >= 0
      BY <2>1, <2>2, <1>4
    <3>2. q >= c /\ q < c + virt.rows_in_mem
      BY <2>1, <2>2, <1>4
    <3> QED
      BY <3>1, <3>2, <2>1, <2>2 DEF Defined, InWindow
  <2>6. q \in 0..A - 1
    BY <2>1, <2>2, <1>4
  <2> QED
    BY <2>1, <2>3, <2>4, <2>5, <2>6, <1>4
<1>6. mem_buffer' = [mem_buffer EXCEPT ![r - c] = x]
  BY <1>1, <1>3, <1>5
<1>7. Lent = s..e - 1 /\ Lent' = s..e - 1
  <2>1. Lent = s..e - 1
    BY <1>2 DEF Lent
  <2>2. Lent' = Lent
    BY <1>1 DEF Lent
  <2> QED
    BY <2>1, <2>2
<1>8. [q \in Lent |-> mem_buffer[strip_at.at + (q - strip_at.start)]]
         = [q \in s..e - 1 |-> mem_buffer[q - c]]
  BY <1>5, <1>7
<1>9. [q \in Lent |-> mem_buffer[strip_at.at + (q - strip_at.start)]]'
         = [q \in s..e - 1 |-> mem_buffer'[q - c]]
  BY <1>1, <1>5, <1>7
<1>10. ASSUME NEW q \in s..e - 1
       PROVE  mem_buffer'[q - c] = IF q = r THEN x ELSE mem_buffer[q - c]
  <2>1. q - c = r - c <=> q = r
    BY <1>2, <1>3, <1>5
  <2> QED
    BY <2>1, <1>5, <1>6
<1>11. [q \in s..e - 1 |-> mem_buffer'[q - c]]
         = [[q \in s..e - 1 |-> mem_buffer[q - c]] EXCEPT ![r] = x]
  BY <1>10
<1>12. Defined' = Defined /\ \A q : InWindow(q)' <=> InWindow(q)
  BY <1>1 DEF Defined, InWindow
<1>13. ASSUME NEW q \in 0..A - 1
       PROVE  Row(q)' = IF q = r THEN x ELSE Row(q)
  <2>1. CASE q = r
    <3>1. Row(q)' = mem_buffer'[r - c]
      BY <2>1, <1>1, <1>3, <1>5, <1>12 DEF Row
    <3> QED
      BY <3>1, <2>1, <1>3, <1>10
  <2>2. CASE q # r
    <3>1. CASE q \in Defined /\ InWindow(q)
      <4>1. q - c # r - c
        BY <2>2, <1>2, <1>3
      <4>2. mem_buffer'[q - c] = mem_buffer[q - c]
        BY <4>1, <3>1, <1>2, <1>4, <1>6 DEF InWindow
      <4> QED
        BY <4>2, <3>1, <2>2, <1>1, <1>12 DEF Row
    <3>2. CASE ~(q \in Defined /\ InWindow(q))
      BY <3>2, <2>2, <1>1, <1>12 DEF Row
    <3> QED
      BY <3>1, <3>2
  <2> QED
    BY <2>1, <2>2
<1>14. [q \in 0..virt.rows_in_array - 1 |-> Row(q)]'
         = [q \in 0..A - 1 |-> Row(q)']
  BY <1>1
<1>15. r \in 0..A - 1
  BY <1>3, <1>5
<1>16. [q \in 0..A - 1 |-> Row(q)']
         = [[q \in 0..A - 1 |-> Row(q)] EXCEPT ![r] = x]
  BY <1>13, <1>15
<1>17. [q \in 0..virt.rows_in_array - 1 |-> Row(q)]'
         = [[q \in 0..virt.rows_in_array - 1 |-> Row(q)] EXCEPT ![r] = x]
  BY <1>14, <1>16
<1>18. [q \in Lent |-> mem_buffer[strip_at.at + (q - strip_at.start)]]'
         = [[q \in Lent |-> mem_buffer[strip_at.at + (q - strip_at.start)]]
              EXCEPT ![r] = x]
  BY <1>8, <1>9, <1>11
<1> QED
  BY <1>1, <1>17, <1>18 DEF Plain!Write

LEMMA VirtStepPlain ==
  VirtInv /\ [VirtNext]_virtVars => [Plain!PlainNext]_(Plain!plainVars)
<1> SUFFICES ASSUME VirtInv, [VirtNext]_virtVars
             PROVE  [Plain!PlainNext]_(Plain!plainVars)
  OBVIOUS
<1> DEFINE content == [r \in 0..virt.rows_in_array - 1 |-> Row(r)]
<1>1. CASE realize_virt_arrays
  BY <1>1, RealizeRefines
<1>2. ASSUME NEW access \in Accesses,
             access_virt_sarray(access[1], access[2], access[3])
      PROVE  Plain!PlainNext
  <2> DEFINE s == access[1]
             n == access[2]
             w == access[3]
  <2>1. s \in 0..MaxRows - 1 /\ n \in 1..MaxAccess /\ w \in BOOLEAN
    BY DEF Accesses
  <2>2. Borrowed(s, n, w)
    BY <2>1, <1>2, AccessBorrows
  <2> HIDE DEF s, n, w
  <2>3. Plain!Lend(s, s + n - 1, w)
    BY <2>1, <2>2, BorrowedLent
  <2>4. s \in DOMAIN content /\ s + n - 1 \in DOMAIN content
    <3>1. s + n <= virt.rows_in_array
      BY <2>2 DEF Borrowed
    <3>2. s \in Nat /\ n \in Nat \ {0} /\ virt.rows_in_array \in Nat
      BY <2>1, VirtAssumption, SMTT(30) DEF VirtInv, ArrayTyped
    <3> QED
      BY <3>1, <3>2
  <2> QED
    BY <2>1, <2>3, <2>4 DEF Plain!PlainNext
<1>3. CASE virtPlace = "realized" /\ free_pool
  BY <1>3, FreeEnds DEF Plain!PlainNext
<1>4. ASSUME NEW r \in Lent, NEW k \in 1..MaxWrites, UserWrites(r, <<r, k>>)
      PROVE  Plain!PlainNext
  <2>1. Plain!Write(r, <<r, k>>)
    BY <1>4, UserWritesPlain
  <2>2. <<r, k>> \in UserValues
    <3>1. strip_at.writable
      BY <1>4 DEF UserWrites
    <3>2. /\ strip_at.start \in Nat /\ strip_at.num \in Nat
          /\ virt.first_undef_row \in Nat
          /\ virt.rows_in_array \in 1..MaxRows
          /\ virt.first_undef_row <= virt.rows_in_array
      BY DEF VirtInv, ArrayTyped
    <3>3. strip_at.start + strip_at.num <= virt.first_undef_row
      BY <1>4, <3>1 DEF UserWrites, VirtInv, WindowSound
    <3>4. r \in 0..MaxRows - 1
      BY <3>2, <3>3, VirtAssumption DEF Lent
    <3> QED
      BY <3>4 DEF UserValues
  <2> QED
    BY <2>1, <2>2 DEF Plain!PlainNext
<1>5. CASE UNCHANGED virtVars
  <2>1. /\ virt' = virt /\ mem_buffer' = mem_buffer /\ strip_at' = strip_at
        /\ temp_file' = temp_file /\ virtPlace' = virtPlace
    BY <1>5 DEF virtVars
  <2>2. UNCHANGED Plain!plainVars
    BY <2>1 DEF Plain!plainVars, Row, Defined, InWindow, Lent
  <2> QED
    BY <2>2
<1> QED
  BY <1>1, <1>2, <1>3, <1>4, <1>5 DEF VirtNext, AccessFails

(* To their users the window, the buffer and the file are a plain array in *)
(* which every row holds what was last written into it: whatever fits into *)
(* memory, in whatever chunks, and in whatever order the strips are        *)
(* borrowed. *)
THEOREM VirtualIsPlain ==
  VirtSpec => ImplementsPlainArray
<1>1. VirtInit => Plain!PlainInit
  BY StartsPlain
<1>2. VirtInv /\ [VirtNext]_virtVars => [Plain!PlainNext]_(Plain!plainVars)
  BY VirtStepPlain
<1> QED
  BY <1>1, <1>2, ArrayInvariant, PTL
  DEF VirtSpec, ImplementsPlainArray, Plain!PlainSpec

-----------------------------------------------------------------------------
(* The joined sequence of a sequence of sequences, from its prefixes *)

LEMMA SeqAsFunction ==
  ASSUME NEW T, NEW a \in Seq(T)
  PROVE  a = [k \in 1..Len(a) |-> a[k]] /\ Len(a) \in Nat
OBVIOUS

LEMMA Concatenation ==
  ASSUME NEW T, NEW a \in Seq(T), NEW b \in Seq(T)
  PROVE  /\ a \o b \in Seq(T) /\ Len(a \o b) = Len(a) + Len(b)
         /\ \A k \in 1..Len(a) : (a \o b)[k] = a[k]
         /\ \A k \in Len(a) + 1..Len(a) + Len(b) :
              (a \o b)[k] = b[k - Len(a)]
<1>1. a \o b \in Seq(T)
  OBVIOUS
<1>2. Len(a) \in Nat /\ Len(b) \in Nat /\ Len(a \o b) = Len(a) + Len(b)
  OBVIOUS
<1>3. \A k \in 1..Len(a) + Len(b) :
        (a \o b)[k] = IF k <= Len(a) THEN a[k] ELSE b[k - Len(a)]
  OBVIOUS
<1> QED
  BY <1>1, <1>2, <1>3

(* t has the joined prefixes of the n sequences of s over T. *)
JoinsUp(T, n, s, t) ==
  /\ n \in Nat \ {0} /\ s \in [1..n -> Seq(T)] /\ t \in [1..n -> Seq(T)]
  /\ t[1] = s[1] /\ \A i \in 2..n : t[i] = t[i - 1] \o s[i]

(* r is the first m of the n sequences of s. *)
FirstOf(T, m, r, n, s) ==
  m \in 1..n /\ r \in [1..m -> Seq(T)] /\ \A k \in 1..m : r[k] = s[k]

(* The n sequences of s all have the length size. *)
AllAsLong(n, s, size) == size \in Nat /\ \A i \in 1..n : Len(s[i]) = size

(* After the first m, the n sequences of s repeat the last row of these. *)
RepeatsLast(m, n, s, size) ==
  \A i \in m + 1..n : \A j \in 1..size : s[i][j] = s[m][size]

(* made with its last row again, up to a length. *)
PaddedTo(length, made) == [k \in 1..length |-> made[Min({k, Len(made)})]]

LEMMA JoinedByPrefixes ==
  ASSUME NEW T, NEW n \in Nat, NEW s, NEW t, JoinsUp(T, n, s, t)
  PROVE  FlattenSeq(s) = t[n]
<1> DEFINE Def(f) == [i \in 1..n |-> IF i = 1 THEN s[i] ELSE f[i - 1] \o s[i]]
           g == CHOOSE f : f = Def(f)
           Bad == {i \in 1..n : g[i] # t[i]}
<1>a. n \in Nat \ {0} /\ s \in [1..n -> Seq(T)] /\ t \in [1..n -> Seq(T)]
  BY DEF JoinsUp
<1>1. Len(s) = n /\ n # 0
  BY <1>a
<1>2. FlattenSeq(s) = g[n]
  BY <1>1 DEF FlattenSeq
<1>3. g = Def(g)
  <2>1. t = Def(t)
    <3>1. ASSUME NEW i \in 1..n
          PROVE  t[i] = IF i = 1 THEN s[i] ELSE t[i - 1] \o s[i]
      <4>1. i = 1 \/ i \in 2..n
        BY <1>a
      <4> QED
        BY <4>1 DEF JoinsUp
    <3>2. t = [i \in 1..n |-> t[i]]
      BY <1>a
    <3>3. [i \in 1..n |-> t[i]] = Def(t)
      BY <3>1
    <3> QED
      BY <3>2, <3>3
  <2> QED
    BY <2>1
<1> HIDE DEF g
<1>4. \A i \in 1..n : g[i] = IF i = 1 THEN s[i] ELSE g[i - 1] \o s[i]
  BY <1>3
<1>5. Bad = {}
  <2> SUFFICES ASSUME Bad # {} PROVE FALSE
    OBVIOUS
  <2>1. Bad \subseteq Nat
    BY <1>a
  <2>2. \E i \in Bad : \A j \in Bad : i <= j
    <3> HIDE DEF Bad
    <3> QED
      BY <2>1, LeastNumber
  <2>3. PICK i \in Bad : \A j \in Bad : i <= j
    BY <2>2
  <2>4. i \in 1..n /\ g[i] # t[i] /\ i # 1
    <3>1. i \in 1..n /\ g[i] # t[i]
      BY <2>3
    <3>2. i = 1 => g[i] = s[1] /\ t[1] = s[1]
      BY <3>1, <1>4 DEF JoinsUp
    <3> QED
      BY <3>1, <3>2
  <2>5. i - 1 \in 1..n /\ ~(i <= i - 1) /\ i \in 2..n
    BY <2>4, <1>a
  <2>6. g[i - 1] = t[i - 1]
    BY <2>3, <2>5
  <2>7. t[i] = t[i - 1] \o s[i]
    BY <2>5 DEF JoinsUp
  <2> QED
    BY <2>4, <2>5, <2>6, <2>7, <1>4
<1>6. n \in 1..n
  BY <1>a
<1> QED
  BY <1>2, <1>5, <1>6

LEMMA PrefixesExist ==
  ASSUME NEW T, NEW n \in Nat \ {0}, NEW s \in [1..n -> Seq(T)]
  PROVE  \E t : JoinsUp(T, n, s, t)
<1> DEFINE Good(m) == \E t \in [1..m -> Seq(T)] :
                        /\ t[1] = s[1]
                        /\ \A i \in 2..m : t[i] = t[i - 1] \o s[i]
           Bad == {m \in 1..n : ~Good(m)}
<1>1. Bad = {}
  <2> SUFFICES ASSUME Bad # {} PROVE FALSE
    OBVIOUS
  <2>1. Bad \subseteq Nat
    <3> HIDE DEF Good
    <3> QED
      OBVIOUS
  <2>2. \E m \in Bad : \A j \in Bad : m <= j
    <3> HIDE DEF Bad
    <3> QED
      BY <2>1, LeastNumber
  <2>3. PICK m \in Bad : \A j \in Bad : m <= j
    BY <2>2
  <2>4. m \in 1..n /\ ~Good(m)
    BY <2>3
  <2>5. CASE m = 1
    <3> DEFINE t == [i \in 1..1 |-> s[1]]
    <3>1. s[1] \in Seq(T)
      OBVIOUS
    <3>2. t \in [1..1 -> Seq(T)] /\ t[1] = s[1]
      BY <3>1
    <3>3. \A i \in 2..1 : t[i] = t[i - 1] \o s[i]
      OBVIOUS
    <3> HIDE DEF t
    <3>4. Good(1)
      BY <3>2, <3>3
    <3> QED
      BY <3>4, <2>4, <2>5
  <2>6. CASE m # 1
    <3>1. m - 1 \in 1..n /\ m - 1 \notin Bad
      <4>1. m - 1 \in 1..n /\ ~(m <= m - 1)
        BY <2>4, <2>6
      <4> HIDE DEF Bad
      <4> QED
        BY <2>3, <4>1
    <3>2. PICK u \in [1..m - 1 -> Seq(T)] :
            /\ u[1] = s[1]
            /\ \A i \in 2..m - 1 : u[i] = u[i - 1] \o s[i]
      BY <3>1
    <3> DEFINE t == [i \in 1..m |-> IF i = m THEN u[m - 1] \o s[m] ELSE u[i]]
    <3>3. u[m - 1] \o s[m] \in Seq(T)
      <4>1. u[m - 1] \in Seq(T) /\ s[m] \in Seq(T)
        BY <3>1, <2>4
      <4> QED
        BY <4>1
    <3>4. \A i \in 1..m : i # m => i \in 1..m - 1
      BY <2>4
    <3>5. t \in [1..m -> Seq(T)]
      <4>1. ASSUME NEW i \in 1..m PROVE t[i] \in Seq(T)
        BY <3>3, <3>4
      <4> QED
        BY <4>1
    <3>6. t[1] = s[1]
      BY <2>4, <2>6, <3>2
    <3>7. ASSUME NEW i \in 2..m PROVE t[i] = t[i - 1] \o s[i]
      <4>1. i - 1 \in 1..m /\ i - 1 # m /\ i \in 1..m
        BY <2>4
      <4>2. t[i - 1] = u[i - 1]
        BY <4>1
      <4>3. i # m => i \in 2..m - 1
        BY <2>4
      <4> QED
        BY <4>1, <4>2, <4>3, <3>2
    <3> HIDE DEF t
    <3>8. Good(m)
      BY <3>5, <3>6, <3>7
    <3> QED
      BY <3>8, <2>4
  <2> QED
    BY <2>5, <2>6
<1>2. n \in 1..n
  OBVIOUS
<1>3. Good(n)
  BY <1>1, <1>2
<1> QED
  BY <1>3 DEF JoinsUp

LEMMA JoinedEmpty == FlattenSeq(<<>>) = <<>>
BY DEF FlattenSeq

LEMMA PrefixSucc ==
  ASSUME NEW T, NEW n \in Nat, NEW s, NEW t, JoinsUp(T, n, s, t),
         NEW i, i \in 2..n
  PROVE  /\ t[i] = t[i - 1] \o s[i]
         /\ t[i] \in Seq(T) /\ t[i - 1] \in Seq(T) /\ s[i] \in Seq(T)
<1>1. i \in 1..n /\ i - 1 \in 1..n
  BY DEF JoinsUp
<1> QED
  BY <1>1 DEF JoinsUp

(* The prefixes of the first m are among those of the first n. *)
LEMMA PrefixesOfFewer ==
  ASSUME NEW T, NEW n \in Nat, NEW s, NEW t, JoinsUp(T, n, s, t),
         NEW m \in Nat, NEW r, FirstOf(T, m, r, n, s)
  PROVE  FlattenSeq(r) = t[m]
<1> DEFINE u == [k \in 1..m |-> t[k]]
<1>a. n \in Nat \ {0} /\ s \in [1..n -> Seq(T)] /\ t \in [1..n -> Seq(T)]
  BY DEF JoinsUp
<1>b. m \in 1..n /\ r \in [1..m -> Seq(T)] /\ \A k \in 1..m : r[k] = s[k]
  BY DEF FirstOf
<1>1. m \in Nat \ {0} /\ \A k \in 1..m : k \in 1..n
  BY <1>a, <1>b
<1>2. r \in [1..m -> Seq(T)] /\ u \in [1..m -> Seq(T)]
  BY <1>1, <1>a, <1>b
<1>3. JoinsUp(T, m, r, u)
  <2>1. u[1] = t[1] /\ r[1] = s[1] /\ t[1] = s[1]
    BY <1>1, <1>b DEF JoinsUp
  <2>2. ASSUME NEW i \in 2..m PROVE u[i] = u[i - 1] \o r[i]
    <3>1. i \in 1..m /\ i - 1 \in 1..m /\ i \in 2..n
      BY <1>1, <1>a, <1>b
    <3>2. t[i] = t[i - 1] \o s[i]
      BY <3>1 DEF JoinsUp
    <3>3. u[i] = t[i] /\ u[i - 1] = t[i - 1] /\ r[i] = s[i]
      BY <3>1, <1>b
    <3> QED
      BY <3>2, <3>3
  <2> HIDE DEF u
  <2> QED
    BY <1>1, <1>2, <2>1, <2>2 DEF JoinsUp
<1>4. u[m] = t[m]
  BY <1>1
<1> HIDE DEF u
<1>5. FlattenSeq(r) = u[m]
  BY <1>1, <1>2, <1>3, JoinedByPrefixes
<1> QED
  BY <1>4, <1>5

(* One sequence more *)
LEMMA JoinedSucc ==
  ASSUME NEW T, NEW n \in Nat, NEW s \in [1..n + 1 -> Seq(T)],
         NEW r \in [1..n -> Seq(T)], \A k \in 1..n : r[k] = s[k]
  PROVE  FlattenSeq(s) = FlattenSeq(r) \o s[n + 1]
<1> DEFINE m == n + 1
<1>1. m \in Nat \ {0} /\ s \in [1..m -> Seq(T)] /\ m \in 1..m
  OBVIOUS
<1>2. PICK t : JoinsUp(T, m, s, t)
  <2> HIDE DEF m
  <2> QED
    BY <1>1, PrefixesExist
<1>3. FlattenSeq(s) = t[m]
  <2> HIDE DEF m
  <2> QED
    BY <1>1, <1>2, JoinedByPrefixes
<1>4. CASE n = 0
  <2>1. r = <<>> /\ s[1] \in Seq(T) /\ m = 1
    BY <1>4
  <2>2. <<>> \o s[1] = s[1]
    BY <2>1
  <2>3. FlattenSeq(r) \o s[m] = s[1]
    BY <2>1, <2>2, JoinedEmpty
  <2>4. t[m] = s[1]
    BY <1>2, <2>1 DEF JoinsUp
  <2> QED
    BY <1>3, <2>3, <2>4
<1>5. CASE n # 0
  <2>1. n \in 1..m /\ m \in 2..m /\ m - 1 = n
    BY <1>5
  <2> HIDE DEF m
  <2>2. FlattenSeq(r) = t[n]
    <3>1. FirstOf(T, n, r, m, s)
      BY <2>1 DEF FirstOf
    <3> QED
      BY <1>1, <1>2, <3>1, PrefixesOfFewer
  <2>3. t[m] = t[m - 1] \o s[m]
    BY <1>2, <2>1 DEF JoinsUp
  <2> QED
    BY <1>3, <2>1, <2>2, <2>3 DEF m
<1> QED
  BY <1>4, <1>5

(* Sequences of one length *)
LEMMA PrefixLengths ==
  ASSUME NEW T, NEW n \in Nat, NEW s, NEW t, JoinsUp(T, n, s, t),
         NEW size \in Nat, AllAsLong(n, s, size)
  PROVE  \A m \in 1..n : Len(t[m]) = m * size
<1> DEFINE Bad == {i \in 1..n : Len(t[i]) # i * size}
<1>a. n \in Nat \ {0} /\ s \in [1..n -> Seq(T)] /\ t \in [1..n -> Seq(T)]
  BY DEF JoinsUp
<1>b. size \in Nat /\ \A i \in 1..n : Len(s[i]) = size
  BY DEF AllAsLong
<1>1. Bad = {}
  <2> SUFFICES ASSUME Bad # {} PROVE FALSE
    OBVIOUS
  <2>1. Bad \subseteq Nat
    BY <1>a
  <2>2. \E i \in Bad : \A j \in Bad : i <= j
    <3> HIDE DEF Bad
    <3> QED
      BY <2>1, LeastNumber
  <2>3. PICK i \in Bad : \A j \in Bad : i <= j
    BY <2>2
  <2>4. i \in 1..n /\ Len(t[i]) # i * size
    BY <2>3
  <2>5. CASE i = 1
    <3>1. t[1] = s[1] /\ Len(s[1]) = size /\ 1 * size = size
      BY <2>4, <2>5, <1>b DEF JoinsUp
    <3> QED
      BY <3>1, <2>4, <2>5
  <2>6. CASE i # 1
    <3>1. i - 1 \in 1..n /\ i \in 2..n /\ ~(i <= i - 1)
      BY <2>4, <2>6, <1>a
    <3>2. Len(t[i - 1]) = (i - 1) * size
      BY <3>1, <2>3
    <3>3. Len(t[i]) = Len(t[i - 1]) + Len(s[i]) /\ Len(s[i]) = size
      <4>a. /\ t[i] = t[i - 1] \o s[i]
            /\ t[i] \in Seq(T) /\ t[i - 1] \in Seq(T) /\ s[i] \in Seq(T)
        BY <3>1, PrefixSucc
      <4> DEFINE a == t[i - 1]
                 b == s[i]
      <4>1. t[i] = a \o b /\ a \in Seq(T) /\ b \in Seq(T)
        BY <4>a
      <4> HIDE DEF a, b
      <4>2. Len(t[i]) = Len(a) + Len(b)
        BY <4>1, Concatenation
      <4>3. Len(t[i]) = Len(t[i - 1]) + Len(s[i])
        BY <4>2 DEF a, b
      <4> QED
        BY <4>3, <2>4, <1>b
    <3>4. (i - 1) * size + size = i * size
      BY <2>4, <1>a, <1>b
    <3> QED
      BY <2>4, <3>2, <3>3, <3>4, <1>b
  <2> QED
    BY <2>5, <2>6
<1> QED
  BY <1>1, <1>a

LEMMA JoinedTyped ==
  ASSUME NEW T, NEW n \in Nat, NEW s \in [1..n -> Seq(T)],
         NEW size \in Nat, \A i \in 1..n : Len(s[i]) = size
  PROVE  FlattenSeq(s) \in Seq(T) /\ Len(FlattenSeq(s)) = n * size
<1>1. CASE n = 0
  <2>1. s = <<>> /\ n * size = 0
    BY <1>1
  <2>2. <<>> \in Seq(T) /\ Len(<<>>) = 0
    OBVIOUS
  <2>3. FlattenSeq(s) = <<>>
    BY <2>1, JoinedEmpty
  <2> QED
    BY <2>1, <2>2, <2>3
<1>2. CASE n # 0
  <2>1. n \in Nat \ {0} /\ n \in 1..n
    BY <1>2
  <2>2. PICK t : JoinsUp(T, n, s, t)
    BY <2>1, PrefixesExist
  <2>3. FlattenSeq(s) = t[n]
    BY <2>1, <2>2, JoinedByPrefixes
  <2>4. Len(t[n]) = n * size
    <3>1. AllAsLong(n, s, size)
      BY DEF AllAsLong
    <3> QED
      BY <2>1, <2>2, <3>1, PrefixLengths
  <2>5. t[n] \in Seq(T)
    BY <2>1, <2>2 DEF JoinsUp
  <2> QED
    BY <2>3, <2>4, <2>5
<1> QED
  BY <1>1, <1>2

(* What follows the first m sequences is the last row of them again. *)
LEMMA JoinedPadded ==
  ASSUME NEW T, NEW m \in Nat \ {0}, NEW n \in Nat \ {0}, m <= n,
         NEW s \in [1..n -> Seq(T)],
         NEW size \in Nat \ {0}, AllAsLong(n, s, size),
         RepeatsLast(m, n, s, size), NEW r, FirstOf(T, m, r, n, s),
         NEW made, made = FlattenSeq(r)
  PROVE  FlattenSeq(s) = PaddedTo(n * size, made)
<1> DEFINE Last1(k) == made[Min({k, Len(made)})]
           Padded(i) == [k \in 1..i * size |-> Last1(k)]
           whole == m * size
<1>1. m \in 1..n /\ n \in 1..n
  OBVIOUS
<1>a. /\ \A i \in 1..n : Len(s[i]) = size
      /\ \A i \in m + 1..n : \A j \in 1..size : s[i][j] = s[m][size]
  BY DEF AllAsLong, RepeatsLast
<1>2. PICK t : JoinsUp(T, n, s, t)
  BY PrefixesExist
<1>3. FlattenSeq(s) = t[n]
  BY <1>2, JoinedByPrefixes
<1>4. made = t[m]
  <2>1. FlattenSeq(r) = t[m]
    BY <1>2, PrefixesOfFewer
  <2> QED
    BY <2>1
<1>b. t \in [1..n -> Seq(T)] /\ t[1] = s[1]
  BY <1>2 DEF JoinsUp
<1>5. \A i \in 1..n : Len(t[i]) = i * size /\ t[i] \in Seq(T)
  <2>2. \A i \in 1..n : Len(t[i]) = i * size
    BY <1>2, PrefixLengths
  <2> QED
    BY <2>2, <1>b
<1>6. made \in Seq(T) /\ Len(made) = whole /\ whole >= size /\ whole \in Nat
  <2>1. size * m >= size /\ size * m = m * size /\ m * size \in Nat
    BY Multiple
  <2> QED
    BY <1>1, <1>4, <1>5, <2>1
<1> HIDE DEF whole
<1>7. ASSUME NEW k \in Nat \ {0}
      PROVE  Last1(k) = IF k <= whole THEN made[k] ELSE made[whole]
  <2>1. k \in Int /\ Len(made) \in Int
    BY <1>6
  <2>2. Min({k, Len(made)}) = IF k <= Len(made) THEN k ELSE Len(made)
    BY <2>1, MinOfTwo
  <2> QED
    BY <2>2, <1>6
<1> HIDE DEF Last1
<1>8. made[whole] = s[m][size]
  <2>1. CASE m = 1
    <3>1. t[1] = s[1] /\ m * size = size
      BY <2>1, <1>a, <1>b
    <3> QED
      BY <2>1, <3>1, <1>4 DEF whole
  <2>2. CASE m # 1
    <3>1. m \in 2..n /\ m - 1 \in 1..n /\ m \in 1..n
      BY <2>2
    <3>2. /\ Len(t[m]) = Len(t[m - 1]) + Len(s[m])
          /\ \A k \in Len(t[m - 1]) + 1..Len(t[m - 1]) + Len(s[m]) :
               t[m][k] = s[m][k - Len(t[m - 1])]
      <4>a. /\ t[m] = t[m - 1] \o s[m]
            /\ t[m] \in Seq(T) /\ t[m - 1] \in Seq(T) /\ s[m] \in Seq(T)
        BY <3>1, <1>2, PrefixSucc
      <4> DEFINE a == t[m - 1]
                 b == s[m]
      <4>1. t[m] = a \o b /\ a \in Seq(T) /\ b \in Seq(T)
        BY <4>a
      <4> HIDE DEF a, b
      <4>2. /\ Len(t[m]) = Len(a) + Len(b)
            /\ \A k \in Len(a) + 1..Len(a) + Len(b) : t[m][k] = b[k - Len(a)]
        BY <4>1, Concatenation
      <4> QED
        BY <4>2 DEF a, b
    <3>3. Len(t[m]) = whole /\ Len(s[m]) = size /\ Len(t[m - 1]) \in Nat
      BY <3>1, <1>4, <1>5, <1>6, <1>a
    <3>4. whole \in Len(t[m - 1]) + 1..Len(t[m - 1]) + Len(s[m])
          /\ whole - Len(t[m - 1]) = size
      BY <3>2, <3>3, <1>6
    <3> QED
      BY <3>2, <3>4, <1>4
  <2> QED
    BY <2>1, <2>2
<1> DEFINE Bad == {i \in m..n : t[i] # Padded(i)}
<1>9. Bad = {}
  <2> SUFFICES ASSUME Bad # {} PROVE FALSE
    OBVIOUS
  <2>1. Bad \subseteq Nat
    OBVIOUS
  <2>2. \E i \in Bad : \A j \in Bad : i <= j
    <3> HIDE DEF Bad
    <3> QED
      BY <2>1, LeastNumber
  <2>3. PICK i \in Bad : \A j \in Bad : i <= j
    BY <2>2
  <2>4. i \in m..n /\ t[i] # Padded(i) /\ i \in 1..n
    BY <2>3
  <2>5. CASE i = m
    <3>1. ASSUME NEW k \in 1..whole PROVE Last1(k) = made[k]
      <4>1. k \in Nat \ {0} /\ k <= whole
        BY <1>6
      <4> QED
        BY <4>1, <1>7
    <3>2. made = [k \in 1..whole |-> made[k]]
      BY <1>6, SeqAsFunction
    <3>3. made = [k \in 1..whole |-> Last1(k)]
      BY <3>1, <3>2
    <3> QED
      BY <2>4, <2>5, <3>3, <1>4 DEF whole
  <2>6. CASE i # m
    <3>1. i - 1 \in m..n /\ i - 1 \in 1..n /\ i \in 2..n /\ ~(i <= i - 1)
          /\ i \in m + 1..n
      BY <2>4, <2>6
    <3>2. t[i - 1] = Padded(i - 1)
      BY <3>1, <2>3
    <3> DEFINE l == (i - 1) * size
    <3>3. l \in Nat /\ i * size = l + size /\ whole <= l
      <4>1. l \in Nat /\ i * size = l + size
        BY <2>4
      <4>2. i - 1 - m \in Nat /\ size * (i - 1 - m) >= 0
        BY <3>1
      <4>3. l = m * size + size * (i - 1 - m)
        BY <2>4
      <4> QED
        BY <4>1, <4>2, <4>3 DEF whole
    <3>4. Len(t[i - 1]) = l /\ Len(t[i]) = l + size /\ Len(s[i]) = size
      BY <3>1, <3>3, <1>5, <2>4, <1>a
    <3>5. /\ \A k \in 1..l : t[i][k] = t[i - 1][k]
          /\ \A k \in l + 1..l + size : t[i][k] = s[i][k - l]
      <4> HIDE DEF l
      <4>a. /\ t[i] = t[i - 1] \o s[i]
            /\ t[i] \in Seq(T) /\ t[i - 1] \in Seq(T) /\ s[i] \in Seq(T)
        BY <3>1, <1>2, PrefixSucc
      <4> DEFINE a == t[i - 1]
                 b == s[i]
      <4>1. t[i] = a \o b /\ a \in Seq(T) /\ b \in Seq(T)
        BY <4>a
      <4>2. Len(a) = l /\ Len(b) = size
        BY <3>4
      <4> HIDE DEF a, b
      <4>3. /\ \A k \in 1..Len(a) : t[i][k] = a[k]
            /\ \A k \in Len(a) + 1..Len(a) + Len(b) : t[i][k] = b[k - Len(a)]
        BY <4>1, Concatenation
      <4>4. /\ \A k \in 1..l : t[i][k] = a[k]
            /\ \A k \in l + 1..l + size : t[i][k] = b[k - l]
        BY <4>2, <4>3
      <4> QED
        BY <4>4 DEF a, b
    <3>6. \A k \in 1..l : t[i - 1][k] = Last1(k)
      BY <3>2
    <3> HIDE DEF l
    <3>7. ASSUME NEW k \in 1..i * size PROVE t[i][k] = Last1(k)
      <4>1. CASE k <= l
        <5>1. k \in 1..l
          BY <4>1, <3>3
        <5> QED
          BY <5>1, <3>5, <3>6
      <4>2. CASE ~(k <= l)
        <5>1. k \in l + 1..l + size /\ k - l \in 1..size /\ k \in Nat \ {0}
              /\ ~(k <= whole)
          BY <4>2, <3>3, <1>6
        <5>2. t[i][k] = s[i][k - l]
          BY <5>1, <3>5
        <5>3. s[i][k - l] = s[m][size]
          BY <5>1, <3>1, <1>a
        <5>4. Last1(k) = made[whole]
          BY <5>1, <1>7
        <5> QED
          BY <5>2, <5>3, <5>4, <1>8
      <4> QED
        BY <4>1, <4>2
    <3>8. t[i] = [k \in 1..i * size |-> t[i][k]]
      BY <2>4, <1>5, SeqAsFunction
    <3>9. t[i] = Padded(i)
      BY <3>7, <3>8
    <3> QED
      BY <3>9, <2>4
  <2> QED
    BY <2>5, <2>6
<1>10. n \in m..n
  OBVIOUS
<1>11. t[n] = Padded(n)
  BY <1>9, <1>10
<1> QED
  BY <1>3, <1>11 DEF Last1, PaddedTo

-----------------------------------------------------------------------------
(* The rows that the compressor gets *)

InCall == jpgPlace \in {"main", "prepare", "compress"}

(* The row that was taken but not told, after the compressor suspended. *)
Untold == IF jpgMain.suspended THEN 1 ELSE 0

(* Row groups that were put together, from the top. *)
GroupsDone == jpgMain.cur_iMCU_row * jpg.groups + jpgMain.rowgroup_ctr

(* Rows of the conversion buffer that were filled so far, with those that  *)
(* repeat the last one; the first group is made when two are there. *)
RowsLoaded ==
  GroupsDone * RowGroup + 2 * RowGroup
    + jpgPrep.next_buf_row - jpgPrep.next_buf_stop

PrepTyped ==
  /\ jpg \in [image_height : 1..MaxImageHeight,
              max_v_samp_factor : 1..MaxSampFactor, groups : 1..MaxGroups,
              need_context_rows : BOOLEAN, reduced : BOOLEAN]
  /\ jpgPlace \in {"application", "main", "prepare", "compress", "finished"}
  /\ jpgCall \in [next_scanline : Nat, in_row_ctr : Nat, in_rows_avail : Nat]
  /\ jpgMain \in [cur_iMCU_row : 0..total_iMCU_rows,
                  rowgroup_ctr : 0..jpg.groups, suspended : BOOLEAN]
  /\ jpgPrep \in [rows_to_go : Nat, next_buf_row : Nat,
                  this_row_group : Nat, next_buf_stop : Nat]
  /\ color_buf \in [0..3 * RowGroup - 1 -> Int]

(* The rows the application knows of, those of this call and the one that  *)
(* is not told are the rows that were taken. *)
Counted ==
  /\ jpgCall.next_scanline + jpgCall.in_row_ctr + Untold + jpgPrep.rows_to_go
       = jpg.image_height
  /\ IF InCall
     THEN /\ jpgCall.in_rows_avail >= 1
          /\ jpgCall.next_scanline + jpgCall.in_rows_avail <= jpg.image_height
          /\ jpgCall.in_row_ctr + Untold <= jpgCall.in_rows_avail
     ELSE jpgCall.in_row_ctr = 0 /\ jpgCall.in_rows_avail = 0
  /\ jpgPlace = "compress" => jpgCall.in_row_ctr + Untold >= 1

(* An iMCU row is whole when the compressor is called and until it took    *)
(* it; the application gets its last row told after the last of them.      *)
Staged ==
  /\ jpgPlace = "compress" \/ jpgMain.suspended
       <=> jpgMain.rowgroup_ctr = jpg.groups
  /\ jpgPlace = "prepare" \/ jpgMain.rowgroup_ctr = jpg.groups
       => jpgMain.cur_iMCU_row < total_iMCU_rows
  /\ jpgMain.suspended => jpgPlace \notin {"prepare", "finished"}
  /\ ~InCall /\ jpgPrep.rows_to_go = 0 /\ ~jpgMain.suspended
       => jpgMain.cur_iMCU_row = total_iMCU_rows

(* Without context rows a group is put together in the first rows of the   *)
(* buffer; the last group ends the iMCU row. *)
WithoutContext ==
  /\ jpgPrep.next_buf_row < RowGroup
  /\ jpgPrep.next_buf_stop = 2 * RowGroup
  /\ jpgPrep.rows_to_go > 0 =>
       /\ jpg.image_height - jpgPrep.rows_to_go
            = GroupsDone * RowGroup + jpgPrep.next_buf_row
       /\ \A i \in 0..jpgPrep.next_buf_row - 1 :
            color_buf[i] = GroupsDone * RowGroup + i
  /\ jpgPrep.rows_to_go = 0 =>
       /\ jpgPrep.next_buf_row = 0
       /\ jpgMain.rowgroup_ctr = jpg.groups \/
            jpgMain.cur_iMCU_row = total_iMCU_rows
       /\ jpgMain.rowgroup_ctr = jpg.groups =>
            jpgMain.cur_iMCU_row = total_iMCU_rows - 1

(* With context rows the buffer goes round three groups: the one before    *)
(* the next one, that one and the one after it as far as it was filled.    *)
WithContext ==
  /\ jpgPrep.this_row_group = (GroupsDone % 3) * RowGroup
  /\ jpgPrep.next_buf_stop = ((GroupsDone + 1) % 3) * RowGroup + RowGroup
  /\ jpgPrep.next_buf_row < jpgPrep.next_buf_stop
  /\ GroupsDone > 0 =>
       jpgPrep.next_buf_stop <= jpgPrep.next_buf_row + RowGroup
  /\ IF jpgPrep.rows_to_go > 0
     THEN RowsLoaded = jpg.image_height - jpgPrep.rows_to_go
     ELSE RowsLoaded >= jpg.image_height
  /\ RowsLoaded > 0 =>
       \A r \in (GroupsDone - 1) * RowGroup..RowsLoaded - 1 :
         color_buf[(r + 3 * RowGroup) % (3 * RowGroup)] = ImageRow(r)

Prepping == IF jpg.need_context_rows THEN WithContext ELSE WithoutContext

(* The iMCU row that is put together, and those that were taken. *)
Groups(m, n) == [k \in 1..n |-> Wanted(m * jpg.groups + k - 1)]

Passed ==
  /\ jpgBuffer = FlattenSeq(Groups(jpgMain.cur_iMCU_row,
                                   jpgMain.rowgroup_ctr))
  /\ compressed = [m \in 1..jpgMain.cur_iMCU_row |->
                     FlattenSeq(Groups(m - 1, jpg.groups))]

JpgInv == PrepTyped /\ Counted /\ Staged /\ Prepping /\ Passed

-----------------------------------------------------------------------------
LEMMA DivUnique ==
  ASSUME NEW a \in Nat, NEW n \in Nat \ {0}, NEW q \in Nat,
         NEW r \in 0..n - 1, a = n * q + r
  PROVE  a \div n = q
<1> DEFINE d == q - (a \div n)
<1>1. a % n = r
  BY ModUnique
<1>2. a = n * (a \div n) + r /\ a \div n \in Nat
  BY <1>1, DivMod
<1>3. n * d = 0 /\ d \in Int
  BY <1>2
<1> HIDE DEF d
<1>4. ~(d >= 1) /\ ~(-d >= 1)
  <2>1. d >= 1 => n * d >= n
    BY <1>3, Multiple
  <2>2. -d \in Int /\ (-d >= 1 => n * (-d) >= n)
    BY <1>3, Multiple
  <2>3. n * (-d) = -(n * d)
    BY <1>3
  <2> QED
    BY <2>1, <2>2, <2>3, <1>3
<1>5. d = 0
  BY <1>3, <1>4
<1> QED
  BY <1>2, <1>5 DEF d

LEMMA PrepFacts ==
  ASSUME PrepTyped
  PROVE  /\ jpg.image_height \in Nat \ {0} /\ RowGroup \in Nat \ {0}
         /\ jpg.groups \in Nat \ {0}
         /\ jpg.need_context_rows \in BOOLEAN /\ jpg.reduced \in BOOLEAN
         /\ total_iMCU_rows \in Nat \ {0}
         /\ GroupsDone \in Nat /\ 3 * RowGroup \in Nat \ {0}
         /\ jpgMain.cur_iMCU_row \in Nat /\ jpgMain.rowgroup_ctr \in Nat
<1>1. /\ MaxImageHeight \in Nat \ {0} /\ MaxSampFactor \in Nat \ {0}
      /\ MaxGroups \in Nat \ {0}
  BY JpgAssumption
<1>2. /\ jpg.image_height \in Nat \ {0} /\ RowGroup \in Nat \ {0}
      /\ jpg.groups \in Nat \ {0}
      /\ jpg.need_context_rows \in BOOLEAN /\ jpg.reduced \in BOOLEAN
  BY <1>1, SMTT(30) DEF PrepTyped, RowGroup
<1>3. total_iMCU_rows \in Nat \ {0}
  <2> DEFINE a == jpg.image_height - 1
             n == RowGroup * jpg.groups
  <2>1. a \in Nat /\ n \in Nat \ {0}
    <3>1. a \in Nat
      BY <1>2
    <3>2. RowGroup * jpg.groups >= RowGroup /\ RowGroup * jpg.groups \in Int
      BY <1>2, Multiple
    <3> QED
      BY <3>1, <3>2, <1>2
  <2> HIDE DEF a, n
  <2>2. a \div n \in Nat
    BY <2>1, DivMod
  <2> QED
    BY <2>2 DEF total_iMCU_rows, a, n
<1>4. jpgMain.cur_iMCU_row \in Nat /\ jpgMain.rowgroup_ctr \in Nat
  BY <1>2, <1>3 DEF PrepTyped
<1>5. GroupsDone \in Nat
  BY <1>2, <1>4 DEF GroupsDone
<1> QED
  BY <1>2, <1>3, <1>4, <1>5

LEMMA ImageRowIs ==
  ASSUME jpg.image_height \in Nat \ {0}, NEW n \in Int
  PROVE  ImageRow(n) = IF n < 0 THEN 0
                       ELSE IF n > jpg.image_height - 1
                            THEN jpg.image_height - 1 ELSE n
<1> DEFINE h == jpg.image_height - 1
<1>1. h \in Int /\ h >= 0
  OBVIOUS
<1>2. Min({n, h}) = IF n <= h THEN n ELSE h
  BY <1>1, MinOfTwo
<1>3. Min({n, h}) \in Int /\ 0 \in Int
  BY <1>1, <1>2
<1>4. Max({0, Min({n, h})}) = IF 0 >= Min({n, h}) THEN 0 ELSE Min({n, h})
  BY <1>3, MaxOfTwo
<1> QED
  BY <1>1, <1>2, <1>4 DEF ImageRow

-----------------------------------------------------------------------------
(* The beginning, and the actions that leave the buffers alone *)

LEMMA PrepInit == ASSUME JpgInit PROVE JpgInv
<1>1. /\ MaxImageHeight \in Nat \ {0} /\ MaxSampFactor \in Nat \ {0}
      /\ MaxGroups \in Nat \ {0}
  BY JpgAssumption
<1>2. /\ jpg.image_height \in Nat \ {0} /\ RowGroup \in Nat \ {0}
      /\ jpg.groups \in Nat \ {0}
  BY <1>1 DEF JpgInit, RowGroup
<1>3. total_iMCU_rows \in Nat \ {0}
  <2> DEFINE a == jpg.image_height - 1
             n == RowGroup * jpg.groups
  <2>1. a \in Nat /\ n \in Nat \ {0}
    <3>1. RowGroup * jpg.groups >= RowGroup /\ RowGroup * jpg.groups \in Int
      BY <1>2, Multiple
    <3> QED
      BY <3>1, <1>2
  <2> HIDE DEF a, n
  <2>2. a \div n \in Nat
    BY <2>1, DivMod
  <2> QED
    BY <2>2 DEF total_iMCU_rows, a, n
<1>4. PrepTyped
  <2>1. 3 * RowGroup \in Nat /\ 2 * RowGroup \in Nat /\ NoRow \in Int
    BY <1>2 DEF NoRow
  <2>2. color_buf \in [0..3 * RowGroup - 1 -> Int]
    BY <2>1 DEF JpgInit
  <2>3. /\ jpgMain = [cur_iMCU_row |-> 0, rowgroup_ctr |-> 0,
                      suspended |-> FALSE]
        /\ jpgPrep = [rows_to_go |-> jpg.image_height, next_buf_row |-> 0,
                      this_row_group |-> 0, next_buf_stop |-> 2 * RowGroup]
    BY DEF JpgInit
  <2>4. jpgMain \in [cur_iMCU_row : 0..total_iMCU_rows,
                     rowgroup_ctr : 0..jpg.groups, suspended : BOOLEAN]
    BY <2>3, <1>2, <1>3
  <2>5. jpgPrep \in [rows_to_go : Nat, next_buf_row : Nat,
                     this_row_group : Nat, next_buf_stop : Nat]
    BY <2>1, <2>3, <1>2
  <2>6. jpgCall \in [next_scanline : Nat, in_row_ctr : Nat,
                     in_rows_avail : Nat]
    BY DEF JpgInit
  <2> QED
    BY <2>2, <2>4, <2>5, <2>6 DEF JpgInit, PrepTyped
<1>5. /\ jpgMain.cur_iMCU_row = 0 /\ jpgMain.rowgroup_ctr = 0
      /\ jpgMain.suspended = FALSE /\ jpgPlace = "application"
      /\ jpgCall.next_scanline = 0 /\ jpgCall.in_row_ctr = 0
      /\ jpgCall.in_rows_avail = 0 /\ jpgPrep.rows_to_go = jpg.image_height
      /\ jpgPrep.next_buf_row = 0 /\ jpgPrep.this_row_group = 0
      /\ jpgPrep.next_buf_stop = 2 * RowGroup
  BY DEF JpgInit
<1>6. GroupsDone = 0
  BY <1>2, <1>5 DEF GroupsDone
<1>7. Counted
  BY <1>2, <1>5 DEF Counted, Untold, InCall
<1>8. Staged
  BY <1>2, <1>3, <1>5 DEF Staged, InCall
<1>9. WithoutContext
  <2>1. GroupsDone * RowGroup = 0
    BY <1>2, <1>6
  <2> QED
    BY <2>1, <1>2, <1>5 DEF WithoutContext
<1>10. WithContext
  <2>1. GroupsDone * RowGroup = 0 /\ GroupsDone % 3 = 0
        /\ (GroupsDone + 1) % 3 = 1
        /\ 0 * RowGroup = 0 /\ 1 * RowGroup = RowGroup
    BY <1>2, <1>6
  <2>2. RowsLoaded = 0
    BY <2>1, <1>2, <1>5 DEF RowsLoaded
  <2> QED
    BY <2>1, <2>2, <1>2, <1>5, <1>6 DEF WithContext
<1>11. Passed
  <2>1. Groups(jpgMain.cur_iMCU_row, jpgMain.rowgroup_ctr) = <<>>
    BY <1>5 DEF Groups
  <2>2. [m \in 1..jpgMain.cur_iMCU_row |->
           FlattenSeq(Groups(m - 1, jpg.groups))] = <<>>
    BY <1>5
  <2> QED
    BY <2>1, <2>2, JoinedEmpty DEF Passed, JpgInit
<1> QED
  BY <1>4, <1>7, <1>8, <1>9, <1>10, <1>11 DEF JpgInv, Prepping

(* As long as the rows, the groups and the buffers stay what they are. *)
LEMMA PrepStays ==
  ASSUME Prepping, UNCHANGED <<jpg, jpgPrep, color_buf>>,
         jpgMain'.cur_iMCU_row = jpgMain.cur_iMCU_row,
         jpgMain'.rowgroup_ctr = jpgMain.rowgroup_ctr
  PROVE  Prepping' /\ GroupsDone' = GroupsDone /\ RowGroup' = RowGroup
         /\ total_iMCU_rows' = total_iMCU_rows
<1>1. GroupsDone' = GroupsDone /\ RowGroup' = RowGroup
  BY DEF GroupsDone, RowGroup
<1>2. RowsLoaded' = RowsLoaded /\ total_iMCU_rows' = total_iMCU_rows
  BY <1>1 DEF RowsLoaded, total_iMCU_rows
<1>3. \A r : ImageRow(r)' = ImageRow(r)
  BY DEF ImageRow
<1>4. WithContext => WithContext'
  BY <1>1, <1>2, <1>3 DEF WithContext
<1>5. WithoutContext => WithoutContext'
  BY <1>1, <1>2 DEF WithoutContext
<1> QED
  BY <1>1, <1>2, <1>4, <1>5 DEF Prepping

LEMMA WantedStays ==
  ASSUME UNCHANGED jpg
  PROVE  /\ \A g : Wanted(g)' = Wanted(g)
         /\ \A m, n : Groups(m, n)' = Groups(m, n)
<1>1. \A g : Wanted(g)' = Wanted(g)
  BY DEF Wanted, Downsampled, ImageRow, RealGroups, RowGroup
<1> QED
  BY <1>1 DEF Groups

LEMMA PassedStays ==
  ASSUME Passed, UNCHANGED <<jpg, jpgBuffer, compressed>>,
         jpgMain'.cur_iMCU_row = jpgMain.cur_iMCU_row,
         jpgMain'.rowgroup_ctr = jpgMain.rowgroup_ctr
  PROVE  Passed'
<1>1. /\ Groups(jpgMain.cur_iMCU_row, jpgMain.rowgroup_ctr)'
           = Groups(jpgMain.cur_iMCU_row, jpgMain.rowgroup_ctr)
      /\ \A m : Groups(m - 1, jpg.groups)' = Groups(m - 1, jpg.groups)
  BY WantedStays
<1> QED
  BY <1>1 DEF Passed

LEMMA WriteStep ==
  ASSUME JpgInv, NEW n \in 1..MaxImageHeight, jpeg_write_scanlines(n)
  PROVE  JpgInv'
<1>1. /\ jpgPlace = "application" /\ jpgPlace' = "main"
      /\ n <= jpg.image_height - jpgCall.next_scanline
      /\ jpgCall' = [jpgCall EXCEPT !.in_row_ctr = 0, !.in_rows_avail = n]
      /\ UNCHANGED <<jpg, jpgMain, jpgPrep, color_buf, jpgBuffer, compressed>>
  BY DEF jpeg_write_scanlines
<1>2. PrepTyped /\ Counted /\ Staged /\ Prepping /\ Passed
  BY DEF JpgInv
<1>3. n \in Nat \ {0}
  BY JpgAssumption
<1>4. jpgCall \in [next_scanline : Nat, in_row_ctr : Nat, in_rows_avail : Nat]
  BY <1>2 DEF PrepTyped
<1>5. jpgCall' = [next_scanline |-> jpgCall.next_scanline, in_row_ctr |-> 0,
                  in_rows_avail |-> n]
  BY <1>1, <1>4
<1>6. Prepping' /\ Passed' /\ RowGroup' = RowGroup
      /\ total_iMCU_rows' = total_iMCU_rows
  BY <1>1, <1>2, PrepStays, PassedStays
<1>7. PrepTyped'
  <2>1. jpgCall' \in [next_scanline : Nat, in_row_ctr : Nat,
                      in_rows_avail : Nat]
    BY <1>3, <1>4, <1>5
  <2> QED
    BY <2>1, <1>1, <1>2, <1>6 DEF PrepTyped
<1>8. Counted'
  <2>1. jpgMain.suspended \in BOOLEAN /\ jpgPrep.rows_to_go \in Nat
        /\ jpg.image_height \in Nat
    BY <1>2, PrepFacts DEF PrepTyped
  <2>2. jpgCall.in_row_ctr = 0 /\ jpgCall.next_scanline + Untold
          + jpgPrep.rows_to_go = jpg.image_height /\ Untold \in 0..1
    BY <2>1, <1>1, <1>2, <1>4 DEF Counted, InCall, Untold
  <2>3. /\ jpgCall'.next_scanline = jpgCall.next_scanline
        /\ jpgCall'.in_row_ctr = 0 /\ jpgCall'.in_rows_avail = n
    BY <1>5
  <2>4. Untold' = Untold /\ InCall'
    BY <1>1 DEF Untold, InCall
  <2> QED
    BY <2>1, <2>2, <2>3, <2>4, <1>1, <1>3, <1>4 DEF Counted
<1>9. Staged'
  BY <1>1, <1>2, <1>6 DEF Staged, InCall
<1> QED
  BY <1>6, <1>7, <1>8, <1>9 DEF JpgInv

LEMMA FinishStep == ASSUME JpgInv, jpeg_finish_compress PROVE JpgInv'
<1>1. /\ jpgPlace = "application" /\ jpgPlace' = "finished"
      /\ jpgCall.next_scanline = jpg.image_height
      /\ UNCHANGED <<jpg, jpgCall, jpgMain, jpgPrep, color_buf, jpgBuffer,
                     compressed>>
  BY DEF jpeg_finish_compress
<1>2. PrepTyped /\ Counted /\ Staged /\ Prepping /\ Passed
  BY DEF JpgInv
<1>3. Prepping' /\ Passed' /\ RowGroup' = RowGroup
      /\ total_iMCU_rows' = total_iMCU_rows
  BY <1>1, <1>2, PrepStays, PassedStays
<1>4. PrepTyped'
  BY <1>1, <1>2, <1>3 DEF PrepTyped
<1>5. Counted'
  BY <1>1, <1>2 DEF Counted, InCall, Untold
<1>6. jpgMain.suspended = FALSE
  <2>1. jpgMain.suspended \in BOOLEAN /\ jpgPrep.rows_to_go \in Nat
        /\ jpg.image_height \in Nat /\ jpgCall.in_row_ctr \in Nat
    BY <1>2, PrepFacts DEF PrepTyped
  <2> QED
    BY <2>1, <1>1, <1>2 DEF Counted, Untold
<1>7. Staged'
  BY <1>1, <1>2, <1>3, <1>6 DEF Staged, InCall
<1> QED
  BY <1>3, <1>4, <1>5, <1>7 DEF JpgInv

LEMMA MainLoopStep == ASSUME JpgInv, MainLoop PROVE JpgInv'
<1>1. /\ jpgPlace = "main"
      /\ UNCHANGED <<jpg, jpgMain, jpgPrep, color_buf, jpgBuffer, compressed>>
  BY DEF MainLoop
<1>2. PrepTyped /\ Counted /\ Staged /\ Prepping /\ Passed
  BY DEF JpgInv
<1>3. Prepping' /\ Passed' /\ RowGroup' = RowGroup
      /\ total_iMCU_rows' = total_iMCU_rows /\ Untold' = Untold
  BY <1>1, <1>2, PrepStays, PassedStays DEF Untold
<1>4. /\ jpgCall \in [next_scanline : Nat, in_row_ctr : Nat,
                      in_rows_avail : Nat]
      /\ jpgMain.suspended \in BOOLEAN /\ jpgPrep.rows_to_go \in Nat
      /\ jpg.image_height \in Nat /\ jpg.groups \in Nat
      /\ jpgMain.rowgroup_ctr \in 0..jpg.groups
      /\ jpgMain.cur_iMCU_row \in 0..total_iMCU_rows
      /\ total_iMCU_rows \in Nat
  BY <1>2, PrepFacts DEF PrepTyped
<1>5. CASE jpgMain.cur_iMCU_row = total_iMCU_rows
  <2>1. jpgPlace' = "application"
        /\ jpgCall' = [next_scanline |-> jpgCall.next_scanline
                                           + jpgCall.in_row_ctr,
                       in_row_ctr |-> 0, in_rows_avail |-> 0]
    BY <1>5 DEF MainLoop, CallReturns
  <2>2. /\ jpgCall'.next_scanline = jpgCall.next_scanline + jpgCall.in_row_ctr
        /\ jpgCall'.in_row_ctr = 0 /\ jpgCall'.in_rows_avail = 0
    BY <2>1
  <2>3. PrepTyped'
    <3>1. jpgCall' \in [next_scanline : Nat, in_row_ctr : Nat,
                        in_rows_avail : Nat]
      BY <2>1, <1>4
    <3> QED
      BY <3>1, <2>1, <1>1, <1>2, <1>3 DEF PrepTyped
  <2>4. Counted'
    BY <2>1, <2>2, <1>1, <1>2, <1>3, <1>4 DEF Counted, InCall, Untold
  <2>5. jpgMain.rowgroup_ctr # jpg.groups /\ jpgMain.suspended = FALSE
    BY <1>1, <1>2, <1>4, <1>5 DEF Staged
  <2>6. Staged'
    BY <2>1, <2>5, <1>1, <1>3, <1>5 DEF Staged
  <2> QED
    BY <2>3, <2>4, <2>6, <1>3 DEF JpgInv
<1>6. CASE jpgMain.cur_iMCU_row # total_iMCU_rows
  <2>1. /\ jpgPlace' = IF jpgMain.rowgroup_ctr < jpg.groups
                       THEN "prepare" ELSE "compress"
        /\ jpgCall' = jpgCall
    BY <1>6 DEF MainLoop
  <2>2. PrepTyped'
    BY <2>1, <1>1, <1>2, <1>3 DEF PrepTyped
  <2>3. jpgMain.rowgroup_ctr = jpg.groups <=> jpgMain.suspended
    BY <1>1, <1>2 DEF Staged
  <2>4. jpgPlace' = "compress" => Untold = 1
    BY <2>1, <2>3, <1>4 DEF Untold
  <2>5. Counted'
    BY <2>1, <2>4, <1>1, <1>2, <1>3, <1>4 DEF Counted, InCall
  <2>6. Staged'
    BY <2>1, <2>3, <1>1, <1>3, <1>4, <1>6 DEF Staged, InCall
  <2> QED
    BY <2>2, <2>5, <2>6, <1>3 DEF JpgInv
<1> QED
  BY <1>5, <1>6

-----------------------------------------------------------------------------
(* The compressor takes the iMCU row or suspends. *)

LEMMA CompressDoneStep == ASSUME JpgInv, CompressDone PROVE JpgInv'
<1>1. /\ jpgPlace = "compress" /\ jpgPlace' = "main"
      /\ compressed' = Append(compressed, jpgBuffer) /\ jpgBuffer' = <<>>
      /\ UNCHANGED <<jpg, jpgPrep, color_buf>>
      /\ jpgCall' = [jpgCall EXCEPT !.in_row_ctr = @ + Untold]
      /\ jpgMain' = [cur_iMCU_row |-> jpgMain.cur_iMCU_row + 1,
                     rowgroup_ctr |-> 0, suspended |-> FALSE]
  BY DEF CompressDone, Untold
<1>2. PrepTyped /\ Counted /\ Staged /\ Prepping /\ Passed
  BY DEF JpgInv
<1>3. /\ jpgCall \in [next_scanline : Nat, in_row_ctr : Nat,
                      in_rows_avail : Nat]
      /\ jpgMain.suspended \in BOOLEAN /\ jpgPrep.rows_to_go \in Nat
      /\ jpg.image_height \in Nat \ {0} /\ jpg.groups \in Nat \ {0}
      /\ jpgMain.rowgroup_ctr \in 0..jpg.groups
      /\ jpgMain.cur_iMCU_row \in 0..total_iMCU_rows
      /\ total_iMCU_rows \in Nat \ {0} /\ Untold \in 0..1
      /\ RowGroup \in Nat \ {0} /\ GroupsDone \in Nat
  BY <1>2, PrepFacts DEF PrepTyped, Untold
<1>4. /\ jpgMain.rowgroup_ctr = jpg.groups
      /\ jpgMain.cur_iMCU_row < total_iMCU_rows
  BY <1>1, <1>2 DEF Staged
<1>5. /\ jpgMain'.cur_iMCU_row = jpgMain.cur_iMCU_row + 1
      /\ jpgMain'.rowgroup_ctr = 0 /\ jpgMain'.suspended = FALSE
      /\ Untold' = 0
      /\ jpgCall' = [next_scanline |-> jpgCall.next_scanline,
                     in_row_ctr |-> jpgCall.in_row_ctr + Untold,
                     in_rows_avail |-> jpgCall.in_rows_avail]
  BY <1>1, <1>3 DEF Untold
<1>6. /\ RowGroup' = RowGroup /\ total_iMCU_rows' = total_iMCU_rows
      /\ jpg' = jpg /\ jpgPrep' = jpgPrep /\ color_buf' = color_buf
  BY <1>1 DEF RowGroup, total_iMCU_rows
<1>7. GroupsDone' = GroupsDone
  <2> DEFINE a == jpgMain.cur_iMCU_row
             b == jpg.groups
  <2>a. a \in Nat /\ b \in Nat
    BY <1>3
  <2> HIDE DEF a, b
  <2>b. (a + 1) * b + 0 = a * b + b
    BY <2>a
  <2>1. (jpgMain.cur_iMCU_row + 1) * jpg.groups + 0
          = jpgMain.cur_iMCU_row * jpg.groups + jpg.groups
    BY <2>b DEF a, b
  <2> QED
    BY <2>1, <1>4, <1>5, <1>6 DEF GroupsDone
<1>8. PrepTyped'
  <2>1. jpgCall' \in [next_scanline : Nat, in_row_ctr : Nat,
                      in_rows_avail : Nat]
    BY <1>3, <1>5
  <2>2. jpgMain' \in [cur_iMCU_row : 0..total_iMCU_rows,
                      rowgroup_ctr : 0..jpg.groups, suspended : BOOLEAN]
    BY <1>1, <1>3, <1>4, SMTT(30)
  <2> QED
    BY <2>1, <2>2, <1>1, <1>2, <1>6 DEF PrepTyped
<1>9. Counted'
  <2>1. /\ jpgCall'.next_scanline = jpgCall.next_scanline
        /\ jpgCall'.in_row_ctr = jpgCall.in_row_ctr + Untold
        /\ jpgCall'.in_rows_avail = jpgCall.in_rows_avail
    BY <1>5
  <2> QED
    BY <2>1, <1>1, <1>2, <1>3, <1>5 DEF Counted, InCall
<1>10. Staged'
  BY <1>1, <1>3, <1>4, <1>5, <1>6 DEF Staged, InCall
<1>11. Prepping'
  <2>1. RowsLoaded' = RowsLoaded /\ \A r : ImageRow(r)' = ImageRow(r)
    BY <1>6, <1>7 DEF RowsLoaded, ImageRow
  <2>2. WithContext => WithContext'
    BY <2>1, <1>6, <1>7 DEF WithContext
  <2>3. ASSUME WithoutContext PROVE WithoutContext'
    <3>1. jpgPrep'.rows_to_go = 0 =>
            /\ jpgPrep'.next_buf_row = 0
            /\ jpgMain'.cur_iMCU_row = total_iMCU_rows
      BY <2>3, <1>3, <1>4, <1>5, <1>6 DEF WithoutContext
    <3>2. jpgMain'.rowgroup_ctr # jpg.groups
      BY <1>3, <1>5
    <3>3. jpgPrep.rows_to_go > 0 =>
           /\ jpg.image_height - jpgPrep.rows_to_go
                = GroupsDone * RowGroup + jpgPrep.next_buf_row
           /\ \A i \in 0..jpgPrep.next_buf_row - 1 :
                color_buf[i] = GroupsDone * RowGroup + i
      BY <2>3 DEF WithoutContext
    <3>4. jpgPrep.next_buf_row < RowGroup
          /\ jpgPrep.next_buf_stop = 2 * RowGroup
      BY <2>3 DEF WithoutContext
    <3> QED
      BY <3>1, <3>2, <3>3, <3>4, <1>6, <1>7 DEF WithoutContext
  <2> QED
    BY <2>2, <2>3, <1>2, <1>6 DEF Prepping
<1>12. Passed'
  <2>1. \A m, n : Groups(m, n)' = Groups(m, n)
    BY <1>1, WantedStays
  <2> DEFINE cur == jpgMain.cur_iMCU_row
             Joined(m) == FlattenSeq(Groups(m, jpg.groups))
  <2>2. compressed = [m \in 1..cur |-> Joined(m - 1)]
    BY <1>2 DEF Passed
  <2>3. jpgBuffer = Joined(cur) /\ cur \in Nat
    BY <1>2, <1>3, <1>4 DEF Passed
  <2>4. compressed' = [m \in 1..cur + 1 |-> Joined(m - 1)]
    <3> HIDE DEF Joined, cur
    <3> DEFINE s == [m \in 1..cur |-> Joined(m - 1)]
               t == [m \in 1..cur + 1 |-> Joined(m - 1)]
               T == {Joined(m) : m \in 0..cur}
               u == Append(s, Joined(cur))
    <3>1. s \in Seq(T) /\ Len(s) = cur /\ t \in Seq(T) /\ Len(t) = cur + 1
      <4>1. \A m \in 1..cur + 1 : Joined(m - 1) \in T
        BY <2>3
      <4> HIDE DEF T
      <4> QED
        BY <2>3, <4>1
    <3>2. Joined(cur) \in T
      BY <2>3
    <3>3. /\ \A m \in 1..cur : s[m] = Joined(m - 1)
          /\ \A m \in 1..cur + 1 : t[m] = Joined(m - 1)
      OBVIOUS
    <3>4. s = compressed /\ u = compressed'
      BY <1>1, <2>2, <2>3
    <3> HIDE DEF s, t, T
    <3>5. u \in Seq(T) /\ Len(u) = cur + 1
      BY <3>1, <3>2
    <3>6. ASSUME NEW m \in 1..cur + 1 PROVE u[m] = t[m]
      <4>1. CASE m = cur + 1
        <5>1. u[m] = Joined(cur) /\ t[m] = Joined(m - 1) /\ m - 1 = cur
          BY <4>1, <3>1, <3>2, <3>3, <2>3
        <5> QED
          BY <5>1
      <4>2. CASE m # cur + 1
        <5>1. m \in 1..cur
          BY <4>2, <2>3
        <5> QED
          BY <5>1, <3>1, <3>2, <3>3, <2>3
      <4> QED
        BY <4>1, <4>2
    <3> HIDE DEF u
    <3>7. /\ u = [m \in 1..cur + 1 |-> u[m]]
          /\ t = [m \in 1..cur + 1 |-> t[m]]
      BY <3>1, <3>5, SeqAsFunction
    <3>8. u = t
      BY <3>6, <3>7
    <3> QED
      BY <3>4, <3>8 DEF t
  <2>5. jpgBuffer' = FlattenSeq(Groups(jpgMain'.cur_iMCU_row, 0))
    <3>1. Groups(jpgMain'.cur_iMCU_row, 0) = <<>>
      BY DEF Groups
    <3> QED
      BY <3>1, <1>1, JoinedEmpty
  <2> QED
    BY <2>1, <2>4, <2>5, <1>5, <1>6 DEF Passed
<1> QED
  BY <1>8, <1>9, <1>10, <1>11, <1>12 DEF JpgInv

LEMMA SuspendedStep == ASSUME JpgInv, Suspended PROVE JpgInv'
<1> DEFINE taken == jpgCall.in_row_ctr + Untold - 1
<1>1. /\ jpgPlace = "compress" /\ jpgPlace' = "application"
      /\ jpgMain' = [jpgMain EXCEPT !.suspended = TRUE]
      /\ UNCHANGED <<jpg, jpgPrep, color_buf, jpgBuffer, compressed>>
  BY DEF Suspended, CallReturns
<1>2. PrepTyped /\ Counted /\ Staged /\ Prepping /\ Passed
  BY DEF JpgInv
<1>3. /\ jpgCall \in [next_scanline : Nat, in_row_ctr : Nat,
                      in_rows_avail : Nat]
      /\ jpgMain \in [cur_iMCU_row : 0..total_iMCU_rows,
                      rowgroup_ctr : 0..jpg.groups, suspended : BOOLEAN]
      /\ jpgPrep.rows_to_go \in Nat
      /\ jpg.image_height \in Nat \ {0} /\ Untold \in 0..1
  BY <1>2, PrepFacts DEF PrepTyped, Untold
<1>4. jpgCall' = [next_scanline |-> jpgCall.next_scanline + taken,
                  in_row_ctr |-> 0, in_rows_avail |-> 0]
  <2>1. [jpgCall EXCEPT !.in_row_ctr
           = @ - (IF jpgMain.suspended THEN 0 ELSE 1)].in_row_ctr = taken
    BY <1>3 DEF Untold
  <2>2. [jpgCall EXCEPT !.in_row_ctr
           = @ - (IF jpgMain.suspended THEN 0 ELSE 1)].next_scanline
          = jpgCall.next_scanline
    BY <1>3
  <2> HIDE DEF taken
  <2> QED
    BY <2>1, <2>2 DEF Suspended, CallReturns
<1>5. taken \in Nat
  BY <1>1, <1>2, <1>3 DEF Counted
<1>6. /\ jpgMain'.cur_iMCU_row = jpgMain.cur_iMCU_row
      /\ jpgMain'.rowgroup_ctr = jpgMain.rowgroup_ctr
      /\ jpgMain'.suspended = TRUE /\ Untold' = 1
      /\ jpgMain' \in [cur_iMCU_row : 0..total_iMCU_rows,
                       rowgroup_ctr : 0..jpg.groups, suspended : BOOLEAN]
  BY <1>1, <1>3 DEF Untold
<1>7. Prepping' /\ Passed' /\ RowGroup' = RowGroup
      /\ total_iMCU_rows' = total_iMCU_rows
  BY <1>1, <1>2, <1>6, PrepStays, PassedStays
<1>8. PrepTyped'
  <2>1. jpgCall' \in [next_scanline : Nat, in_row_ctr : Nat,
                      in_rows_avail : Nat]
    <3> HIDE DEF taken
    <3> QED
      BY <1>3, <1>4, <1>5
  <2> QED
    BY <2>1, <1>1, <1>2, <1>6, <1>7 DEF PrepTyped
<1>9. Counted'
  <2>1. /\ jpgCall'.next_scanline = jpgCall.next_scanline + taken
        /\ jpgCall'.in_row_ctr = 0 /\ jpgCall'.in_rows_avail = 0
    BY <1>4
  <2> QED
    BY <2>1, <1>1, <1>2, <1>3, <1>6 DEF Counted, InCall
<1>10. Staged'
  BY <1>1, <1>2, <1>6, <1>7 DEF Staged, InCall
<1> QED
  BY <1>7, <1>8, <1>9, <1>10 DEF JpgInv

-----------------------------------------------------------------------------
(* Row groups *)

(* Rows that the downsampler makes of a row group. *)
OutputRows ==
  IF jpg.need_context_rows \/ jpg.reduced THEN 1 ELSE RowGroup

LEMMA DownsampledTyped ==
  ASSUME RowGroup \in Nat \ {0}, NEW rows \in [1..RowGroup -> Int]
  PROVE  /\ Downsampled(rows) \in Seq(Seq(Int))
         /\ Len(Downsampled(rows)) = IF jpg.reduced THEN 1 ELSE RowGroup
<1>1. rows \in Seq(Int) /\ Len(rows) = RowGroup
  OBVIOUS
<1>2. <<rows>> \in Seq(Seq(Int)) /\ Len(<<rows>>) = 1
  BY <1>1
<1> DEFINE single == [k \in 1..Len(rows) |-> <<rows[k]>>]
<1>3. single \in Seq(Seq(Int)) /\ Len(single) = RowGroup
  <2>1. ASSUME NEW k \in 1..RowGroup PROVE <<rows[k]>> \in Seq(Int)
    <3>1. rows[k] \in Int
      OBVIOUS
    <3> QED
      BY <3>1
  <2>2. single \in [1..RowGroup -> Seq(Int)]
    BY <1>1, <2>1
  <2> HIDE DEF single
  <2> QED
    BY <2>2
<1> QED
  BY <1>2, <1>3 DEF Downsampled

LEMMA ImageRowTyped ==
  ASSUME jpg.image_height \in Nat \ {0}, NEW n \in Int
  PROVE  ImageRow(n) \in Int
BY ImageRowIs

LEMMA GroupRowsTyped ==
  ASSUME jpg.image_height \in Nat \ {0}, NEW first \in Int, NEW n \in Nat
  PROVE  [k \in 1..n |-> ImageRow(first + k - 1)] \in [1..n -> Int]
<1>1. ASSUME NEW k \in 1..n PROVE ImageRow(first + k - 1) \in Int
  <2>1. first + k - 1 \in Int
    OBVIOUS
  <2> QED
    BY <2>1, ImageRowTyped
<1> QED
  BY <1>1

LEMMA WantedTyped ==
  ASSUME PrepTyped, NEW g \in Nat
  PROVE  /\ Wanted(g) \in Seq(Seq(Int)) /\ Len(Wanted(g)) = OutputRows
         /\ OutputRows \in Nat \ {0}
<1> DEFINE V == RowGroup
           rows(i) == [k \in 1..V |-> ImageRow(i * V + k - 1)]
           wide == [k \in 1..3 * V |-> ImageRow((g - 1) * V + k - 1)]
           last == Downsampled(rows(RealGroups - 1))
<1>1. /\ jpg.image_height \in Nat \ {0} /\ V \in Nat \ {0}
      /\ jpg.need_context_rows \in BOOLEAN /\ jpg.reduced \in BOOLEAN
  BY PrepFacts
<1>2. RealGroups \in Nat \ {0}
  <2>1. jpg.image_height - 1 \in Nat
    BY <1>1
  <2>2. (jpg.image_height - 1) \div V \in Nat
    BY <1>1, <2>1, DivMod
  <2> QED
    BY <2>2 DEF RealGroups
<1>3. OutputRows \in Nat \ {0}
  BY <1>1 DEF OutputRows
<1>4. CASE jpg.need_context_rows
  <2>1. (g - 1) * V \in Int /\ 3 * V \in Nat
    BY <1>1
  <2>2. wide \in [1..3 * V -> Int]
    BY <2>1, <1>1, GroupRowsTyped
  <2>3. wide \in Seq(Int)
    <3> DEFINE w == 3 * V
    <3>1. w \in Nat /\ wide \in [1..w -> Int]
      BY <2>1, <2>2
    <3> HIDE DEF w, wide
    <3> QED
      BY <3>1
  <2>4. Wanted(g) = <<wide>>
    BY <1>4 DEF Wanted
  <2> HIDE DEF wide
  <2> QED
    BY <2>3, <2>4, <1>3, <1>4 DEF OutputRows
<1>5. CASE ~jpg.need_context_rows
  <2>1. ASSUME NEW i \in Nat
        PROVE  /\ Downsampled(rows(i)) \in Seq(Seq(Int))
               /\ Len(Downsampled(rows(i))) = OutputRows
    <3>1. i * V \in Int /\ V \in Nat
      BY <1>1
    <3>2. rows(i) \in [1..V -> Int]
      BY <3>1, <1>1, GroupRowsTyped
    <3> HIDE DEF rows
    <3> QED
      BY <3>2, <1>1, <1>5, DownsampledTyped DEF OutputRows
  <2>2. last \in Seq(Seq(Int)) /\ Len(last) = OutputRows
    <3>1. RealGroups - 1 \in Nat
      BY <1>2
    <3> HIDE DEF rows
    <3> QED
      BY <2>1, <3>1
  <2>3. Wanted(g) = IF g < RealGroups THEN Downsampled(rows(g))
                    ELSE [k \in 1..Len(last) |-> last[Len(last)]]
    BY <1>5 DEF Wanted
  <2> HIDE DEF last, rows
  <2>4. last[Len(last)] \in Seq(Int)
    BY <2>2, <1>3
  <2>5. CASE g < RealGroups
    BY <2>1, <2>3, <2>5, <1>3
  <2>6. CASE ~(g < RealGroups)
    <3> DEFINE same == [k \in 1..Len(last) |-> last[Len(last)]]
    <3>1. same \in [1..OutputRows -> Seq(Int)]
      BY <2>2, <2>4
    <3>2. Wanted(g) = same
      BY <2>3, <2>6
    <3> HIDE DEF same
    <3> QED
      BY <3>1, <3>2, <1>3
  <2> QED
    BY <2>5, <2>6
<1> QED
  BY <1>1, <1>4, <1>5

LEMMA GroupsTyped ==
  ASSUME PrepTyped, NEW m \in Nat, NEW n \in Nat
  PROVE  /\ Groups(m, n) \in [1..n -> Seq(Seq(Int))]
         /\ \A k \in 1..n : /\ Groups(m, n)[k] = Wanted(m * jpg.groups + k - 1)
                            /\ Len(Groups(m, n)[k]) = OutputRows
         /\ OutputRows \in Nat \ {0}
<1>1. jpg.groups \in Nat
  BY PrepFacts
<1>2. ASSUME NEW k \in 1..n
      PROVE  /\ Wanted(m * jpg.groups + k - 1) \in Seq(Seq(Int))
             /\ Len(Wanted(m * jpg.groups + k - 1)) = OutputRows
  <2> DEFINE g == m * jpg.groups + k - 1
  <2>1. g \in Nat
    <3>1. m * jpg.groups \in Nat
      BY <1>1
    <3> QED
      BY <3>1
  <2> HIDE DEF g
  <2>2. Wanted(g) \in Seq(Seq(Int)) /\ Len(Wanted(g)) = OutputRows
    BY <2>1, WantedTyped
  <2> QED
    BY <2>2 DEF g
<1>3. OutputRows \in Nat \ {0}
  BY WantedTyped
<1> DEFINE s == [k \in 1..n |-> Wanted(m * jpg.groups + k - 1)]
<1>4. s \in [1..n -> Seq(Seq(Int))]
  BY <1>2
<1>5. \A k \in 1..n : s[k] = Wanted(m * jpg.groups + k - 1)
  OBVIOUS
<1>6. Groups(m, n) = s
  BY DEF Groups
<1> HIDE DEF s
<1> QED
  BY <1>2, <1>3, <1>4, <1>5, <1>6

LEMMA GroupsJoined ==
  ASSUME PrepTyped, NEW m \in Nat, NEW n \in Nat
  PROVE  FlattenSeq(Groups(m, n)) \in Seq(Seq(Int))
<1> DEFINE r == Groups(m, n)
<1>1. /\ r \in [1..n -> Seq(Seq(Int))] /\ OutputRows \in Nat
      /\ \A k \in 1..n : Len(r[k]) = OutputRows
  BY GroupsTyped
<1> HIDE DEF r
<1>2. FlattenSeq(r) \in Seq(Seq(Int))
  BY <1>1, JoinedTyped
<1> QED
  BY <1>2 DEF r

(* One row group more *)
LEMMA GroupAppended ==
  ASSUME PrepTyped, NEW m \in Nat, NEW n \in Nat
  PROVE  FlattenSeq(Groups(m, n + 1))
           = FlattenSeq(Groups(m, n)) \o Wanted(m * jpg.groups + n)
<1> DEFINE s == Groups(m, n + 1)
           r == Groups(m, n)
           T == Seq(Int)
<1>1. n + 1 \in Nat /\ n + 1 \in 1..n + 1 /\ \A k \in 1..n : k \in 1..n + 1
  OBVIOUS
<1>2. /\ s \in [1..n + 1 -> Seq(T)]
      /\ \A k \in 1..n + 1 : s[k] = Wanted(m * jpg.groups + k - 1)
  BY <1>1, GroupsTyped
<1>3. /\ r \in [1..n -> Seq(T)]
      /\ \A k \in 1..n : r[k] = Wanted(m * jpg.groups + k - 1)
  BY GroupsTyped
<1>4. s[n + 1] = Wanted(m * jpg.groups + n)
  <2>1. m * jpg.groups + (n + 1) - 1 = m * jpg.groups + n
    BY PrepFacts
  <2>2. s[n + 1] = Wanted(m * jpg.groups + (n + 1) - 1)
    BY <1>1, <1>2
  <2> HIDE DEF s
  <2> QED
    BY <2>1, <2>2
<1> HIDE DEF s, r, T
<1>5. \A k \in 1..n : r[k] = s[k]
  BY <1>1, <1>2, <1>3
<1>6. FlattenSeq(s) = FlattenSeq(r) \o s[n + 1]
  BY <1>2, <1>3, <1>5, JoinedSucc
<1> QED
  BY <1>4, <1>6 DEF s, r

(* Past the bottom of the image *)
LEMMA GroupsPadded ==
  ASSUME PrepTyped, ~jpg.need_context_rows, NEW m \in Nat, NEW n \in Nat \ {0},
         n <= jpg.groups, m * jpg.groups + n = RealGroups,
         NEW made, made = FlattenSeq(Groups(m, n))
  PROVE  FlattenSeq(Groups(m, jpg.groups))
           = PaddedTo(jpg.groups * OutputRows, made)
<1> DEFINE s == Groups(m, jpg.groups)
           r == Groups(m, n)
           T == Seq(Int)
           G == jpg.groups
           size == OutputRows
<1>1. G \in Nat \ {0} /\ m * G \in Nat /\ RealGroups \in Nat
  BY PrepFacts
<1>2. /\ s \in [1..G -> Seq(T)]
      /\ \A k \in 1..G : s[k] = Wanted(m * G + k - 1) /\ Len(s[k]) = size
      /\ size \in Nat \ {0}
  BY <1>1, GroupsTyped
<1>3. /\ r \in [1..n -> Seq(T)]
      /\ \A k \in 1..n : r[k] = Wanted(m * G + k - 1)
  BY GroupsTyped
<1>4. \A k \in 1..n : r[k] = s[k]
  <2>1. \A k \in 1..n : k \in 1..G
    BY <1>1
  <2> HIDE DEF s, r, G
  <2> QED
    BY <1>2, <1>3, <2>1
<1> DEFINE last == Downsampled([k \in 1..RowGroup |->
                     ImageRow((RealGroups - 1) * RowGroup + k - 1)])
<1>5. \A g : Wanted(g) =
        IF g < RealGroups
          THEN Downsampled([k \in 1..RowGroup |->
                              ImageRow(g * RowGroup + k - 1)])
          ELSE [k \in 1..Len(last) |-> last[Len(last)]]
  BY DEF Wanted
<1>6. s[n] = last
  <2>1. n \in 1..G /\ m * G + n - 1 = RealGroups - 1
        /\ RealGroups - 1 < RealGroups
    BY <1>1
  <2>2. s[n] = Wanted(RealGroups - 1)
    <3> HIDE DEF s, size
    <3> QED
      BY <1>2, <2>1
  <2>3. Wanted(RealGroups - 1) = last
    BY <1>5, <2>1
  <2> QED
    BY <2>2, <2>3
<1> HIDE DEF last
<1>7. ASSUME NEW i \in n + 1..G, NEW j \in 1..size PROVE s[i][j] = s[n][size]
  <2>1. i \in 1..G /\ n \in 1..G /\ ~(m * G + i - 1 < RealGroups)
    BY <1>1
  <2>2. Len(last) = size
    <3> HIDE DEF s, size
    <3> QED
      BY <1>2, <1>6, <2>1
  <2>3. s[i] = [k \in 1..Len(last) |-> last[Len(last)]]
    <3>1. s[i] = Wanted(m * G + i - 1)
      BY <1>2, <2>1
    <3> HIDE DEF s
    <3> QED
      BY <3>1, <2>1, <1>5
  <2> HIDE DEF s, size
  <2> QED
    BY <2>2, <2>3, <1>6
<1> HIDE DEF s, r, T, G, size
<1>8. made = FlattenSeq(r) /\ n <= G
  BY DEF r, G
<1>9. FlattenSeq(s) = PaddedTo(G * size, made)
  <2>1. AllAsLong(G, s, size) /\ RepeatsLast(n, G, s, size)
    BY <1>2, <1>7 DEF AllAsLong, RepeatsLast
  <2>2. FirstOf(T, n, r, G, s)
    BY <1>1, <1>3, <1>4, <1>8 DEF FirstOf
  <2>3. s \in [1..G -> Seq(T)] /\ size \in Nat \ {0} /\ G \in Nat \ {0}
    BY <1>1, <1>2
  <2> QED
    BY <1>8, <2>1, <2>2, <2>3, JoinedPadded
<1> QED
  BY <1>9 DEF s, G, size

(* The last of the row groups of the image, and the last iMCU row *)
LEMMA GroupInImage ==
  ASSUME PrepTyped, NEW n \in Nat, n * RowGroup < jpg.image_height
  PROVE  n < RealGroups /\ RealGroups \in Nat
<1> DEFINE a == jpg.image_height - 1
           V == RowGroup
           q == a \div V
<1>1. a \in Nat /\ V \in Nat \ {0} /\ n * V <= a
  BY PrepFacts
<1>2. RealGroups = q + 1
  BY DEF RealGroups
<1> HIDE DEF a, V
<1>3. q \in Nat /\ a % V \in 0..V - 1 /\ a = V * q + (a % V)
  BY <1>1, DivMod
<1> HIDE DEF q
<1>4. ~(q < n)
  <2> SUFFICES ASSUME q < n PROVE FALSE
    OBVIOUS
  <2>1. n - q \in Int /\ V * (n - q) >= V
    BY <1>1, <1>3, Multiple
  <2>2. V * (n - q) = n * V - V * q
    BY <1>1, <1>3
  <2>3. n * V \in Int /\ V * q \in Int
    BY <1>1, <1>3
  <2> QED
    BY <2>1, <2>2, <2>3, <1>1, <1>3
<1> QED
  BY <1>2, <1>3, <1>4

LEMMA LastGroup ==
  ASSUME PrepTyped, jpgMain.rowgroup_ctr < jpg.groups,
         NEW f \in 1..RowGroup,
         jpg.image_height = GroupsDone * RowGroup + f
  PROVE  /\ RealGroups = GroupsDone + 1
         /\ jpgMain.cur_iMCU_row = total_iMCU_rows - 1
<1> DEFINE a == jpg.image_height - 1
           V == RowGroup
           G == jpg.groups
           cur == jpgMain.cur_iMCU_row
           rg == jpgMain.rowgroup_ctr
<1>1. /\ a \in Nat /\ V \in Nat \ {0} /\ G \in Nat \ {0} /\ cur \in Nat
      /\ rg \in 0..G - 1 /\ f \in 1..V
  <2>1. /\ jpg.image_height \in Nat \ {0} /\ V \in Nat \ {0}
        /\ G \in Nat \ {0} /\ cur \in Nat /\ rg \in Nat
    BY PrepFacts
  <2> QED
    BY <2>1
<1>2. GroupsDone = cur * G + rg /\ a = GroupsDone * V + f - 1
  <2>1. GroupsDone = cur * G + rg
    BY DEF GroupsDone
  <2>2. GroupsDone \in Nat /\ jpg.image_height = GroupsDone * V + f
    BY PrepFacts
  <2>3. GroupsDone * V \in Nat
    BY <2>2, <1>1
  <2> QED
    BY <2>1, <2>2, <2>3
<1>3. /\ RealGroups = (a \div V) + 1
      /\ total_iMCU_rows = (a \div (V * G)) + 1
  BY DEF RealGroups, total_iMCU_rows
<1> HIDE DEF a, V, G, cur, rg
<1>4. GroupsDone \in Nat
  BY <1>1, <1>2
<1>5. a \div V = GroupsDone
  <2>1. f - 1 \in 0..V - 1 /\ a = V * GroupsDone + (f - 1)
    BY <1>1, <1>2, <1>4
  <2> QED
    BY <2>1, <1>1, <1>4, DivUnique
<1>6. a \div (V * G) = cur
  <2> DEFINE n == V * G
             r == rg * V + f - 1
  <2>1. n \in Nat \ {0}
    <3>1. V * G >= V /\ V * G \in Int
      BY <1>1, Multiple
    <3> QED
      BY <3>1, <1>1
  <2>2. r \in 0..n - 1
    <3>1. V * (G - rg) >= V /\ V * (G - rg) = V * G - rg * V
      <4>1. G - rg \in Int /\ G - rg >= 1
        BY <1>1
      <4> QED
        BY <4>1, <1>1, Multiple
    <3>2. rg * V \in Nat /\ V * G \in Int
      BY <1>1
    <3> QED
      BY <3>1, <3>2, <1>1
  <2>3. a = n * cur + r
    <3>1. (cur * G + rg) * V = V * G * cur + rg * V
      BY <1>1
    <3>2. V * G * cur \in Int /\ rg * V \in Int
      BY <1>1
    <3> QED
      BY <3>1, <3>2, <1>1, <1>2
  <2> HIDE DEF n, r
  <2>4. a \div n = cur
    BY <2>1, <2>2, <2>3, <1>1, DivUnique
  <2> QED
    BY <2>4 DEF n
<1> QED
  BY <1>1, <1>3, <1>4, <1>5, <1>6 DEF cur

-----------------------------------------------------------------------------
(* A step of the preprocessor *)

(* What it did not take back of the rows that are left of the piece. *)
LEMMA PieceLeft ==
  ASSUME JpgInv, jpgPlace = "prepare"
  PROVE  /\ jpgMain.suspended = FALSE /\ jpgMain.rowgroup_ctr < jpg.groups
         /\ jpgMain.cur_iMCU_row < total_iMCU_rows
         /\ jpgCall \in [next_scanline : Nat, in_row_ctr : Nat,
                         in_rows_avail : Nat]
         /\ jpgCall.in_rows_avail >= 1
         /\ jpgCall.in_row_ctr <= jpgCall.in_rows_avail
         /\ jpgCall.next_scanline + jpgCall.in_row_ctr
              = jpg.image_height - jpgPrep.rows_to_go
         /\ jpgCall.in_rows_avail - jpgCall.in_row_ctr <= jpgPrep.rows_to_go
         /\ jpgPrep \in [rows_to_go : Nat, next_buf_row : Nat,
                         this_row_group : Nat, next_buf_stop : Nat]
         /\ jpgMain \in [cur_iMCU_row : 0..total_iMCU_rows,
                         rowgroup_ctr : 0..jpg.groups, suspended : BOOLEAN]
<1>1. PrepTyped /\ Counted /\ Staged
  BY DEF JpgInv
<1>2. /\ jpgCall \in [next_scanline : Nat, in_row_ctr : Nat,
                      in_rows_avail : Nat]
      /\ jpgPrep \in [rows_to_go : Nat, next_buf_row : Nat,
                      this_row_group : Nat, next_buf_stop : Nat]
      /\ jpgMain \in [cur_iMCU_row : 0..total_iMCU_rows,
                      rowgroup_ctr : 0..jpg.groups, suspended : BOOLEAN]
      /\ jpg.groups \in Nat \ {0} /\ jpg.image_height \in Nat \ {0}
  BY <1>1, PrepFacts DEF PrepTyped
<1>3. jpgMain.suspended = FALSE /\ jpgMain.rowgroup_ctr # jpg.groups
      /\ jpgMain.cur_iMCU_row < total_iMCU_rows
  BY <1>1, <1>2 DEF Staged
<1>4. Untold = 0
  BY <1>3 DEF Untold
<1> QED
  BY <1>1, <1>2, <1>3, <1>4 DEF Counted, InCall

(* The accounts after it took some rows, or gives the call up. *)
LEMMA PieceTaken ==
  ASSUME JpgInv, jpgPlace = "prepare", NEW numrows \in Nat,
         numrows <= jpgCall.in_rows_avail - jpgCall.in_row_ctr,
         NEW rowgroup_ctr \in Nat, rowgroup_ctr <= jpg.groups,
         NEW call, call = [jpgCall EXCEPT !.in_row_ctr = @ + numrows],
         UNCHANGED jpg,
         jpgMain' = [jpgMain EXCEPT !.rowgroup_ctr = rowgroup_ctr],
         jpgPrep'.rows_to_go = jpgPrep.rows_to_go - numrows,
         \/ /\ rowgroup_ctr < jpg.groups
            /\ jpgCall' = call /\ jpgPlace' = "prepare"
         \/ Prepared(rowgroup_ctr, call),
         rowgroup_ctr < jpg.groups \/ call.in_row_ctr >= 1,
         rowgroup_ctr = jpg.groups \/ jpgPlace' = "prepare"
           \/ jpgPrep.rows_to_go - numrows # 0
  PROVE  /\ Counted' /\ Staged'
         /\ RowGroup' = RowGroup /\ total_iMCU_rows' = total_iMCU_rows
         /\ jpgMain'.cur_iMCU_row = jpgMain.cur_iMCU_row
         /\ jpgMain'.rowgroup_ctr = rowgroup_ctr
         /\ jpgPlace' \in {"application", "prepare", "compress"}
         /\ jpgCall' \in [next_scanline : Nat, in_row_ctr : Nat,
                          in_rows_avail : Nat]
         /\ jpgMain' \in [cur_iMCU_row : 0..total_iMCU_rows,
                          rowgroup_ctr : 0..jpg.groups, suspended : BOOLEAN]
<1>1. /\ jpgMain.suspended = FALSE
      /\ jpgMain.cur_iMCU_row < total_iMCU_rows
      /\ jpgCall \in [next_scanline : Nat, in_row_ctr : Nat,
                      in_rows_avail : Nat]
      /\ jpgCall.in_rows_avail >= 1
      /\ jpgCall.in_row_ctr <= jpgCall.in_rows_avail
      /\ jpgCall.next_scanline + jpgCall.in_row_ctr
           = jpg.image_height - jpgPrep.rows_to_go
      /\ jpgCall.in_rows_avail - jpgCall.in_row_ctr <= jpgPrep.rows_to_go
      /\ jpgPrep.rows_to_go \in Nat
      /\ jpgMain \in [cur_iMCU_row : 0..total_iMCU_rows,
                      rowgroup_ctr : 0..jpg.groups, suspended : BOOLEAN]
  BY PieceLeft
<1>2. jpg.image_height \in Nat \ {0} /\ jpg.groups \in Nat \ {0}
      /\ total_iMCU_rows \in Nat
      /\ jpgCall.next_scanline + jpgCall.in_rows_avail <= jpg.image_height
  BY PrepFacts DEF JpgInv, Counted, InCall
<1>3. RowGroup' = RowGroup /\ total_iMCU_rows' = total_iMCU_rows
  BY DEF RowGroup, total_iMCU_rows
<1>4. /\ jpgMain'.cur_iMCU_row = jpgMain.cur_iMCU_row
      /\ jpgMain'.rowgroup_ctr = rowgroup_ctr
      /\ jpgMain'.suspended = FALSE
      /\ jpgMain' \in [cur_iMCU_row : 0..total_iMCU_rows,
                       rowgroup_ctr : 0..jpg.groups, suspended : BOOLEAN]
      /\ Untold' = 0
  <2>1. rowgroup_ctr \in 0..jpg.groups
    BY <1>2
  <2> QED
    BY <2>1, <1>1 DEF Untold
<1>5. /\ call.next_scanline = jpgCall.next_scanline
      /\ call.in_row_ctr = jpgCall.in_row_ctr + numrows
      /\ call.in_rows_avail = jpgCall.in_rows_avail
      /\ call \in [next_scanline : Nat, in_row_ctr : Nat, in_rows_avail : Nat]
  BY <1>1
<1>6. \/ /\ rowgroup_ctr < jpg.groups
         /\ jpgCall' = call /\ jpgPlace' = "prepare"
      \/ /\ rowgroup_ctr = jpg.groups
         /\ jpgCall' = call /\ jpgPlace' = "compress"
      \/ /\ rowgroup_ctr < jpg.groups /\ jpgPlace' = "application"
         /\ jpgCall' = [next_scanline |-> call.next_scanline
                                            + call.in_row_ctr,
                        in_row_ctr |-> 0, in_rows_avail |-> 0]
  BY <1>2 DEF Prepared, CallReturns
<1>7. jpgCall' \in [next_scanline : Nat, in_row_ctr : Nat,
                    in_rows_avail : Nat]
  BY <1>5, <1>6
<1>8. Counted'
  <2>1. CASE jpgCall' = call /\ jpgPlace' \in {"prepare", "compress"}
    BY <2>1, <1>1, <1>2, <1>4, <1>5, <1>6 DEF Counted, InCall
  <2>2. CASE jpgPlace' = "application"
    <3>1. /\ jpgCall'.next_scanline = jpgCall.next_scanline
                                        + jpgCall.in_row_ctr + numrows
          /\ jpgCall'.in_row_ctr = 0 /\ jpgCall'.in_rows_avail = 0
      BY <2>2, <1>1, <1>5, <1>6
    <3> QED
      BY <3>1, <2>2, <1>1, <1>2, <1>4 DEF Counted, InCall
  <2> QED
    BY <2>1, <2>2, <1>6
<1>9. Staged'
  BY <1>1, <1>2, <1>3, <1>4, <1>6 DEF Staged, InCall
<1> QED
  BY <1>3, <1>4, <1>6, <1>7, <1>8, <1>9

(* The groups that are together after one more, or none *)
LEMMA GroupsAfter ==
  ASSUME PrepTyped, UNCHANGED jpg, NEW n \in Nat,
         jpgMain'.cur_iMCU_row = jpgMain.cur_iMCU_row,
         jpgMain'.rowgroup_ctr = jpgMain.rowgroup_ctr + n
  PROVE  GroupsDone' = GroupsDone + n
BY PrepFacts DEF GroupsDone

(* The iMCU row with one more group, or as it was *)
LEMMA PassedOn ==
  ASSUME PrepTyped, Passed, UNCHANGED <<jpg, compressed>>,
         jpgMain'.cur_iMCU_row = jpgMain.cur_iMCU_row,
         jpgBuffer' = FlattenSeq(Groups(jpgMain.cur_iMCU_row,
                                        jpgMain'.rowgroup_ctr))
  PROVE  Passed'
<1>1. \A m, n : Groups(m, n)' = Groups(m, n)
  BY WantedStays
<1>2. compressed' = [m \in 1..jpgMain'.cur_iMCU_row |->
                       FlattenSeq(Groups(m - 1, jpg.groups))]
  BY DEF Passed
<1> QED
  BY <1>1, <1>2 DEF Passed

LEMMA ConvertedIs ==
  ASSUME PrepTyped, NEW numrows \in Nat
  PROVE  /\ Converted(numrows) \in [0..3 * RowGroup - 1 -> Int]
         /\ \A i \in 0..3 * RowGroup - 1 : Converted(numrows)[i]
              = IF i \in jpgPrep.next_buf_row
                           ..jpgPrep.next_buf_row + numrows - 1
                THEN jpgCall.next_scanline + jpgCall.in_row_ctr
                       + i - jpgPrep.next_buf_row
                ELSE color_buf[i]
<1>1. /\ jpgPrep.next_buf_row \in Nat
      /\ jpgCall.next_scanline + jpgCall.in_row_ctr \in Int
      /\ color_buf \in [0..3 * RowGroup - 1 -> Int]
      /\ DOMAIN color_buf = 0..3 * RowGroup - 1 /\ RowGroup \in Nat
  <2>1. /\ jpgPrep.next_buf_row \in Nat
        /\ jpgCall.next_scanline \in Nat /\ jpgCall.in_row_ctr \in Nat
        /\ color_buf \in [0..3 * RowGroup - 1 -> Int]
    BY DEF PrepTyped
  <2>2. DOMAIN color_buf = 0..3 * RowGroup - 1
    BY <2>1
  <2> QED
    BY <2>1, <2>2, PrepFacts, SMTT(30)
<1> DEFINE b == jpgPrep.next_buf_row
           f == jpgCall.next_scanline + jpgCall.in_row_ctr
           I == 0..3 * RowGroup - 1
           g == [i \in I |-> IF i - b \in 0..numrows - 1 THEN f + (i - b)
                             ELSE color_buf[i]]
<1>2. Converted(numrows) = g
  BY <1>1 DEF Converted
<1>3. I \subseteq Int /\ color_buf \in [I -> Int] /\ b \in Int /\ f \in Int
  BY <1>1
<1> HIDE DEF b, f, I
<1>4. g \in [I -> Int]
  BY <1>3
<1>5. \A i \in I : g[i] = IF i \in b..b + numrows - 1 THEN f + i - b
                          ELSE color_buf[i]
  BY <1>3
<1> HIDE DEF g
<1> QED
  BY <1>2, <1>4, <1>5 DEF b, f, I

-----------------------------------------------------------------------------
(* pre_process_data *)

(* The rows of the group that is made from the buffer *)
LEMMA SimpleRows ==
  ASSUME JpgInv, jpgPlace = "prepare", ~jpg.need_context_rows,
         NEW numrows \in Nat \ {0},
         numrows <= RowGroup - jpgPrep.next_buf_row,
         numrows <= jpgCall.in_rows_avail - jpgCall.in_row_ctr,
         NEW filled \in Nat, filled = jpgPrep.next_buf_row + numrows,
         NEW padded,
         padded = IF jpgPrep.rows_to_go - numrows = 0 /\ filled < RowGroup
                    THEN expand_bottom_edge(Converted(numrows), filled,
                                            RowGroup)
                    ELSE Converted(numrows)
  PROVE  /\ padded \in [0..3 * RowGroup - 1 -> Int]
         /\ jpgPrep.rows_to_go - numrows \in Nat
         /\ jpg.image_height - (jpgPrep.rows_to_go - numrows)
              = GroupsDone * RowGroup + filled
         /\ \A i \in 0..filled - 1 : padded[i] = GroupsDone * RowGroup + i
         /\ filled = RowGroup \/ jpgPrep.rows_to_go - numrows = 0 =>
              /\ GroupsDone < RealGroups
              /\ Downsampled([k \in 1..RowGroup |-> padded[k - 1]])
                   = Wanted(GroupsDone)
<1> DEFINE V == RowGroup
           P == GroupsDone * RowGroup
           H == jpg.image_height
           togo == jpgPrep.rows_to_go - numrows
           conv == Converted(numrows)
           I == 0..3 * V - 1
<1>1. /\ jpgCall.next_scanline + jpgCall.in_row_ctr
           = H - jpgPrep.rows_to_go
      /\ jpgCall.in_rows_avail - jpgCall.in_row_ctr <= jpgPrep.rows_to_go
      /\ jpgPrep.rows_to_go \in Nat /\ jpgPrep.next_buf_row \in Nat
      /\ jpgCall.in_rows_avail \in Nat /\ jpgCall.in_row_ctr \in Nat
  BY PieceLeft
<1>2. PrepTyped /\ WithoutContext
  BY DEF JpgInv, Prepping
<1>3. /\ V \in Nat \ {0} /\ P \in Nat /\ H \in Nat \ {0}
      /\ GroupsDone \in Nat
  BY <1>2, PrepFacts
<1>4. togo \in Nat /\ jpgPrep.rows_to_go > 0
  BY <1>1
<1>5. /\ H - jpgPrep.rows_to_go = P + jpgPrep.next_buf_row
      /\ \A i \in 0..jpgPrep.next_buf_row - 1 : color_buf[i] = P + i
  BY <1>2, <1>4 DEF WithoutContext
<1>6. conv \in [I -> Int]
      /\ \A i \in I : conv[i]
           = IF i \in jpgPrep.next_buf_row..jpgPrep.next_buf_row + numrows - 1
             THEN jpgCall.next_scanline + jpgCall.in_row_ctr
                    + i - jpgPrep.next_buf_row
             ELSE color_buf[i]
  BY <1>2, ConvertedIs
<1>7. filled \in 1..V /\ H - togo = P + filled
  BY <1>1, <1>3, <1>5
<1> HIDE DEF V, P, H, togo, conv
<1>8. \A i \in 0..filled - 1 : i \in I /\ conv[i] = P + i
  <2>1. ASSUME NEW i \in 0..filled - 1 PROVE i \in I /\ conv[i] = P + i
    <3>1. i \in I
      BY <1>3, <1>7
    <3>2. CASE i < jpgPrep.next_buf_row
      <4>1. i \in 0..jpgPrep.next_buf_row - 1
            /\ i \notin jpgPrep.next_buf_row
                          ..jpgPrep.next_buf_row + numrows - 1
        BY <3>2, <1>1
      <4> QED
        BY <3>1, <4>1, <1>5, <1>6
    <3>3. CASE ~(i < jpgPrep.next_buf_row)
      <4>1. i \in jpgPrep.next_buf_row..jpgPrep.next_buf_row + numrows - 1
        BY <3>3, <1>1
      <4>2. jpgCall.next_scanline + jpgCall.in_row_ctr
              + i - jpgPrep.next_buf_row = P + i
        BY <1>1, <1>3, <1>5 DEF H
      <4> QED
        BY <3>1, <4>1, <4>2, <1>6
    <3> QED
      BY <3>1, <3>2, <3>3
  <2> QED
    BY <2>1
<1>9. padded = IF togo = 0 /\ filled < V
               THEN [i \in I |-> IF i \in filled..V - 1
                                 THEN conv[(filled - 1 + 3 * V) % (3 * V)]
                                 ELSE conv[i]]
               ELSE conv
  <2>1. DOMAIN conv = I
    BY <1>6
  <2>2. expand_bottom_edge(conv, filled, V)
          = [i \in DOMAIN conv |->
               IF i \in filled..V - 1
               THEN conv[(filled - 1 + 3 * V) % (3 * V)] ELSE conv[i]]
    BY DEF expand_bottom_edge, RowAt, V
  <2> QED
    BY <2>1, <2>2 DEF togo, conv, V
<1>10. (filled - 1 + 3 * V) % (3 * V) = filled - 1
  <2> DEFINE n == 3 * V
  <2>1. n \in Nat \ {0} /\ filled - 1 \in 0..n - 1
    BY <1>3, <1>7
  <2> HIDE DEF n
  <2>2. (filled - 1) % n = filled - 1 /\ filled - 1 \in Nat
    BY <2>1, ModSmall
  <2>3. (filled - 1 + n) % n = (filled - 1) % n
    BY <2>1, <2>2, ModPlus
  <2> QED
    BY <2>2, <2>3 DEF n
<1>11. filled - 1 \in 0..filled - 1 /\ filled - 1 \in I
  BY <1>3, <1>7
<1>12. conv[filled - 1] = P + (filled - 1) /\ P + (filled - 1) \in Int
  BY <1>3, <1>7, <1>8, <1>11
<1> HIDE DEF I
<1>13. padded \in [I -> Int]
  BY <1>6, <1>9, <1>10, <1>12
<1>14. \A i \in 0..filled - 1 : padded[i] = P + i
  <2>1. ASSUME NEW i \in 0..filled - 1 PROVE padded[i] = P + i
    <3>1. i \in I /\ conv[i] = P + i /\ i \notin filled..V - 1
      BY <1>3, <1>7, <1>8
    <3> QED
      BY <3>1, <1>9
  <2> QED
    BY <2>1
<1>15. ASSUME filled = V \/ togo = 0
       PROVE  /\ GroupsDone < RealGroups
              /\ Downsampled([k \in 1..V |-> padded[k - 1]])
                   = Wanted(GroupsDone)
  <2>1. P + 1 <= H
    BY <1>3, <1>4, <1>7 DEF togo
  <2>2. GroupsDone < RealGroups
    <3>1. GroupsDone * RowGroup < jpg.image_height
      BY <2>1, <1>3 DEF P, H
    <3> QED
      BY <3>1, <1>2, <1>3, GroupInImage
  <2>3. ASSUME NEW k \in 1..V PROVE padded[k - 1] = ImageRow(P + k - 1)
    <3>1. k - 1 \in I /\ P + k - 1 \in Int
      BY <1>3 DEF I
    <3>2. ImageRow(P + k - 1) = IF P + k - 1 > H - 1 THEN H - 1
                                ELSE P + k - 1
      <4>1. ImageRow(P + k - 1) = IF P + k - 1 < 0 THEN 0
              ELSE IF P + k - 1 > H - 1 THEN H - 1 ELSE P + k - 1
        BY <3>1, <1>3, ImageRowIs DEF H
      <4> QED
        BY <4>1, <1>3
    <3>3. CASE k <= filled
      <4>1. k - 1 \in 0..filled - 1 /\ P + k - 1 <= H - 1
        BY <3>3, <1>3, <1>4, <1>7 DEF togo
      <4>2. padded[k - 1] = P + (k - 1)
        BY <4>1, <1>14
      <4> QED
        BY <3>2, <4>1, <4>2, <1>3
    <3>4. CASE ~(k <= filled)
      <4>1. togo = 0 /\ filled < V /\ k - 1 \in filled..V - 1
        BY <3>4, <1>3, <1>7, <1>15
      <4>2. padded[k - 1] = P + (filled - 1)
        BY <3>1, <4>1, <1>9, <1>10, <1>12
      <4>3. H = P + filled /\ P + k - 1 > H - 1
        BY <3>4, <4>1, <1>3, <1>7
      <4> QED
        BY <3>2, <4>2, <4>3, <1>3, <1>7
    <3> QED
      BY <3>3, <3>4
  <2>4. [k \in 1..V |-> padded[k - 1]] = [k \in 1..V |-> ImageRow(P + k - 1)]
    BY <2>3
  <2>5. Wanted(GroupsDone)
          = Downsampled([k \in 1..V |-> ImageRow(P + k - 1)])
    BY <2>2 DEF Wanted, V, P
  <2> QED
    BY <2>2, <2>4, <2>5
<1> QED
  BY <1>4, <1>7, <1>13, <1>14, <1>15 DEF V, P, H, togo, I

LEMMA SimpleStep == ASSUME JpgInv, pre_process_data PROVE JpgInv'
<1> DEFINE numrows == Min({RowGroup - jpgPrep.next_buf_row,
                           jpgCall.in_rows_avail - jpgCall.in_row_ctr})
           rows_to_go == jpgPrep.rows_to_go - numrows
           filled == jpgPrep.next_buf_row + numrows
           padded == IF rows_to_go = 0 /\ filled < RowGroup
                     THEN expand_bottom_edge(Converted(numrows), filled,
                                             RowGroup)
                     ELSE Converted(numrows)
           full == filled = RowGroup \/ rows_to_go = 0
           made == IF full THEN jpgBuffer \o
                     Downsampled([k \in 1..RowGroup |-> padded[k - 1]])
                   ELSE jpgBuffer
           counted == jpgMain.rowgroup_ctr + (IF full THEN 1 ELSE 0)
           height == jpg.groups * Len(Downsampled([k \in 1..RowGroup |-> 0]))
           rowgroup_ctr == IF rows_to_go = 0 THEN jpg.groups ELSE counted
           call == [jpgCall EXCEPT !.in_row_ctr = @ + numrows]
           cur == jpgMain.cur_iMCU_row
           rg == jpgMain.rowgroup_ctr
<1>1. jpgPlace = "prepare" /\ ~jpg.need_context_rows
      /\ UNCHANGED <<jpg, compressed>>
  BY DEF pre_process_data
<1>2. numrows = 0 =>
        /\ Prepared(jpgMain.rowgroup_ctr, jpgCall)
        /\ UNCHANGED <<jpgMain, jpgPrep, color_buf, jpgBuffer>>
  BY DEF pre_process_data
<1>3. numrows # 0 =>
        /\ color_buf' = padded
        /\ jpgPrep' = [jpgPrep EXCEPT !.rows_to_go = rows_to_go,
                         !.next_buf_row = IF full THEN 0 ELSE filled]
        /\ jpgBuffer' = IF rows_to_go = 0
                        THEN [k \in 1..height |-> made[Min({k, Len(made)})]]
                        ELSE made
        /\ jpgMain' = [jpgMain EXCEPT !.rowgroup_ctr = rowgroup_ctr]
        /\ IF call.in_row_ctr < call.in_rows_avail
              /\ rowgroup_ctr < jpg.groups
           THEN jpgCall' = call /\ UNCHANGED jpgPlace
           ELSE Prepared(rowgroup_ctr, call)
  BY DEF pre_process_data
<1>4. PrepTyped /\ Counted /\ Staged /\ Passed /\ WithoutContext /\ Prepping
  BY <1>1 DEF JpgInv, Prepping
<1>5. /\ rg < jpg.groups /\ cur < total_iMCU_rows
      /\ jpgCall \in [next_scanline : Nat, in_row_ctr : Nat,
                      in_rows_avail : Nat]
      /\ jpgCall.in_row_ctr <= jpgCall.in_rows_avail
      /\ jpgCall.in_rows_avail - jpgCall.in_row_ctr <= jpgPrep.rows_to_go
      /\ jpgPrep \in [rows_to_go : Nat, next_buf_row : Nat,
                      this_row_group : Nat, next_buf_stop : Nat]
      /\ jpgMain \in [cur_iMCU_row : 0..total_iMCU_rows,
                      rowgroup_ctr : 0..jpg.groups, suspended : BOOLEAN]
  BY <1>1, PieceLeft
<1>6. /\ jpg.image_height \in Nat \ {0} /\ RowGroup \in Nat \ {0}
      /\ jpg.groups \in Nat \ {0} /\ total_iMCU_rows \in Nat \ {0}
      /\ GroupsDone \in Nat /\ cur \in Nat /\ rg \in Nat
      /\ jpg.reduced \in BOOLEAN
  BY <1>4, PrepFacts
<1>7. jpgPrep.next_buf_row < RowGroup
  BY <1>4 DEF WithoutContext
<1>8. /\ numrows \in Nat /\ numrows <= RowGroup - jpgPrep.next_buf_row
      /\ numrows <= jpgCall.in_rows_avail - jpgCall.in_row_ctr
      /\ numrows = 0 => jpgCall.in_rows_avail = jpgCall.in_row_ctr
  <2> DEFINE a == RowGroup - jpgPrep.next_buf_row
             b == jpgCall.in_rows_avail - jpgCall.in_row_ctr
  <2>1. a \in Nat \ {0} /\ b \in Nat
    BY <1>5, <1>6, <1>7
  <2>2. Min({a, b}) = IF a <= b THEN a ELSE b
    BY <2>1, MinOfTwo
  <2> HIDE DEF a, b
  <2>3. /\ Min({a, b}) \in Nat /\ Min({a, b}) <= a /\ Min({a, b}) <= b
        /\ Min({a, b}) = 0 => b = 0
    BY <2>1, <2>2
  <2> QED
    BY <2>3, <1>5 DEF a, b
<1>9. CASE numrows = 0
  <2>1. jpgMain' = jpgMain /\ jpgPrep' = jpgPrep /\ color_buf' = color_buf
        /\ jpgBuffer' = jpgBuffer /\ Prepared(rg, jpgCall)
    BY <1>2, <1>9
  <2>2. Prepping' /\ Passed'
    BY <2>1, <1>1, <1>4, PrepStays, PassedStays
  <2>3. jpgPrep.rows_to_go # 0
    BY <1>4, <1>5, <1>6 DEF WithoutContext
  <2>4. /\ jpgCall = [jpgCall EXCEPT !.in_row_ctr = @ + 0]
        /\ jpgMain' = [jpgMain EXCEPT !.rowgroup_ctr = rg]
        /\ jpgPrep'.rows_to_go = jpgPrep.rows_to_go - 0
        /\ rg <= jpg.groups /\ 0 \in Nat
        /\ 0 <= jpgCall.in_rows_avail - jpgCall.in_row_ctr
    BY <2>1, <1>5, <1>6
  <2>5. jpgPrep.rows_to_go - 0 # 0
    BY <2>3, <1>5
  <2>6. /\ Counted' /\ Staged' /\ RowGroup' = RowGroup
        /\ total_iMCU_rows' = total_iMCU_rows
        /\ jpgPlace' \in {"application", "prepare", "compress"}
        /\ jpgCall' \in [next_scanline : Nat, in_row_ctr : Nat,
                         in_rows_avail : Nat]
    BY <2>1, <2>4, <2>5, <1>1, <1>5, <1>6, PieceTaken
  <2>7. PrepTyped'
    BY <2>1, <2>6, <1>1, <1>4 DEF PrepTyped
  <2> QED
    BY <2>2, <2>6, <2>7 DEF JpgInv
<1>10. CASE numrows # 0
  <2> HIDE DEF numrows
  <2>1. /\ color_buf' = padded
        /\ jpgPrep' = [jpgPrep EXCEPT !.rows_to_go = rows_to_go,
                         !.next_buf_row = IF full THEN 0 ELSE filled]
        /\ jpgBuffer' = IF rows_to_go = 0 THEN PaddedTo(height, made)
                        ELSE made
        /\ jpgMain' = [jpgMain EXCEPT !.rowgroup_ctr = rowgroup_ctr]
        /\ \/ /\ rowgroup_ctr < jpg.groups
              /\ jpgCall' = call /\ jpgPlace' = "prepare"
           \/ Prepared(rowgroup_ctr, call)
    BY <1>1, <1>3, <1>10 DEF PaddedTo
  <2>2. /\ numrows \in Nat \ {0} /\ filled \in Nat /\ filled <= RowGroup
    BY <1>5, <1>6, <1>8, <1>10
  <2>3. /\ padded \in [0..3 * RowGroup - 1 -> Int]
        /\ rows_to_go \in Nat
        /\ jpg.image_height - rows_to_go = GroupsDone * RowGroup + filled
        /\ \A i \in 0..filled - 1 : padded[i] = GroupsDone * RowGroup + i
        /\ full => /\ GroupsDone < RealGroups
                   /\ Downsampled([k \in 1..RowGroup |-> padded[k - 1]])
                        = Wanted(GroupsDone)
    <3>1. filled = jpgPrep.next_buf_row + numrows
      OBVIOUS
    <3>2. padded = IF jpgPrep.rows_to_go - numrows = 0 /\ filled < RowGroup
                   THEN expand_bottom_edge(Converted(numrows), filled,
                                           RowGroup)
                   ELSE Converted(numrows)
      OBVIOUS
    <3> HIDE DEF padded, filled
    <3> QED
      BY <3>1, <3>2, <2>2, <1>1, <1>8, SimpleRows
  <2> HIDE DEF padded, made, call, height
  <2>4. /\ rowgroup_ctr \in Nat /\ rowgroup_ctr <= jpg.groups
        /\ counted \in Nat /\ counted <= jpg.groups
    <3>1. counted = rg \/ counted = rg + 1
      <4> HIDE DEF full
      <4>1. CASE full
        BY <4>1
      <4>2. CASE ~full
        BY <4>2, <1>6
      <4> QED
        BY <4>1, <4>2
    <3> HIDE DEF counted, rg
    <3>2. counted \in Nat /\ counted <= jpg.groups
      BY <3>1, <1>5, <1>6
    <3> HIDE DEF rows_to_go
    <3> QED
      BY <3>2, <1>6
  <2>5. /\ jpgPrep'.rows_to_go = rows_to_go
        /\ jpgPrep'.next_buf_row = IF full THEN 0 ELSE filled
        /\ jpgPrep'.next_buf_stop = jpgPrep.next_buf_stop
        /\ jpgPrep' \in [rows_to_go : Nat, next_buf_row : Nat,
                         this_row_group : Nat, next_buf_stop : Nat]
    <3> HIDE DEF full, filled, rows_to_go
    <3> QED
      BY <2>1, <2>2, <2>3, <1>5
  <2>6. /\ Counted' /\ Staged' /\ RowGroup' = RowGroup
        /\ total_iMCU_rows' = total_iMCU_rows
        /\ jpgMain'.cur_iMCU_row = cur
        /\ jpgMain'.rowgroup_ctr = rowgroup_ctr
        /\ jpgPlace' \in {"application", "prepare", "compress"}
        /\ jpgCall' \in [next_scanline : Nat, in_row_ctr : Nat,
                         in_rows_avail : Nat]
        /\ jpgMain' \in [cur_iMCU_row : 0..total_iMCU_rows,
                         rowgroup_ctr : 0..jpg.groups, suspended : BOOLEAN]
    <3>1. call = [jpgCall EXCEPT !.in_row_ctr = @ + numrows]
      BY DEF call
    <3>2. call.in_row_ctr >= 1
      BY <3>1, <2>2, <1>5
    <3>3. /\ jpgPrep'.rows_to_go = jpgPrep.rows_to_go - numrows
          /\ rowgroup_ctr = jpg.groups \/ jpgPrep.rows_to_go - numrows # 0
      BY <2>5
    <3> HIDE DEF rowgroup_ctr
    <3> QED
      BY <3>1, <3>2, <3>3, <2>1, <2>2, <2>4, <1>1, <1>8, PieceTaken
  <2>7. PrepTyped'
    BY <2>1, <2>3, <2>5, <2>6, <1>1, <1>4 DEF PrepTyped
  <2>8. rows_to_go = 0 => /\ RealGroups = GroupsDone + 1
                          /\ cur = total_iMCU_rows - 1
    <3>1. rows_to_go = 0 =>
            /\ filled \in 1..RowGroup
            /\ jpg.image_height = GroupsDone * RowGroup + filled
      <4> DEFINE P == GroupsDone * RowGroup
      <4>1. P \in Nat
        BY <1>6
      <4>2. filled >= 1
        BY <2>2, <1>5
      <4>3. jpg.image_height - rows_to_go = P + filled
        BY <2>3
      <4> HIDE DEF P, filled, rows_to_go
      <4>4. rows_to_go = 0 => filled \in 1..RowGroup
                              /\ jpg.image_height = P + filled
        BY <4>1, <4>2, <4>3, <2>2, <1>6
      <4> QED
        BY <4>4 DEF P
    <3> HIDE DEF rows_to_go, filled
    <3> QED
      BY <3>1, <1>4, <1>5, LastGroup
  <2>9. Prepping'
    <3>1. jpgPrep'.next_buf_stop = 2 * RowGroup
          /\ jpgPrep'.next_buf_row < RowGroup
      BY <2>2, <2>5, <1>4, <1>6 DEF WithoutContext
    <3>2. rows_to_go = 0 =>
            jpgPrep'.next_buf_row = 0 /\ rowgroup_ctr = jpg.groups
      BY <2>5
    <3>3. ASSUME rows_to_go > 0
          PROVE  /\ jpg.image_height - rows_to_go
                      = GroupsDone' * RowGroup + jpgPrep'.next_buf_row
                 /\ \A i \in 0..jpgPrep'.next_buf_row - 1 :
                      color_buf'[i] = GroupsDone' * RowGroup + i
      <4>1. CASE full
        <5>1. filled = RowGroup /\ rowgroup_ctr = rg + 1
              /\ jpgPrep'.next_buf_row = 0
          BY <4>1, <3>3, <2>3, <2>5
        <5>2. GroupsDone' = GroupsDone + 1
          BY <5>1, <2>6, <1>1, <1>4, GroupsAfter
        <5>3. (GroupsDone + 1) * RowGroup = GroupsDone * RowGroup + RowGroup
              /\ GroupsDone * RowGroup \in Nat
          BY <1>6
        <5> QED
          BY <5>1, <5>2, <5>3, <2>3, <1>6, SMTT(30)
      <4>2. CASE ~full
        <5>1. rowgroup_ctr = rg /\ jpgPrep'.next_buf_row = filled
          BY <4>2, <2>4, <2>5, <1>6
        <5>2. GroupsDone' = GroupsDone
          BY <5>1, <2>6, <1>1 DEF GroupsDone
        <5> QED
          BY <5>1, <5>2, <2>1, <2>3
      <4> QED
        BY <4>1, <4>2
    <3>4. WithoutContext'
      <4>1. jpg' = jpg
        BY <1>1
      <4> HIDE DEF rows_to_go, rowgroup_ctr
      <4> QED
        BY <3>1, <3>2, <3>3, <4>1, <2>3, <2>5, <2>6, <2>8, <1>6
          DEF WithoutContext
    <3> QED
      BY <3>4, <1>1 DEF Prepping
  <2>10. jpgBuffer' = FlattenSeq(Groups(cur, rowgroup_ctr))
    <3>1. jpgBuffer = FlattenSeq(Groups(cur, rg))
      BY <1>4 DEF Passed
    <3>2. full => made = FlattenSeq(Groups(cur, rg + 1))
      <4>1. FlattenSeq(Groups(cur, rg + 1))
              = FlattenSeq(Groups(cur, rg)) \o Wanted(cur * jpg.groups + rg)
        BY <1>4, <1>6, GroupAppended
      <4>2. GroupsDone = cur * jpg.groups + rg
        BY DEF GroupsDone
      <4>3. full => made = jpgBuffer \o Wanted(GroupsDone)
        BY <2>3 DEF made
      <4> QED
        BY <3>1, <4>1, <4>2, <4>3
    <3>3. CASE rows_to_go = 0
      <4>1. full /\ made = FlattenSeq(Groups(cur, rg + 1))
        BY <3>2, <3>3
      <4>2. cur * jpg.groups + (rg + 1) = RealGroups
            /\ rg + 1 \in Nat \ {0} /\ rg + 1 <= jpg.groups
        <5>1. GroupsDone = cur * jpg.groups + rg
          BY DEF GroupsDone
        <5>2. cur * jpg.groups \in Nat
          BY <1>6
        <5> QED
          BY <5>1, <5>2, <3>3, <2>8, <1>5, <1>6
      <4>3. FlattenSeq(Groups(cur, jpg.groups))
              = PaddedTo(jpg.groups * OutputRows, made)
        BY <4>1, <4>2, <1>1, <1>4, <1>6, GroupsPadded
      <4>4. height = jpg.groups * OutputRows
        <5>1. [k \in 1..RowGroup |-> 0] \in [1..RowGroup -> Int]
          OBVIOUS
        <5>2. Len(Downsampled([k \in 1..RowGroup |-> 0]))
                = IF jpg.reduced THEN 1 ELSE RowGroup
          BY <5>1, <1>6, DownsampledTyped
        <5>3. OutputRows = IF jpg.reduced THEN 1 ELSE RowGroup
          BY <1>1 DEF OutputRows
        <5> QED
          BY <5>2, <5>3 DEF height
      <4> QED
        BY <4>3, <4>4, <3>3, <2>1
    <3>4. CASE rows_to_go # 0
      <4>1. jpgBuffer' = made /\ rowgroup_ctr = counted
        BY <3>4, <2>1
      <4>2. CASE full
        BY <3>2, <4>1, <4>2
      <4>3. CASE ~full
        <5>1. made = jpgBuffer
          BY <4>3 DEF made
        <5>2. rowgroup_ctr = rg
          BY <4>1, <4>3, <1>6
        <5> QED
          BY <3>1, <4>1, <5>1, <5>2
      <4> QED
        BY <4>2, <4>3
    <3> QED
      BY <3>3, <3>4
  <2>11. Passed'
    BY <2>6, <2>10, <1>1, <1>4, PassedOn
  <2> QED
    BY <2>6, <2>7, <2>9, <2>11 DEF JpgInv
<1> QED
  BY <1>9, <1>10

-----------------------------------------------------------------------------
(* pre_process_context: the places in the buffer *)

(* How often the buffer has gone round when the group after the next one   *)
(* is filled, and the rows of the image that passed it by then. *)
Turn == (GroupsDone + 1) \div 3
TurnRows == 3 * RowGroup * Turn

(* The rows in the buffer: this turn's up to filled, those of the turn     *)
(* before from stop. *)
LoadedAs(buf, base, filled, stop) ==
  /\ \A i \in 0..filled - 1 : buf[i] = ImageRow(base + i)
  /\ \A i \in stop..3 * RowGroup - 1 :
       buf[i] = ImageRow(base + i - 3 * RowGroup)

(* The rows from first, up to the one before last, are where they belong. *)
InPlace(buf, first, last) ==
  \A r \in first..last - 1 :
    buf[(r + 3 * RowGroup) % (3 * RowGroup)] = ImageRow(r)

LEMMA PlaceInBuffer ==
  ASSUME RowGroup \in Nat \ {0}, NEW d \in Nat,
         NEW j \in Int, -(3 * RowGroup) <= j, j < 3 * RowGroup
  PROVE  (3 * RowGroup * d + j + 3 * RowGroup) % (3 * RowGroup)
           = IF j >= 0 THEN j ELSE j + 3 * RowGroup
<1> DEFINE W == 3 * RowGroup
<1>1. W \in Nat \ {0} /\ -W <= j /\ j < W
  OBVIOUS
<1> HIDE DEF W
<1>2. CASE j >= 0
  <2>1. W * d + j + W \in Nat /\ j \in 0..W - 1 /\ d + 1 \in Nat
        /\ W * d + j + W = W * (d + 1) + j
    BY <1>1, <1>2
  <2>2. (W * d + j + W) % W = j
    BY <2>1, <1>1, ModUnique
  <2> QED
    BY <2>2, <1>2 DEF W
<1>3. CASE j < 0
  <2>1. W * d + j + W \in Nat /\ j + W \in 0..W - 1
        /\ W * d + j + W = W * d + (j + W)
    BY <1>1, <1>3
  <2>2. (W * d + j + W) % W = j + W
    BY <2>1, <1>1, ModUnique
  <2> QED
    BY <2>2, <1>3 DEF W
<1> QED
  BY <1>2, <1>3

LEMMA TurnOf ==
  ASSUME NEW n \in Nat
  PROVE  /\ (n + 1) \div 3 \in Nat /\ (n + 1) % 3 \in 0..2
         /\ n + 1 = 3 * ((n + 1) \div 3) + ((n + 1) % 3)
         /\ n % 3 = IF (n + 1) % 3 = 0 THEN 2 ELSE ((n + 1) % 3) - 1
         /\ (n + 2) % 3 = IF (n + 1) % 3 = 2 THEN 0 ELSE ((n + 1) % 3) + 1
         /\ (n + 2) \div 3 = IF (n + 1) % 3 = 2 THEN ((n + 1) \div 3) + 1
                             ELSE (n + 1) \div 3
OBVIOUS

LEMMA ContextPlaces ==
  ASSUME PrepTyped, WithContext
  PROVE  /\ Turn \in Nat /\ TurnRows \in Nat /\ RowGroup \in Nat \ {0}
         /\ TurnRows = 3 * RowGroup * Turn
         /\ jpgPrep.next_buf_row \in Nat /\ jpgPrep.next_buf_stop \in Nat
         /\ jpgPrep.next_buf_row < jpgPrep.next_buf_stop
         /\ jpgPrep.next_buf_stop \in {RowGroup, 2 * RowGroup, 3 * RowGroup}
         /\ GroupsDone * RowGroup
              = TurnRows + jpgPrep.next_buf_stop - 2 * RowGroup
         /\ RowsLoaded = TurnRows + jpgPrep.next_buf_row
         /\ jpgPrep.this_row_group
              = IF jpgPrep.next_buf_stop = RowGroup THEN 2 * RowGroup
                ELSE jpgPrep.next_buf_stop - 2 * RowGroup
         /\ GroupsDone = 0 =>
              TurnRows = 0 /\ jpgPrep.next_buf_stop = 2 * RowGroup
         /\ GroupsDone # 0 =>
              jpgPrep.next_buf_stop <= jpgPrep.next_buf_row + RowGroup
         /\ GroupsDone \in Nat
<1> DEFINE V == RowGroup
           N == GroupsDone
           m == (GroupsDone + 1) % 3
           stop == jpgPrep.next_buf_stop
           nbr == jpgPrep.next_buf_row
<1>1. V \in Nat \ {0} /\ N \in Nat /\ nbr \in Nat /\ stop \in Nat
  BY PrepFacts DEF PrepTyped
<1>2. /\ Turn \in Nat /\ m \in 0..2 /\ N + 1 = 3 * Turn + m
      /\ N % 3 = IF m = 0 THEN 2 ELSE m - 1
  BY <1>1, TurnOf DEF Turn
<1>3. /\ jpgPrep.this_row_group = (N % 3) * V /\ stop = m * V + V
      /\ nbr < stop /\ (N > 0 => stop <= nbr + V)
  BY DEF WithContext
<1>4. TurnRows = 3 * V * Turn /\ RowsLoaded = N * V + 2 * V + nbr - stop
  BY DEF TurnRows, RowsLoaded
<1> HIDE DEF V, N, m, stop, nbr
<1>5. TurnRows \in Nat
  BY <1>1, <1>2, <1>4
<1>6. m * V = IF m = 0 THEN 0 ELSE IF m = 1 THEN V ELSE 2 * V
  BY <1>1, <1>2
<1>7. N * V = TurnRows + m * V - V
  <2>1. (N + 1) * V = N * V + V /\ N * V \in Int
    BY <1>1
  <2>2. (3 * Turn + m) * V = 3 * V * Turn + m * V /\ m * V \in Int
    BY <1>1, <1>2
  <2> QED
    BY <2>1, <2>2, <1>1, <1>2, <1>4, <1>5
<1>8. N * V = TurnRows + stop - 2 * V /\ stop \in {V, 2 * V, 3 * V}
  BY <1>1, <1>2, <1>3, <1>5, <1>6, <1>7
<1>9. RowsLoaded = TurnRows + nbr
  BY <1>1, <1>4, <1>5, <1>8
<1>10. jpgPrep.this_row_group = IF stop = V THEN 2 * V ELSE stop - 2 * V
  <2>1. (N % 3) * V = IF m = 0 THEN 2 * V ELSE IF m = 1 THEN 0 ELSE V
    BY <1>1, <1>2
  <2> QED
    BY <2>1, <1>1, <1>2, <1>3, <1>6
<1>11. N = 0 => TurnRows = 0 /\ stop = 2 * V
  <2> SUFFICES ASSUME N = 0 PROVE TurnRows = 0 /\ stop = 2 * V
    OBVIOUS
  <2>1. Turn = 0 /\ m = 1
    BY <1>2
  <2> QED
    BY <2>1, <1>1, <1>3, <1>4
<1> QED
  BY <1>1, <1>2, <1>3, <1>4, <1>5, <1>8, <1>9, <1>10, <1>11
    DEF V, N, stop, nbr

(* The window of the invariant, place by place *)
LEMMA ContextWindow ==
  ASSUME RowGroup \in Nat \ {0}, NEW d \in Nat, NEW base \in Nat,
         base = 3 * RowGroup * d, NEW buf,
         NEW stop \in 0..3 * RowGroup, NEW filled \in 0..stop
  PROVE  LoadedAs(buf, base, filled, stop) <=>
           InPlace(buf, base + stop - 3 * RowGroup, base + filled)
<1> DEFINE W == 3 * RowGroup
<1>1. W \in Nat \ {0} /\ stop \in 0..W /\ filled \in 0..stop
  OBVIOUS
<1>2. \A j \in Int : -W <= j /\ j < W =>
        (base + j + W) % W = IF j >= 0 THEN j ELSE j + W
  BY PlaceInBuffer
<1>3. LoadedAs(buf, base, filled, stop) <=>
        /\ \A i \in 0..filled - 1 : buf[i] = ImageRow(base + i)
        /\ \A i \in stop..W - 1 : buf[i] = ImageRow(base + i - W)
  BY DEF LoadedAs
<1> HIDE DEF W
<1>4. ASSUME \A i \in 0..filled - 1 : buf[i] = ImageRow(base + i),
             \A i \in stop..W - 1 : buf[i] = ImageRow(base + i - W),
             NEW r \in base + stop - W..base + filled - 1
      PROVE  buf[(r + W) % W] = ImageRow(r)
  <2> DEFINE j == r - base
  <2>1. j \in Int /\ -W <= j /\ j < W /\ base + j = r
        /\ j >= stop - W /\ j <= filled - 1
    BY <1>1
  <2> HIDE DEF j
  <2>2. (r + W) % W = IF j >= 0 THEN j ELSE j + W
    BY <2>1, <1>2
  <2>3. CASE j >= 0
    BY <2>1, <2>2, <2>3, <1>1, <1>4
  <2>4. CASE j < 0
    <3> DEFINE i == j + W
    <3>1. i \in stop..W - 1 /\ base + i - W = r
      BY <2>1, <2>4, <1>1
    <3>2. (r + W) % W = i
      BY <2>2, <2>1, <2>4
    <3> HIDE DEF i
    <3>3. buf[i] = ImageRow(base + i - W)
      BY <3>1, <1>4
    <3> QED
      BY <3>1, <3>2, <3>3
  <2> QED
    BY <2>1, <2>3, <2>4
<1>5. ASSUME \A r \in base + stop - W..base + filled - 1 :
               buf[(r + W) % W] = ImageRow(r)
      PROVE  /\ \A i \in 0..filled - 1 : buf[i] = ImageRow(base + i)
             /\ \A i \in stop..W - 1 : buf[i] = ImageRow(base + i - W)
  <2>1. ASSUME NEW i \in 0..filled - 1 PROVE buf[i] = ImageRow(base + i)
    <3>1. base + i \in base + stop - W..base + filled - 1
          /\ i \in Int /\ -W <= i /\ i < W /\ i >= 0
      BY <1>1
    <3>2. (base + i + W) % W = i
      BY <3>1, <1>2
    <3> QED
      BY <3>1, <3>2, <1>5
  <2>2. ASSUME NEW i \in stop..W - 1 PROVE buf[i] = ImageRow(base + i - W)
    <3> DEFINE j == i - W
    <3>1. base + j \in base + stop - W..base + filled - 1
          /\ j \in Int /\ -W <= j /\ j < W /\ ~(j >= 0)
          /\ j + W = i /\ base + j = base + i - W
      BY <1>1
    <3> HIDE DEF j
    <3>2. (base + j + W) % W = i
      BY <3>1, <1>2
    <3>3. buf[(base + j + W) % W] = ImageRow(base + j)
      BY <3>1, <1>5
    <3> QED
      BY <3>1, <3>2, <3>3
  <2> QED
    BY <2>1, <2>2
<1>6. InPlace(buf, base + stop - W, base + filled) <=>
        \A r \in base + stop - W..base + filled - 1 :
          buf[(r + W) % W] = ImageRow(r)
  BY DEF InPlace, W
<1> QED
  BY <1>3, <1>4, <1>5, <1>6 DEF W

(* The buffer before the step *)
LEMMA ContextBefore ==
  ASSUME PrepTyped, WithContext
  PROVE  RowsLoaded > 0 => LoadedAs(color_buf, TurnRows,
                             jpgPrep.next_buf_row, jpgPrep.next_buf_stop)
<1> DEFINE stop == jpgPrep.next_buf_stop
           nbr == jpgPrep.next_buf_row
           W == 3 * RowGroup
<1>1. /\ Turn \in Nat /\ TurnRows \in Nat /\ RowGroup \in Nat \ {0}
      /\ TurnRows = 3 * RowGroup * Turn
      /\ stop \in 0..3 * RowGroup /\ nbr \in 0..stop
      /\ GroupsDone * RowGroup = TurnRows + stop - 2 * RowGroup
      /\ RowsLoaded = TurnRows + nbr
      /\ GroupsDone \in Nat
  <2>1. /\ Turn \in Nat /\ TurnRows \in Nat /\ RowGroup \in Nat \ {0}
        /\ TurnRows = 3 * RowGroup * Turn
        /\ nbr \in Nat /\ stop \in Nat /\ nbr < stop
        /\ stop \in {RowGroup, 2 * RowGroup, 3 * RowGroup}
        /\ GroupsDone * RowGroup = TurnRows + stop - 2 * RowGroup
        /\ RowsLoaded = TurnRows + nbr
        /\ GroupsDone \in Nat
    BY ContextPlaces
  <2> QED
    BY <2>1
<1>2. (GroupsDone - 1) * RowGroup = TurnRows + stop - W
  <2>1. (GroupsDone - 1) * RowGroup = GroupsDone * RowGroup - RowGroup
    BY <1>1
  <2> QED
    BY <2>1, <1>1
<1>3. RowsLoaded > 0 =>
        InPlace(color_buf, TurnRows + stop - W, TurnRows + nbr)
  BY <1>1, <1>2 DEF WithContext, InPlace
<1> QED
  BY <1>1, <1>3, ContextWindow

(* The rows of the piece go into the buffer; the first of all of them goes *)
(* above it as well. *)
LEMMA ContextMore ==
  ASSUME JpgInv, jpgPlace = "prepare", jpg.need_context_rows,
         NEW numrows \in Nat \ {0},
         numrows <= jpgPrep.next_buf_stop - jpgPrep.next_buf_row,
         numrows <= jpgCall.in_rows_avail - jpgCall.in_row_ctr,
         NEW filled \in Nat, filled = jpgPrep.next_buf_row + numrows,
         NEW buf, buf = TopPadded(Converted(numrows))
  PROVE  /\ buf \in [0..3 * RowGroup - 1 -> Int]
         /\ LoadedAs(buf, TurnRows, filled, jpgPrep.next_buf_stop)
         /\ jpgPrep.rows_to_go - numrows \in Nat
         /\ TurnRows + filled = jpg.image_height
                                  - (jpgPrep.rows_to_go - numrows)
<1> DEFINE V == RowGroup
           W == 3 * RowGroup
           H == jpg.image_height
           nbr == jpgPrep.next_buf_row
           stop == jpgPrep.next_buf_stop
           conv == Converted(numrows)
           I == 0..3 * V - 1
           b == TurnRows
<1>1. /\ jpgCall.next_scanline + jpgCall.in_row_ctr
           = H - jpgPrep.rows_to_go
      /\ jpgCall.in_rows_avail - jpgCall.in_row_ctr <= jpgPrep.rows_to_go
      /\ jpgPrep.rows_to_go \in Nat
      /\ jpgCall.in_rows_avail \in Nat /\ jpgCall.in_row_ctr \in Nat
  BY PieceLeft
<1>2. PrepTyped /\ WithContext
  BY DEF JpgInv, Prepping
<1>3. /\ V \in Nat \ {0} /\ b \in Nat /\ nbr \in Nat /\ stop \in Nat
      /\ nbr < stop /\ stop \in {V, 2 * V, 3 * V}
      /\ RowsLoaded = b + nbr
      /\ GroupsDone = 0 => b = 0 /\ stop = 2 * V
      /\ GroupsDone # 0 => stop <= nbr + V
      /\ GroupsDone * V = b + stop - 2 * V
      /\ GroupsDone \in Nat
  BY <1>2, ContextPlaces
<1>4. H \in Nat \ {0}
  BY <1>2, PrepFacts
<1>5. jpgPrep.rows_to_go - numrows \in Nat /\ jpgPrep.rows_to_go > 0
  BY <1>1
<1>6. b + nbr = H - jpgPrep.rows_to_go
  BY <1>2, <1>3, <1>5 DEF WithContext
<1>7. conv \in [I -> Int]
      /\ \A i \in I : conv[i]
           = IF i \in nbr..nbr + numrows - 1
             THEN jpgCall.next_scanline + jpgCall.in_row_ctr + i - nbr
             ELSE color_buf[i]
  BY <1>2, ConvertedIs
<1>8. b + nbr > 0 => LoadedAs(color_buf, b, nbr, stop)
  BY <1>2, <1>3, ContextBefore
<1>9. buf = IF jpgPrep.rows_to_go = H
            THEN [i \in I |-> IF i >= 2 * V THEN conv[0] ELSE conv[i]]
            ELSE conv
  <2>1. DOMAIN conv = I
    BY <1>7
  <2> QED
    BY <2>1 DEF TopPadded, V, H, conv
<1>10. filled = nbr + numrows /\ filled <= stop
  BY <1>3
<1>11. LoadedAs(color_buf, b, nbr, stop) <=>
         /\ \A i \in 0..nbr - 1 : color_buf[i] = ImageRow(b + i)
         /\ \A i \in stop..W - 1 : color_buf[i] = ImageRow(b + i - W)
  BY DEF LoadedAs
<1>12. LoadedAs(buf, b, filled, stop) <=>
         /\ \A i \in 0..filled - 1 : buf[i] = ImageRow(b + i)
         /\ \A i \in stop..W - 1 : buf[i] = ImageRow(b + i - W)
  BY DEF LoadedAs
<1> DEFINE here == jpgCall.next_scanline + jpgCall.in_row_ctr
<1>13. here = b + nbr
  BY <1>1, <1>6
<1>14. \A i \in I : conv[i] = IF i \in nbr..filled - 1
                              THEN here + i - nbr ELSE color_buf[i]
  <2>1. nbr..filled - 1 = nbr..nbr + numrows - 1
    BY <1>3, <1>10
  <2> HIDE DEF I, conv
  <2> QED
    BY <2>1, <1>7
<1> HIDE DEF V, H, nbr, stop, conv, b, here, W
<1>15. ASSUME NEW i \in 0..filled - 1
       PROVE  i \in I /\ conv[i] = ImageRow(b + i)
  <2>1. i \in I
    BY <1>3, <1>10
  <2>2. CASE i < nbr
    <3>1. i \in 0..nbr - 1 /\ i \notin nbr..filled - 1 /\ b + nbr > 0
      BY <2>2, <1>3
    <3> QED
      BY <2>1, <3>1, <1>8, <1>11, <1>14
  <2>3. CASE ~(i < nbr)
    <3>1. i \in nbr..filled - 1 /\ here + i - nbr = b + i
          /\ b + i \in Int /\ 0 <= b + i /\ b + i <= H - 1
      <4>1. i \in Int /\ nbr <= i /\ i <= filled - 1
        BY <2>3, <1>3
      <4>2. i \in nbr..filled - 1 /\ here + i - nbr = b + i
        BY <4>1, <1>3, <1>13
      <4>3. b + nbr = H - jpgPrep.rows_to_go /\ numrows <= jpgPrep.rows_to_go
        BY <1>1, <1>5, <1>6
      <4>4. b + i <= H - 1
        BY <4>1, <4>3, <1>1, <1>3, <1>4, <1>10
      <4> QED
        BY <4>1, <4>2, <4>4, <1>3
    <3>2. ImageRow(b + i) = b + i
      BY <3>1, <1>4, ImageRowIs DEF H
    <3> QED
      BY <2>1, <3>1, <3>2, <1>14
  <2> QED
    BY <2>1, <2>2, <2>3
<1>16. buf \in [I -> Int]
  <2>1. 0 \in I
    BY <1>3
  <2> HIDE DEF I
  <2>2. conv[0] \in Int
    BY <2>1, <1>7
  <2> QED
    BY <2>2, <1>7, <1>9
<1>17. LoadedAs(buf, b, filled, stop)
  <2>1. CASE jpgPrep.rows_to_go = H
    <3>1. b = 0 /\ nbr = 0 /\ stop = 2 * V
      <4>1. b = 0 /\ nbr = 0
        BY <2>1, <1>3, <1>4, <1>6
      <4>2. GroupsDone = 0
        <5>1. GroupsDone * V = stop - 2 * V
          BY <4>1, <1>3
        <5>2. GroupsDone # 0 => stop <= V
          BY <4>1, <1>3
        <5>3. GroupsDone # 0 => GroupsDone * V >= V
          BY <1>3
        <5> QED
          BY <5>1, <5>2, <5>3, <1>3
      <4> QED
        BY <4>1, <4>2, <1>3
    <3>2. \A i \in I : buf[i] = IF i >= 2 * V THEN conv[0] ELSE conv[i]
      BY <2>1, <1>9
    <3>3. ASSUME NEW i \in 0..filled - 1 PROVE buf[i] = ImageRow(b + i)
      <4>1. ~(i >= 2 * V)
        BY <3>1, <1>3, <1>10
      <4> QED
        BY <4>1, <3>2, <1>15
    <3>4. ASSUME NEW i \in stop..W - 1 PROVE buf[i] = ImageRow(b + i - W)
      <4>1. i \in I /\ i >= 2 * V /\ 0 \in 0..filled - 1
            /\ b + i - W \in Int /\ b + i - W < 0
        BY <3>1, <1>3, <1>10 DEF W, V
      <4>2. buf[i] = ImageRow(b + 0)
        BY <4>1, <3>2, <1>15
      <4>3. ImageRow(b + 0) = 0
        BY <3>1, <1>4, ImageRowIs DEF H
      <4>4. ImageRow(b + i - W) = 0
        BY <4>1, <1>4, ImageRowIs DEF H
      <4> QED
        BY <4>2, <4>3, <4>4
    <3> QED
      BY <3>3, <3>4, <1>12
  <2>2. CASE jpgPrep.rows_to_go # H
    <3>1. buf = conv /\ b + nbr > 0
      <4>1. buf = conv
        BY <2>2, <1>9
      <4>2. b + nbr > 0
        BY <2>2, <1>1, <1>3, <1>4, <1>6
      <4> QED
        BY <4>1, <4>2
    <3>2. ASSUME NEW i \in stop..W - 1 PROVE buf[i] = ImageRow(b + i - W)
      <4>1. i \in I /\ i \notin nbr..filled - 1
        BY <1>3, <1>10 DEF W, V
      <4> QED
        BY <4>1, <3>1, <1>8, <1>11, <1>14
    <3> QED
      BY <3>1, <3>2, <1>12, <1>15
  <2> QED
    BY <2>1, <2>2
<1>18. b + filled = H - (jpgPrep.rows_to_go - numrows)
  BY <1>1, <1>3, <1>4, <1>6, <1>10
<1> QED
  BY <1>5, <1>16, <1>17, <1>18 DEF I, V, b, H, stop

(* All rows are in: the last one is repeated to the end of the group. *)
LEMMA ContextPadded ==
  ASSUME PrepTyped, WithContext, jpgPrep.rows_to_go = 0,
         NEW buf, buf = expand_bottom_edge(color_buf, jpgPrep.next_buf_row,
                                           jpgPrep.next_buf_stop)
  PROVE  /\ buf \in [0..3 * RowGroup - 1 -> Int]
         /\ LoadedAs(buf, TurnRows, jpgPrep.next_buf_stop,
                     jpgPrep.next_buf_stop)
         /\ TurnRows + jpgPrep.next_buf_stop >= jpg.image_height
<1> DEFINE V == RowGroup
           W == 3 * RowGroup
           H == jpg.image_height
           nbr == jpgPrep.next_buf_row
           stop == jpgPrep.next_buf_stop
           I == 0..W - 1
           b == TurnRows
           p == (nbr - 1 + W) % W
<1>1. /\ V \in Nat \ {0} /\ b \in Nat /\ nbr \in Nat /\ stop \in Nat
      /\ nbr < stop /\ stop \in {V, 2 * V, 3 * V}
      /\ RowsLoaded = b + nbr
      /\ GroupsDone = 0 => b = 0 /\ stop = 2 * V
      /\ GroupsDone # 0 => stop <= nbr + V
      /\ GroupsDone \in Nat
  BY ContextPlaces
<1>2. H \in Nat \ {0} /\ color_buf \in [I -> Int]
  BY PrepFacts DEF PrepTyped
<1>3. b + nbr >= H
  BY <1>1, <1>2 DEF WithContext
<1>4. LoadedAs(color_buf, b, nbr, stop)
  BY <1>1, <1>2, <1>3, ContextBefore
<1>5. /\ \A i \in 0..nbr - 1 : color_buf[i] = ImageRow(b + i)
      /\ \A i \in stop..W - 1 : color_buf[i] = ImageRow(b + i - W)
  BY <1>4 DEF LoadedAs
<1>6. LoadedAs(buf, b, stop, stop) <=>
         /\ \A i \in 0..stop - 1 : buf[i] = ImageRow(b + i)
         /\ \A i \in stop..W - 1 : buf[i] = ImageRow(b + i - W)
  BY DEF LoadedAs
<1>7. buf = [i \in I |-> IF i \in nbr..stop - 1 THEN color_buf[p]
                         ELSE color_buf[i]]
  <2>1. DOMAIN color_buf = I
    BY <1>2
  <2> HIDE DEF I
  <2> QED
    BY <2>1 DEF expand_bottom_edge, RowAt
<1>8. p = IF nbr = 0 THEN W - 1 ELSE nbr - 1
  <2> DEFINE j == nbr - 1
  <2>1. /\ RowGroup \in Nat \ {0} /\ W = 3 * RowGroup /\ W \in Nat
        /\ j \in Int /\ -(3 * RowGroup) <= j /\ j < 3 * RowGroup
    BY <1>1
  <2>2. j >= 0 <=> nbr # 0
    BY <1>1
  <2> HIDE DEF W, j
  <2>3. 0 \in Nat /\ 3 * RowGroup * 0 = 0
    BY <2>1
  <2>4. (3 * RowGroup * 0 + j + 3 * RowGroup) % (3 * RowGroup)
          = IF j >= 0 THEN j ELSE j + 3 * RowGroup
    BY <2>1, <2>3, PlaceInBuffer
  <2>5. 3 * RowGroup * 0 + j + 3 * RowGroup = j + W
    BY <2>1, <2>3
  <2>6. (j + W) % W = IF j >= 0 THEN j ELSE j + W
    BY <2>1, <2>4, <2>5
  <2>7. p = IF j >= 0 THEN j ELSE j + W
    BY <2>6 DEF j
  <2>8. nbr = 0 => j + W = W - 1
    BY <2>1 DEF j
  <2>9. j = nbr - 1
    BY DEF j
  <2> HIDE DEF p
  <2> QED
    BY <2>2, <2>7, <2>8, <2>9
<1>9. color_buf[p] = ImageRow(b + nbr - 1) /\ p \in I
  <2>1. CASE nbr = 0
    <3>1. stop <= W - 1 /\ b + (W - 1) - W = b + nbr - 1
      BY <2>1, <1>1
    <3>2. p = W - 1 /\ W - 1 \in stop..W - 1
      BY <3>1, <2>1, <1>1, <1>8
    <3> HIDE DEF W, p
    <3>3. color_buf[p] = ImageRow(b + (W - 1) - W)
      BY <3>2, <1>5
    <3>4. p \in I
      BY <3>2, <1>1
    <3> QED
      BY <3>1, <3>3, <3>4
  <2>2. CASE nbr # 0
    <3>1. p = nbr - 1 /\ nbr - 1 \in 0..nbr - 1 /\ nbr - 1 \in I
          /\ b + (nbr - 1) = b + nbr - 1
      BY <2>2, <1>1, <1>8
    <3> HIDE DEF p, I
    <3> QED
      BY <3>1, <1>5
  <2> QED
    BY <2>1, <2>2
<1> HIDE DEF V, H, nbr, stop, b, p
<1>10. color_buf[p] = H - 1
  <2>1. b + nbr - 1 \in Int /\ ~(b + nbr - 1 < 0)
        /\ b + nbr - 1 >= H - 1
    BY <1>1, <1>2, <1>3
  <2>2. ImageRow(b + nbr - 1) = H - 1
    BY <2>1, <1>2, ImageRowIs DEF H
  <2> QED
    BY <2>2, <1>9
<1>11. buf \in [I -> Int]
  BY <1>2, <1>7, <1>9
<1>12. ASSUME NEW i \in 0..stop - 1 PROVE buf[i] = ImageRow(b + i)
  <2>1. i \in I /\ b + i \in Int /\ b + i >= 0
    BY <1>1 DEF V
  <2>2. CASE i < nbr
    <3>1. i \in 0..nbr - 1 /\ i \notin nbr..stop - 1
      BY <2>2, <1>1
    <3> QED
      BY <2>1, <3>1, <1>5, <1>7
  <2>3. CASE ~(i < nbr)
    <3>1. i \in nbr..stop - 1 /\ b + i > H - 1
      BY <2>3, <1>1, <1>2, <1>3
    <3>2. ImageRow(b + i) = H - 1
      BY <2>1, <3>1, <1>2, ImageRowIs DEF H
    <3> QED
      BY <2>1, <3>1, <3>2, <1>7, <1>10
  <2> QED
    BY <2>2, <2>3
<1>13. ASSUME NEW i \in stop..W - 1 PROVE buf[i] = ImageRow(b + i - W)
  <2>1. i \in I /\ i \notin nbr..stop - 1
    BY <1>1 DEF V
  <2> QED
    BY <2>1, <1>5, <1>7
<1>14. b + stop >= H
  BY <1>1, <1>2, <1>3
<1> QED
  BY <1>6, <1>11, <1>12, <1>13, <1>14 DEF b, stop, H

(* What the downsampler is shown, when the group below is filled *)
LEMMA ContextMade ==
  ASSUME PrepTyped, WithContext, jpg.need_context_rows, NEW buf,
         LoadedAs(buf, TurnRows, jpgPrep.next_buf_stop, jpgPrep.next_buf_stop)
  PROVE  <<InContext(buf, jpgPrep.this_row_group)>> = Wanted(GroupsDone)
<1> DEFINE V == RowGroup
           W == 3 * RowGroup
           stop == jpgPrep.next_buf_stop
           first == jpgPrep.this_row_group
           b == TurnRows
<1>1. /\ V \in Nat \ {0} /\ b \in Nat /\ stop \in Nat
      /\ stop \in {V, 2 * V, 3 * V} /\ Turn \in Nat
      /\ b = 3 * RowGroup * Turn
      /\ GroupsDone * V = b + stop - 2 * V /\ GroupsDone \in Nat
      /\ first = IF stop = V THEN 2 * V ELSE stop - 2 * V
  BY ContextPlaces
<1>2. stop \in 0..3 * RowGroup /\ stop \in 0..stop
  BY <1>1
<1>3. \A r \in b + stop - W..b + stop - 1 : buf[(r + W) % W] = ImageRow(r)
  <2>1. InPlace(buf, b + stop - 3 * RowGroup, b + stop)
    BY <1>1, <1>2, ContextWindow
  <2> HIDE DEF b, stop
  <2> QED
    BY <2>1, <1>1 DEF InPlace
<1>4. (GroupsDone - 1) * V = b + stop - W
  <2> DEFINE P == GroupsDone * V
  <2>1. (GroupsDone - 1) * V = P - V
    BY <1>1
  <2>2. P = b + stop - 2 * V
    BY <1>1
  <2> HIDE DEF P
  <2> QED
    BY <2>1, <2>2, <1>1
<1>5. ASSUME NEW k \in 1..W
      PROVE  RowAt(buf, first - V + k - 1)
               = ImageRow((GroupsDone - 1) * V + k - 1)
  <2> DEFINE j == stop - W + k - 1
  <2>1. /\ j \in Int /\ -W <= j /\ j < W
        /\ b + j \in b + stop - W..b + stop - 1
        /\ (GroupsDone - 1) * V + k - 1 = b + j
        /\ first - V + k - 1 + W = IF stop = V THEN j + W + W ELSE j + W
    BY <1>1, <1>4
  <2>2. RowGroup \in Nat \ {0} /\ W = 3 * RowGroup /\ W \in Nat
    BY <1>1
  <2> HIDE DEF j, W
  <2>3. \A d \in Nat : (3 * RowGroup * d + j + 3 * RowGroup) % (3 * RowGroup)
                         = IF j >= 0 THEN j ELSE j + 3 * RowGroup
    BY <2>1, <2>2, PlaceInBuffer
  <2>4. 3 * RowGroup * 0 = 0 /\ 3 * RowGroup * 1 = W
    BY <2>2
  <2>5. (j + W) % W = IF j >= 0 THEN j ELSE j + W
    <3>1. 3 * RowGroup * 0 + j + 3 * RowGroup = j + W
      BY <2>1, <2>2, <2>4
    <3> QED
      BY <3>1, <2>2, <2>3
  <2>6. (j + W + W) % W = IF j >= 0 THEN j ELSE j + W
    <3>1. 3 * RowGroup * 1 + j + 3 * RowGroup = j + W + W
      BY <2>1, <2>2, <2>4
    <3> QED
      BY <3>1, <2>2, <2>3
  <2>7. (b + j + W) % W = IF j >= 0 THEN j ELSE j + W
    BY <2>2, <2>3, <1>1
  <2>8. (first - V + k - 1 + W) % W = (b + j + W) % W
    BY <2>1, <2>5, <2>6, <2>7
  <2>9. RowAt(buf, first - V + k - 1) = buf[(first - V + k - 1 + W) % W]
    BY DEF RowAt, W
  <2> QED
    BY <2>1, <2>8, <2>9, <1>3
<1>6. InContext(buf, first)
        = [k \in 1..W |-> ImageRow((GroupsDone - 1) * V + k - 1)]
  BY <1>5 DEF InContext
<1> QED
  BY <1>6 DEF Wanted

(* All rows up to the n-th are taken, t are left; or more than all. *)
RowsIn(n, t) ==
  IF t > 0 THEN n = jpg.image_height - t ELSE n >= jpg.image_height

LEMMA ContextGrows ==
  ASSUME PrepTyped, WithContext, UNCHANGED jpg, GroupsDone' = GroupsDone,
         NEW filled \in Nat, jpgPrep.next_buf_row <= filled,
         filled < jpgPrep.next_buf_stop,
         LoadedAs(color_buf', TurnRows, filled, jpgPrep.next_buf_stop),
         jpgPrep'.this_row_group = jpgPrep.this_row_group,
         jpgPrep'.next_buf_stop = jpgPrep.next_buf_stop,
         jpgPrep'.next_buf_row = filled,
         RowsIn(TurnRows + filled, jpgPrep'.rows_to_go)
  PROVE  WithContext'
<1> DEFINE V == RowGroup
           W == 3 * RowGroup
           stop == jpgPrep.next_buf_stop
           b == TurnRows
<1>1. /\ V \in Nat \ {0} /\ b \in Nat /\ stop \in Nat
      /\ stop \in {V, 2 * V, 3 * V} /\ Turn \in Nat
      /\ b = 3 * RowGroup * Turn
      /\ GroupsDone * V = b + stop - 2 * V /\ GroupsDone \in Nat
      /\ GroupsDone # 0 => stop <= jpgPrep.next_buf_row + V
      /\ jpgPrep.next_buf_row \in Nat
  BY ContextPlaces
<1>2. stop \in 0..3 * RowGroup /\ filled \in 0..stop
  <2>1. filled < stop
    OBVIOUS
  <2> HIDE DEF stop
  <2> QED
    BY <2>1, <1>1
<1>3. InPlace(color_buf', b + stop - W, b + filled)
  BY <1>1, <1>2, ContextWindow
<1>4. (GroupsDone - 1) * V = b + stop - W
  <2> DEFINE P == GroupsDone * V
  <2>1. (GroupsDone - 1) * V = P - V
    BY <1>1
  <2>2. P = b + stop - 2 * V
    BY <1>1
  <2> HIDE DEF P
  <2> QED
    BY <2>1, <2>2, <1>1
<1>5. RowGroup' = RowGroup /\ \A r : ImageRow(r)' = ImageRow(r)
  BY DEF RowGroup, ImageRow
<1>6. RowsLoaded' = b + filled
  <2>1. RowsLoaded' = GroupsDone * V + 2 * V + filled - stop
    BY <1>5 DEF RowsLoaded
  <2> QED
    BY <2>1, <1>1
<1>7. /\ jpgPrep'.this_row_group = (GroupsDone % 3) * RowGroup
      /\ jpgPrep'.next_buf_stop = ((GroupsDone + 1) % 3) * RowGroup + RowGroup
  BY DEF WithContext
<1>8. GroupsDone > 0 => jpgPrep'.next_buf_stop <= jpgPrep'.next_buf_row + V
  BY <1>1
<1>9. IF jpgPrep'.rows_to_go > 0
      THEN RowsLoaded' = jpg.image_height - jpgPrep'.rows_to_go
      ELSE RowsLoaded' >= jpg.image_height
  BY <1>6 DEF RowsIn
<1>10. \A r \in (GroupsDone - 1) * V..RowsLoaded' - 1 :
         color_buf'[(r + W) % W] = ImageRow(r)
  <2>1. InPlace(color_buf', (GroupsDone - 1) * V, RowsLoaded')
    BY <1>3, <1>4, <1>6
  <2> QED
    BY <2>1 DEF InPlace
<1> QED
  BY <1>5, <1>7, <1>8, <1>9, <1>10 DEF WithContext

LEMMA ContextGoesRound ==
  ASSUME PrepTyped, WithContext, UNCHANGED jpg, GroupsDone' = GroupsDone + 1,
         LoadedAs(color_buf', TurnRows, jpgPrep.next_buf_stop,
                  jpgPrep.next_buf_stop),
         jpgPrep'.next_buf_row = IF jpgPrep.next_buf_stop >= 3 * RowGroup
                                 THEN 0 ELSE jpgPrep.next_buf_stop,
         jpgPrep'.this_row_group =
           IF jpgPrep.this_row_group + RowGroup >= 3 * RowGroup
           THEN 0 ELSE jpgPrep.this_row_group + RowGroup,
         jpgPrep'.next_buf_stop = jpgPrep'.next_buf_row + RowGroup,
         RowsIn(TurnRows + jpgPrep.next_buf_stop, jpgPrep'.rows_to_go)
  PROVE  WithContext'
<1> DEFINE V == RowGroup
           W == 3 * RowGroup
           N == GroupsDone
           stop == jpgPrep.next_buf_stop
           first == jpgPrep.this_row_group
           m == (N + 1) % 3
           b == TurnRows
           d2 == (N + 2) \div 3
           m2 == (N + 2) % 3
           b2 == 3 * RowGroup * d2
           row2 == jpgPrep'.next_buf_row
           stop2 == jpgPrep'.next_buf_stop
<1>1. /\ V \in Nat \ {0} /\ b \in Nat /\ stop \in Nat
      /\ stop \in {V, 2 * V, 3 * V} /\ Turn \in Nat
      /\ b = 3 * RowGroup * Turn /\ V = RowGroup
      /\ N * V = b + stop - 2 * V /\ N \in Nat
      /\ first = IF stop = V THEN 2 * V ELSE stop - 2 * V
  BY ContextPlaces
<1>2. /\ m \in 0..2 /\ Turn = (N + 1) \div 3 /\ d2 \in Nat
      /\ m2 = IF m = 2 THEN 0 ELSE m + 1
      /\ d2 = IF m = 2 THEN Turn + 1 ELSE Turn
  <2>1. /\ (N + 1) % 3 \in 0..2 /\ (N + 1) \div 3 \in Nat
        /\ (N + 2) % 3 = IF (N + 1) % 3 = 2 THEN 0 ELSE ((N + 1) % 3) + 1
        /\ (N + 2) \div 3 = IF (N + 1) % 3 = 2 THEN ((N + 1) \div 3) + 1
                            ELSE (N + 1) \div 3
    BY <1>1, TurnOf
  <2>2. Turn = (N + 1) \div 3
    BY DEF Turn
  <2> QED
    BY <2>1, <2>2
<1>3. stop = m * V + V
  BY DEF WithContext
<1>4. b2 = IF m = 2 THEN b + W ELSE b
  <2>1. 3 * RowGroup * (Turn + 1) = 3 * RowGroup * Turn + W
    BY <1>1
  <2> QED
    BY <2>1, <1>1, <1>2
<1>5. b2 = 3 * RowGroup * d2 /\ b2 \in Nat
  BY <1>1, <1>2, <1>4
<1>6. stop2 = row2 + V /\ row2 = IF stop >= W THEN 0 ELSE stop
  OBVIOUS
<1>7. jpgPrep'.this_row_group = IF first + V >= W THEN 0 ELSE first + V
  OBVIOUS
<1>8. RowsIn(b + stop, jpgPrep'.rows_to_go)
      /\ LoadedAs(color_buf', b, stop, stop)
  OBVIOUS
<1>9. RowGroup' = RowGroup /\ \A r : ImageRow(r)' = ImageRow(r)
  BY DEF RowGroup, ImageRow
<1>10. GroupsDone' = N + 1
  OBVIOUS
<1>11. W = 3 * V
  OBVIOUS
<1>12. RowsLoaded' = (N + 1) * V + 2 * V + row2 - stop2
  BY <1>9, <1>10 DEF RowsLoaded
<1> HIDE DEF V, W, N, stop, first, m, b, d2, m2, b2, row2, stop2
<1>13. m * V = (IF m = 0 THEN 0 ELSE IF m = 1 THEN V ELSE 2 * V)
       /\ m2 * V = (IF m = 0 THEN V ELSE IF m = 1 THEN 2 * V ELSE 0)
  <2>1. m = 0 \/ m = 1 \/ m = 2
    BY <1>2
  <2> QED
    BY <2>1, <1>1, <1>2
<1>14. stop = IF m = 0 THEN V ELSE IF m = 1 THEN 2 * V ELSE 3 * V
  BY <1>1, <1>2, <1>3, <1>13
<1>15. row2 = m2 * V /\ stop2 = m2 * V + V
       /\ row2 \in Nat /\ stop2 \in 0..W /\ row2 \in 0..stop2
       /\ row2 = IF m = 2 THEN 0 ELSE stop
  BY <1>1, <1>2, <1>6, <1>11, <1>13, <1>14
<1>16. jpgPrep'.this_row_group = m * V
  <2>1. first = IF m = 0 THEN 2 * V ELSE IF m = 1 THEN 0 ELSE V
    BY <1>1, <1>2, <1>14
  <2> QED
    BY <2>1, <1>1, <1>2, <1>7, <1>11, <1>13
<1>17. RowsLoaded' = b + stop /\ b2 + row2 = b + stop
       /\ N * V = b2 + stop2 - W
  <2>1. (N + 1) * V = N * V + V
    BY <1>1
  <2>2. RowsLoaded' = b + stop
    BY <2>1, <1>1, <1>6, <1>12, <1>15
  <2> QED
    BY <2>2, <1>1, <1>2, <1>4, <1>11, <1>14, <1>15, <1>6
<1>18. LoadedAs(color_buf', b2, row2, stop2)
  <2>1. /\ \A i \in 0..stop - 1 : color_buf'[i] = ImageRow(b + i)
        /\ \A i \in stop..W - 1 : color_buf'[i] = ImageRow(b + i - W)
    BY <1>8 DEF LoadedAs, W
  <2>2. ASSUME NEW i \in 0..row2 - 1 PROVE color_buf'[i] = ImageRow(b2 + i)
    <3>1. m # 2 /\ i \in 0..stop - 1 /\ b2 = b
      BY <1>1, <1>4, <1>15
    <3> QED
      BY <3>1, <2>1
  <2>3. ASSUME NEW i \in stop2..W - 1
        PROVE  color_buf'[i] = ImageRow(b2 + i - W)
    <3>1. CASE m = 2
      <4>1. i \in 0..stop - 1 /\ b2 + i - W = b + i
        BY <3>1, <1>1, <1>4, <1>11, <1>14, <1>15
      <4> QED
        BY <4>1, <2>1
    <3>2. CASE m # 2
      <4>1. i \in stop..W - 1 /\ b2 = b
        BY <3>2, <1>1, <1>4, <1>6, <1>11, <1>15
      <4> QED
        BY <4>1, <2>1
    <3> QED
      BY <3>1, <3>2
  <2> QED
    BY <2>2, <2>3 DEF LoadedAs, W
<1>19. \A r \in N * V..RowsLoaded' - 1 :
         color_buf'[(r + W) % W] = ImageRow(r)
  <2>1. RowGroup \in Nat \ {0} /\ stop2 \in 0..3 * RowGroup
    BY <1>1, <1>15 DEF W
  <2>2. InPlace(color_buf', b2 + stop2 - W, b2 + row2)
    BY <2>1, <1>2, <1>5, <1>15, <1>18, ContextWindow DEF W
  <2>3. InPlace(color_buf', N * V, RowsLoaded')
    BY <2>2, <1>17
  <2> QED
    BY <2>3 DEF InPlace, W
<1>20. IF jpgPrep'.rows_to_go > 0
       THEN RowsLoaded' = jpg.image_height - jpgPrep'.rows_to_go
       ELSE RowsLoaded' >= jpg.image_height
  BY <1>8, <1>17 DEF RowsIn
<1>21. (N + 1) - 1 = N /\ (N + 1) + 1 = N + 2
  BY <1>1
<1>22. row2 < stop2 /\ stop2 <= row2 + V
  BY <1>1, <1>6, <1>15
<1>23. /\ jpgPrep'.this_row_group = ((N + 1) % 3) * V
       /\ stop2 = ((N + 2) % 3) * V + V
  BY <1>15, <1>16 DEF m, m2
<1>24. jpgPrep'.next_buf_row = row2 /\ jpgPrep'.next_buf_stop = stop2
  BY DEF row2, stop2
<1>25. RowGroup' = V /\ 3 * RowGroup' = W
  BY <1>9 DEF V, W
<1>26. /\ jpgPrep'.this_row_group = (GroupsDone' % 3) * RowGroup'
       /\ jpgPrep'.next_buf_stop = ((GroupsDone' + 1) % 3) * RowGroup'
                                     + RowGroup'
       /\ jpgPrep'.next_buf_row < jpgPrep'.next_buf_stop
       /\ jpgPrep'.next_buf_stop <= jpgPrep'.next_buf_row + RowGroup'
  BY <1>10, <1>21, <1>22, <1>23, <1>24, <1>25
<1>27. \A r \in (GroupsDone' - 1) * RowGroup'..RowsLoaded' - 1 :
         color_buf'[(r + 3 * RowGroup') % (3 * RowGroup')] = ImageRow(r)'
  BY <1>9, <1>10, <1>19, <1>21, <1>25
<1> QED
  BY <1>20, <1>26, <1>27 DEF WithContext

LEMMA ContextStep == ASSUME JpgInv, pre_process_context PROVE JpgInv'
<1> DEFINE more == jpgCall.in_row_ctr < jpgCall.in_rows_avail
           numrows == IF ~more THEN 0
                      ELSE Min({jpgPrep.next_buf_stop - jpgPrep.next_buf_row,
                                jpgCall.in_rows_avail - jpgCall.in_row_ctr})
           filled == IF more THEN jpgPrep.next_buf_row + numrows
                             ELSE jpgPrep.next_buf_stop
           buf == IF more THEN TopPadded(Converted(numrows))
                  ELSE expand_bottom_edge(color_buf, jpgPrep.next_buf_row,
                                           filled)
           stop == jpgPrep.next_buf_stop
           full == filled = stop
           rg == jpgMain.rowgroup_ctr
           cur == jpgMain.cur_iMCU_row
           rowgroup_ctr == rg + (IF full THEN 1 ELSE 0)
           call == [jpgCall EXCEPT !.in_row_ctr = @ + numrows]
           next_group == jpgPrep.this_row_group + RowGroup
           next_row == IF filled >= 3 * RowGroup THEN 0 ELSE filled
           togo == jpgPrep.rows_to_go
<1>1. jpgPlace = "prepare" /\ jpg.need_context_rows
      /\ UNCHANGED <<jpg, compressed>>
  BY DEF pre_process_context
<1>2. ~more /\ togo # 0 =>
        /\ Prepared(rg, jpgCall)
        /\ UNCHANGED <<jpgMain, jpgPrep, color_buf, jpgBuffer>>
  BY DEF pre_process_context
<1>3. more \/ togo = 0 =>
        /\ color_buf' = buf
        /\ jpgMain' = [jpgMain EXCEPT !.rowgroup_ctr = rowgroup_ctr]
        /\ jpgBuffer' = IF full THEN Append(jpgBuffer,
                               InContext(buf, jpgPrep.this_row_group))
                        ELSE jpgBuffer
        /\ jpgPrep' =
             IF full
             THEN [rows_to_go |-> togo - numrows,
                   next_buf_row |-> next_row,
                   this_row_group |-> IF next_group >= 3 * RowGroup
                                      THEN 0 ELSE next_group,
                   next_buf_stop |-> next_row + RowGroup]
             ELSE [jpgPrep EXCEPT !.rows_to_go = @ - numrows,
                                  !.next_buf_row = filled]
        /\ IF rowgroup_ctr < jpg.groups
           THEN jpgCall' = call /\ UNCHANGED jpgPlace
           ELSE Prepared(rowgroup_ctr, call)
  BY DEF pre_process_context
<1>4. PrepTyped /\ Counted /\ Staged /\ Passed /\ WithContext /\ Prepping
  BY <1>1 DEF JpgInv, Prepping
<1>5. /\ rg < jpg.groups /\ cur < total_iMCU_rows
      /\ jpgCall \in [next_scanline : Nat, in_row_ctr : Nat,
                      in_rows_avail : Nat]
      /\ jpgCall.in_row_ctr <= jpgCall.in_rows_avail
      /\ jpgCall.in_rows_avail >= 1
      /\ jpgCall.in_rows_avail - jpgCall.in_row_ctr <= togo
      /\ jpgPrep \in [rows_to_go : Nat, next_buf_row : Nat,
                      this_row_group : Nat, next_buf_stop : Nat]
      /\ jpgMain \in [cur_iMCU_row : 0..total_iMCU_rows,
                      rowgroup_ctr : 0..jpg.groups, suspended : BOOLEAN]
  BY <1>1, PieceLeft
<1>6. /\ jpg.image_height \in Nat \ {0} /\ RowGroup \in Nat \ {0}
      /\ jpg.groups \in Nat \ {0} /\ total_iMCU_rows \in Nat \ {0}
      /\ GroupsDone \in Nat /\ cur \in Nat /\ rg \in Nat
  BY <1>4, PrepFacts
<1>7. /\ jpgPrep.next_buf_row < stop /\ TurnRows \in Nat /\ stop \in Nat
      /\ jpgPrep.next_buf_row \in Nat
  BY <1>4, ContextPlaces
<1>8. CASE ~more /\ togo # 0
  <2>1. jpgMain' = jpgMain /\ jpgPrep' = jpgPrep /\ color_buf' = color_buf
        /\ jpgBuffer' = jpgBuffer /\ Prepared(rg, jpgCall)
    BY <1>2, <1>8
  <2>2. Prepping' /\ Passed'
    BY <2>1, <1>1, <1>4, PrepStays, PassedStays
  <2>3. /\ jpgCall = [jpgCall EXCEPT !.in_row_ctr = @ + 0]
        /\ jpgMain' = [jpgMain EXCEPT !.rowgroup_ctr = rg]
        /\ jpgPrep'.rows_to_go = togo - 0 /\ togo - 0 # 0
        /\ rg <= jpg.groups /\ 0 \in Nat
        /\ 0 <= jpgCall.in_rows_avail - jpgCall.in_row_ctr
    BY <2>1, <1>5, <1>6, <1>8
  <2>4. /\ Counted' /\ Staged' /\ RowGroup' = RowGroup
        /\ total_iMCU_rows' = total_iMCU_rows
        /\ jpgPlace' \in {"application", "prepare", "compress"}
        /\ jpgCall' \in [next_scanline : Nat, in_row_ctr : Nat,
                         in_rows_avail : Nat]
    BY <2>1, <2>3, <1>1, <1>5, <1>6, PieceTaken
  <2>5. PrepTyped'
    BY <2>1, <2>4, <1>1, <1>4 DEF PrepTyped
  <2> QED
    BY <2>2, <2>4, <2>5 DEF JpgInv
<1>9. CASE more \/ togo = 0
  <2>1. /\ numrows \in Nat /\ filled \in Nat
        /\ numrows <= jpgCall.in_rows_avail - jpgCall.in_row_ctr
        /\ jpgPrep.next_buf_row < filled /\ filled <= stop
        /\ call.in_row_ctr >= 1
        /\ buf \in [0..3 * RowGroup - 1 -> Int]
        /\ LoadedAs(buf, TurnRows, filled, stop)
        /\ togo - numrows \in Nat
        /\ RowsIn(TurnRows + filled, togo - numrows)
    <3>1. CASE more
      <4> DEFINE x == stop - jpgPrep.next_buf_row
                 y == jpgCall.in_rows_avail - jpgCall.in_row_ctr
      <4>1. x \in Nat \ {0} /\ y \in Nat \ {0}
        BY <3>1, <1>5, <1>7
      <4>2. Min({x, y}) = IF x <= y THEN x ELSE y
        BY <4>1, MinOfTwo
      <4>3. numrows = Min({x, y})
        BY <3>1
      <4> HIDE DEF x, y
      <4>4. numrows \in Nat \ {0} /\ numrows <= x /\ numrows <= y
        BY <4>1, <4>2, <4>3
      <4>5. filled = jpgPrep.next_buf_row + numrows
            /\ buf = TopPadded(Converted(numrows))
        BY <3>1
      <4>6. call.in_row_ctr = jpgCall.in_row_ctr + numrows
        BY <1>5
      <4> HIDE DEF numrows, filled, buf, call
      <4>7. filled \in Nat /\ jpgPrep.next_buf_row < filled /\ filled <= stop
        BY <4>1, <4>4, <4>5, <1>7 DEF x
      <4>8. /\ buf \in [0..3 * RowGroup - 1 -> Int]
            /\ LoadedAs(buf, TurnRows, filled, stop)
            /\ togo - numrows \in Nat
            /\ TurnRows + filled = jpg.image_height - (togo - numrows)
        BY <4>4, <4>5, <4>7, <1>1, ContextMore DEF x, y
      <4>9. RowsIn(TurnRows + filled, togo - numrows)
        BY <4>8, <1>6 DEF RowsIn
      <4>10. call.in_row_ctr >= 1
        BY <4>4, <4>6, <1>5
      <4> QED
        BY <4>4, <4>7, <4>8, <4>9, <4>10 DEF y
    <3>2. CASE ~more
      <4>1. numrows = 0 /\ filled = stop /\ togo = 0
            /\ buf = expand_bottom_edge(color_buf, jpgPrep.next_buf_row,
                                        stop)
        BY <3>2, <1>9
      <4>2. call.in_row_ctr >= 1
        BY <3>2, <4>1, <1>5
      <4> HIDE DEF numrows, filled, buf, call, more
      <4>3. /\ buf \in [0..3 * RowGroup - 1 -> Int]
            /\ LoadedAs(buf, TurnRows, stop, stop)
            /\ TurnRows + stop >= jpg.image_height
        BY <4>1, <1>4, ContextPadded
      <4>4. RowsIn(TurnRows + filled, togo - numrows)
        BY <4>1, <4>3 DEF RowsIn
      <4> QED
        BY <4>1, <4>2, <4>3, <4>4, <1>5, <1>7
    <3> QED
      BY <3>1, <3>2
  <2>2. /\ color_buf' = buf
        /\ jpgMain' = [jpgMain EXCEPT !.rowgroup_ctr = rowgroup_ctr]
        /\ jpgBuffer' = IF full THEN Append(jpgBuffer,
                               InContext(buf, jpgPrep.this_row_group))
                        ELSE jpgBuffer
        /\ jpgPrep' =
             IF full
             THEN [rows_to_go |-> togo - numrows,
                   next_buf_row |-> next_row,
                   this_row_group |-> IF next_group >= 3 * RowGroup
                                      THEN 0 ELSE next_group,
                   next_buf_stop |-> next_row + RowGroup]
             ELSE [jpgPrep EXCEPT !.rows_to_go = @ - numrows,
                                  !.next_buf_row = filled]
        /\ \/ /\ rowgroup_ctr < jpg.groups
              /\ jpgCall' = call /\ jpgPlace' = "prepare"
           \/ ~(rowgroup_ctr < jpg.groups) /\ Prepared(rowgroup_ctr, call)
    BY <1>1, <1>3, <1>9
  <2>3. call = [jpgCall EXCEPT !.in_row_ctr = @ + numrows]
    OBVIOUS
  <2> HIDE DEF numrows, filled, buf, call, more
  <2>4. rowgroup_ctr = (IF full THEN rg + 1 ELSE rg)
        /\ rowgroup_ctr \in Nat /\ rowgroup_ctr <= jpg.groups
    <3>1. rowgroup_ctr = IF full THEN rg + 1 ELSE rg
      <4> HIDE DEF full
      <4>1. CASE full
        BY <4>1
      <4>2. CASE ~full
        BY <4>2, <1>6
      <4> QED
        BY <4>1, <4>2
    <3> HIDE DEF full, rowgroup_ctr, rg
    <3> QED
      BY <3>1, <1>5, <1>6
  <2>5. /\ jpgPrep'.rows_to_go = togo - numrows
        /\ full => /\ jpgPrep'.next_buf_row = next_row
                   /\ jpgPrep'.this_row_group
                        = IF next_group >= 3 * RowGroup THEN 0 ELSE next_group
                   /\ jpgPrep'.next_buf_stop = next_row + RowGroup
        /\ ~full => /\ jpgPrep'.next_buf_row = filled
                    /\ jpgPrep'.this_row_group = jpgPrep.this_row_group
                    /\ jpgPrep'.next_buf_stop = stop
        /\ jpgPrep' \in [rows_to_go : Nat, next_buf_row : Nat,
                         this_row_group : Nat, next_buf_stop : Nat]
    <3>1. next_row \in Nat /\ next_group \in Nat /\ RowGroup \in Nat
          /\ next_row + RowGroup \in Nat
      <4>1. next_row \in Nat
        BY <2>1
      <4>2. jpgPrep.this_row_group \in Nat
        BY <1>5
      <4> HIDE DEF next_row
      <4> QED
        BY <4>1, <4>2, <1>6
    <3> HIDE DEF full, next_row, next_group
    <3>2. CASE full
      BY <3>1, <3>2, <2>1, <2>2
    <3>3. CASE ~full
      BY <3>3, <2>1, <2>2, <1>5
    <3> QED
      BY <3>2, <3>3
  <2>6. /\ Counted' /\ Staged' /\ RowGroup' = RowGroup
        /\ total_iMCU_rows' = total_iMCU_rows
        /\ jpgMain'.cur_iMCU_row = cur
        /\ jpgMain'.rowgroup_ctr = rowgroup_ctr
        /\ jpgPlace' \in {"application", "prepare", "compress"}
        /\ jpgCall' \in [next_scanline : Nat, in_row_ctr : Nat,
                         in_rows_avail : Nat]
        /\ jpgMain' \in [cur_iMCU_row : 0..total_iMCU_rows,
                         rowgroup_ctr : 0..jpg.groups, suspended : BOOLEAN]
    <3>1. rowgroup_ctr = jpg.groups \/ jpgPlace' = "prepare"
            \/ togo - numrows # 0
      <4>1. jpgPlace' = "prepare" \/ ~(rowgroup_ctr < jpg.groups)
        BY <2>2
      <4> HIDE DEF rowgroup_ctr, full
      <4> QED
        BY <4>1, <2>4, <1>6
    <3>2. \/ /\ rowgroup_ctr < jpg.groups
             /\ jpgCall' = call /\ jpgPlace' = "prepare"
          \/ Prepared(rowgroup_ctr, call)
      BY <2>2
    <3>3. /\ jpgPrep'.rows_to_go = jpgPrep.rows_to_go - numrows
          /\ jpgMain' = [jpgMain EXCEPT !.rowgroup_ctr = rowgroup_ctr]
          /\ numrows \in Nat /\ call.in_row_ctr >= 1
          /\ numrows <= jpgCall.in_rows_avail - jpgCall.in_row_ctr
      BY <2>1, <2>2, <2>5
    <3> HIDE DEF rowgroup_ctr, full, next_row, next_group, stop
    <3> QED
      BY <3>1, <3>2, <3>3, <2>3, <2>4, <1>1, PieceTaken
  <2>7. PrepTyped'
    BY <2>1, <2>2, <2>5, <2>6, <1>1, <1>4 DEF PrepTyped
  <2>8. WithContext'
    <3>1. CASE full
      <4>1. GroupsDone' = GroupsDone + 1
        BY <3>1, <2>4, <2>6, <1>1, <1>4, GroupsAfter
      <4>2. filled = stop
        BY <3>1
      <4>3. LoadedAs(color_buf', TurnRows, stop, stop)
            /\ RowsIn(TurnRows + stop, jpgPrep'.rows_to_go)
        BY <4>2, <2>1, <2>2, <2>5
      <4>4. /\ jpgPrep'.next_buf_row = IF stop >= 3 * RowGroup THEN 0
                                       ELSE stop
            /\ jpgPrep'.this_row_group
                 = IF jpgPrep.this_row_group + RowGroup >= 3 * RowGroup
                   THEN 0 ELSE jpgPrep.this_row_group + RowGroup
            /\ jpgPrep'.next_buf_stop = jpgPrep'.next_buf_row + RowGroup
        BY <3>1, <4>2, <2>5
      <4> QED
        BY <4>1, <4>3, <4>4, <1>1, <1>4, ContextGoesRound
    <3>2. CASE ~full
      <4>1. GroupsDone' = GroupsDone
        BY <3>2, <2>4, <2>6, <1>1 DEF GroupsDone
      <4>2. jpgPrep.next_buf_row <= filled /\ filled < stop
        BY <3>2, <2>1, <1>7
      <4>3. LoadedAs(color_buf', TurnRows, filled, stop)
            /\ RowsIn(TurnRows + filled, jpgPrep'.rows_to_go)
        BY <2>1, <2>2, <2>5
      <4> QED
        BY <3>2, <4>1, <4>2, <4>3, <2>1, <2>5, <1>1, <1>4, ContextGrows
    <3> QED
      BY <3>1, <3>2
  <2>9. Prepping'
    BY <2>8, <1>1 DEF Prepping
  <2>10. jpgBuffer' = FlattenSeq(Groups(cur, rowgroup_ctr))
    <3>1. jpgBuffer = FlattenSeq(Groups(cur, rg))
      BY <1>4 DEF Passed
    <3>2. CASE full
      <4> DEFINE rows == InContext(buf, jpgPrep.this_row_group)
      <4>1. jpgBuffer' = Append(jpgBuffer, rows) /\ filled = stop
        BY <3>2, <2>2
      <4>2. <<rows>> = Wanted(GroupsDone)
        BY <4>1, <2>1, <1>1, <1>4, ContextMade
      <4>3. FlattenSeq(Groups(cur, rg + 1))
              = FlattenSeq(Groups(cur, rg)) \o Wanted(cur * jpg.groups + rg)
        BY <1>4, <1>6, GroupAppended
      <4>4. GroupsDone = cur * jpg.groups + rg
        BY DEF GroupsDone
      <4>5. jpgBuffer \in Seq(Seq(Int)) /\ rows \in Seq(Int)
        <5>1. Wanted(GroupsDone) \in Seq(Seq(Int))
          BY <1>4, <1>6, WantedTyped
        <5>2. jpgBuffer \in Seq(Seq(Int))
          <6>1. FlattenSeq(Groups(cur, rg)) \in Seq(Seq(Int))
            BY <1>4, <1>6, GroupsJoined
          <6> QED
            BY <6>1, <3>1
        <5> HIDE DEF rows
        <5>3. <<rows>>[1] \in Seq(Int)
          BY <5>1, <4>2
        <5> QED
          BY <5>2, <5>3
      <4> HIDE DEF rows
      <4>6. Append(jpgBuffer, rows) = jpgBuffer \o <<rows>>
        BY <4>5
      <4>7. rowgroup_ctr = rg + 1
        BY <3>2, <2>4
      <4> QED
        BY <4>1, <4>2, <4>3, <4>4, <4>6, <4>7, <3>1
    <3>3. CASE ~full
      <4>1. jpgBuffer' = jpgBuffer /\ rowgroup_ctr = rg
        BY <3>3, <2>2, <2>4
      <4> QED
        BY <4>1, <3>1
    <3> QED
      BY <3>2, <3>3
  <2>11. Passed'
    BY <2>6, <2>10, <1>1, <1>4, PassedOn
  <2> QED
    BY <2>6, <2>7, <2>9, <2>11 DEF JpgInv
<1> QED
  BY <1>8, <1>9

LEMMA PrepStep ==
  ASSUME JpgInv, [JpgNext \/ (JpgEnded /\ UNCHANGED jpgVars)]_jpgVars
  PROVE  JpgInv'
<1>1. CASE UNCHANGED jpgVars
  <2>1. UNCHANGED <<jpg, jpgPlace, jpgCall, jpgMain, jpgPrep, color_buf,
                    jpgBuffer, compressed>>
    BY <1>1 DEF jpgVars
  <2>2. PrepTyped /\ Counted /\ Staged /\ Prepping /\ Passed
    BY DEF JpgInv
  <2>3. Prepping' /\ Passed' /\ total_iMCU_rows' = total_iMCU_rows
        /\ RowGroup' = RowGroup
    BY <2>1, <2>2, PrepStays, PassedStays
  <2>4. PrepTyped' /\ Counted' /\ Staged'
    BY <2>1, <2>2, <2>3 DEF PrepTyped, Counted, Staged, InCall, Untold
  <2> QED
    BY <2>3, <2>4 DEF JpgInv
<1>2. CASE JpgNext
  BY <1>2, WriteStep, MainLoopStep, SimpleStep, ContextStep,
     CompressDoneStep, SuspendedStep, FinishStep DEF JpgNext
<1> QED
  BY <1>1, <1>2 DEF JpgEnded

(* The counters stay where they belong. *)
LEMMA PrepTypes == ASSUME JpgInv PROVE JpgTypeOK
<1>1. PrepTyped /\ Counted /\ Prepping
  BY DEF JpgInv
<1>2. /\ jpg.image_height \in Nat \ {0} /\ RowGroup \in Nat \ {0}
      /\ jpg.need_context_rows \in BOOLEAN
      /\ jpg.groups \in Nat \ {0} /\ total_iMCU_rows \in Nat \ {0}
  BY <1>1, PrepFacts
<1>3. /\ jpgCall \in [next_scanline : Nat, in_row_ctr : Nat,
                      in_rows_avail : Nat]
      /\ jpgMain \in [cur_iMCU_row : 0..total_iMCU_rows,
                      rowgroup_ctr : 0..jpg.groups, suspended : BOOLEAN]
      /\ jpgPrep \in [rows_to_go : Nat, next_buf_row : Nat,
                      this_row_group : Nat, next_buf_stop : Nat]
  BY <1>1 DEF PrepTyped
<1>4. Untold \in 0..1
  BY <1>3 DEF Untold
<1>5. /\ jpgCall.next_scanline \in 0..jpg.image_height
      /\ jpgCall.in_row_ctr \in 0..jpgCall.in_rows_avail
      /\ jpgPrep.rows_to_go \in 0..jpg.image_height
  BY <1>1, <1>2, <1>3, <1>4 DEF Counted
<1>6. /\ jpgPrep.next_buf_row \in 0..jpgPrep.next_buf_stop
      /\ jpgPrep.next_buf_stop \in 1..3 * RowGroup
  <2>1. CASE jpg.need_context_rows
    <3>1. /\ jpgPrep.next_buf_row < jpgPrep.next_buf_stop
          /\ jpgPrep.next_buf_stop \in {RowGroup, 2 * RowGroup, 3 * RowGroup}
      BY <2>1, <1>1, ContextPlaces DEF Prepping
    <3> QED
      BY <3>1, <1>2, <1>3
  <2>2. CASE ~jpg.need_context_rows
    BY <2>2, <1>1, <1>2, <1>3 DEF Prepping, WithoutContext
  <2> QED
    BY <2>1, <2>2, <1>2
<1> QED
  BY <1>3, <1>5, <1>6 DEF JpgTypeOK

(* What was taken is what the application wrote, and the last row is not   *)
(* told before the last of it. *)
LEMMA PrepReaches == ASSUME JpgInv PROVE RowsReachCompressor
<1>1. PrepTyped /\ Counted /\ Staged /\ Passed
  BY DEF JpgInv
<1>2. /\ jpg.image_height \in Nat \ {0}
      /\ jpg.groups \in Nat \ {0} /\ total_iMCU_rows \in Nat \ {0}
      /\ jpgMain.cur_iMCU_row \in Nat
  BY <1>1, PrepFacts
<1>3. compressed = [m \in 1..jpgMain.cur_iMCU_row |->
                      FlattenSeq(Groups(m - 1, jpg.groups))]
  BY <1>1 DEF Passed
<1>4. Len(compressed) = jpgMain.cur_iMCU_row
  <2> DEFINE c == jpgMain.cur_iMCU_row
             f(m) == FlattenSeq(Groups(m - 1, jpg.groups))
  <2>1. c \in Nat /\ compressed = [m \in 1..c |-> f(m)]
    BY <1>2, <1>3
  <2> HIDE DEF c, f
  <2>2. Len(compressed) = c
    BY <2>1
  <2> QED
    BY <2>2 DEF c
<1>5. RowsCompressed
  <2>1. ASSUME NEW m \in 1..Len(compressed)
        PROVE  compressed[m] = FlattenSeq([k \in 1..jpg.groups |->
                                 Wanted((m - 1) * jpg.groups + k - 1)])
    <3>1. m \in 1..jpgMain.cur_iMCU_row
      BY <1>4
    <3>2. compressed[m] = FlattenSeq(Groups(m - 1, jpg.groups))
      BY <3>1, <1>3
    <3> QED
      BY <3>2 DEF Groups
  <2> QED
    BY <2>1 DEF RowsCompressed
<1>6. LastRowHeldBack
  <2> SUFFICES ASSUME jpgCall.next_scanline = jpg.image_height
               PROVE  jpgMain.cur_iMCU_row = total_iMCU_rows
    BY <1>4 DEF LastRowHeldBack
  <2>1. /\ jpgCall \in [next_scanline : Nat, in_row_ctr : Nat,
                        in_rows_avail : Nat]
        /\ jpgPrep.rows_to_go \in Nat /\ jpgMain.suspended \in BOOLEAN
    BY <1>1 DEF PrepTyped
  <2>2. Untold = 0 /\ jpgPrep.rows_to_go = 0 /\ ~InCall
    BY <2>1, <1>1, <1>2 DEF Counted, Untold
  <2>3. jpgMain.suspended = FALSE
    BY <2>1, <2>2 DEF Untold
  <2> QED
    BY <2>2, <2>3, <1>1 DEF Staged
<1> QED
  BY <1>5, <1>6 DEF RowsReachCompressor

(* Whatever the pieces are and wherever the compressor suspends, the rows  *)
(* that the application knows of, those of the call and the one it is not  *)
(* told add up to those that were taken; the conversion buffer holds the   *)
(* rows around the next row group; and the iMCU rows are put together and  *)
(* taken as what the image has there. *)
THEOREM PrepInvariant == JpgSpec => []JpgInv
<1>1. JpgInit => JpgInv
  BY PrepInit
<1>2. JpgInv /\ [JpgNext \/ (JpgEnded /\ UNCHANGED jpgVars)]_jpgVars
        => JpgInv'
  BY PrepStep
<1> QED
  BY <1>1, <1>2, PTL DEF JpgSpec

(* RowsReachCompressor: the compressor gets the iMCU rows in order, each   *)
(* made from the right rows of the image, and the application does not get *)
(* its last row told before the compressor has the last of them. *)
THEOREM RowsReachTheCompressor == JpgSpec => []RowsReachCompressor
<1>1. JpgInv => RowsReachCompressor
  BY PrepReaches
<1> QED
  BY <1>1, PrepInvariant, PTL

(* JpgTypeOK: the counters of the application, the main controller and the *)
(* preprocessor stay inside the image, the iMCU row and the buffer. *)
THEOREM PrepTypeCorrect == JpgSpec => []JpgTypeOK
<1>1. JpgInv => JpgTypeOK
  BY PrepTypes
<1> QED
  BY <1>1, PrepInvariant, PTL
=============================================================================
