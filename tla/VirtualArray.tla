---------------------------- MODULE VirtualArray ----------------------------
(***************************************************************************)
(* A virtual array of libjpeg (src/jpeg-9b/jmemmgr.c, jmemansi.c): as many *)
(* rows as memory allows are in mem_buffer, the others in a temporary      *)
(* file.  Its users, the coefficient controllers and the postprocessor,    *)
(* borrow strips of rows to read or to write.  A row has one value; where  *)
(* the code counts bytes the model counts rows.                            *)
(*                                                                         *)
(* A definition without a comment, just before the one it resembles, is a  *)
(* plausible bug of that one; no specification uses it.                    *)
(***************************************************************************)
EXTENDS Integers, FiniteSetsExt

CONSTANTS
  MaxRows,      \* bound on the height of an array
  MaxAccess,    \* bound on the rows of one access
  MaxWrites     \* the different values that a user writes into one row

VARIABLES
  virt,         \* jvirt_sarray_control but for its buffer and its file
  mem_buffer,   \* the value of each row in memory
  temp_file,    \* the value of each row in the file
  strip_at,     \* the pointer that access_virt_sarray returned, and its use
  virtPlace     \* "requested", "realized" or "freed"

virtVars == <<virt, mem_buffer, temp_file, strip_at, virtPlace>>

ASSUME VirtAssumption ==
  MaxRows \in Nat \ {0} /\ MaxAccess \in Nat \ {0} /\ MaxWrites \in Nat

(* A value is Zero, what malloc left, or written into a row by the user. *)
Blank == <<>>
Garbage == <<-1, 0>>
UserValues == {<<r, n>> : r \in 0..MaxRows - 1, n \in 1..MaxWrites}

(* No strip is on loan. *)
NoStrip == [start |-> 0, num |-> 0, at |-> 0, writable |-> FALSE]

(* request_virt_sarray *)
VirtInit ==
  /\ virt \in [rows_in_array : 1..MaxRows, maxaccess : 1..MaxAccess,
               pre_zero : BOOLEAN, rows_in_mem : {0}, rowsperchunk : {0},
               cur_start_row : {0}, first_undef_row : {0},
               dirty : {FALSE}, b_s_open : {FALSE}]
  /\ mem_buffer = [i \in {} |-> Garbage]
  /\ temp_file = [r \in 0..virt.rows_in_array - 1 |-> Garbage]
  /\ strip_at = NoStrip /\ virtPlace = "requested"

(* free_pool, in jpeg_finish_decompress, jpeg_abort or jpeg_destroy: the    *)
(* file is closed and the rows are gone. *)
free_pool ==
  /\ virt' = [virt EXCEPT !.b_s_open = FALSE, !.dirty = FALSE,
                          !.cur_start_row = 0, !.first_undef_row = 0]
  /\ mem_buffer' = [i \in {} |-> Garbage]
  /\ temp_file' = [r \in DOMAIN temp_file |-> Garbage]
  /\ strip_at' = NoStrip /\ virtPlace' = "freed"

-----------------------------------------------------------------------------
(* realize_virt_arrays: the rows that are kept in memory when there is     *)
(* room for avail_mem rows.                                                *)
RowsInMem(avail_mem) ==
  LET minheights == (virt.rows_in_array - 1) \div virt.maxaccess + 1
      max_minheights == Max({avail_mem \div virt.maxaccess, 1})
  IN  IF avail_mem >= virt.rows_in_array \/ minheights <= max_minheights
      THEN virt.rows_in_array
      ELSE max_minheights * virt.maxaccess

(* realize_virt_arrays and alloc_sarray: some number of rows fits into one *)
(* chunk of memory.  The file may fail to open. *)
realize_virt_arrays ==
  /\ virtPlace = "requested"
  /\ \E avail_mem \in 0..virt.rows_in_array :
       LET rows == RowsInMem(avail_mem)
           spills == rows # virt.rows_in_array
       IN  \/ \E chunk \in IF spills THEN 1..rows ELSE {rows} :
                /\ virt' = [virt EXCEPT !.rows_in_mem = rows,
                                        !.rowsperchunk = chunk,
                                        !.b_s_open = spills]
                /\ mem_buffer' = [i \in 0..rows - 1 |-> Garbage]
                /\ virtPlace' = "realized"
                /\ UNCHANGED <<temp_file, strip_at>>
           \/ spills /\ free_pool

-----------------------------------------------------------------------------
(* What a user may ask for: the first row, how many, and to write in them. *)
Accesses == (0..MaxRows - 1) \X (1..MaxAccess) \X BOOLEAN

FileOffsetsStuck(v, rows) == [k \in DOMAIN rows |-> v.cur_start_row]
(* Where each chunk is in the file, of which the chunks before took rows. *)
FileOffsets(v, rows) ==
  LET offset[k \in DOMAIN rows] ==
        IF k = 0 THEN v.cur_start_row ELSE offset[k - 1] + rows[k - 1]
  IN  offset

(* do_sarray_io goes through the chunks of the buffer until one has        *)
(* nothing to transfer: the row of the file for each row of the buffer     *)
(* that is transferred.                                                    *)
Transferred(v) ==
  LET Chunks == 0..(v.rows_in_mem - 1) \div v.rowsperchunk
      thisrow == [k \in Chunks |-> v.cur_start_row + k * v.rowsperchunk]
      rows == [k \in Chunks |->
                 Min({v.rowsperchunk, v.rows_in_mem - k * v.rowsperchunk,
                      v.first_undef_row - thisrow[k],
                      v.rows_in_array - thisrow[k]})]
      file_offset == FileOffsets(v, rows)
      moved == {i \in 0..v.rows_in_mem - 1 :
                  LET k == i \div v.rowsperchunk
                  IN  /\ \A j \in 0..k : rows[j] > 0
                      /\ (i % v.rowsperchunk) < rows[k]}
  IN  [i \in moved |->
         file_offset[i \div v.rowsperchunk] + (i % v.rowsperchunk)]

(* The file after the buffer was written to it, and the buffer after it    *)
(* was read.                                                               *)
FileWritten(v) ==
  LET to == Transferred(v)
      new == {to[i] : i \in DOMAIN to}
  IN  [r \in DOMAIN temp_file |->
         IF r \in new THEN mem_buffer[CHOOSE i \in DOMAIN to : to[i] = r]
                      ELSE temp_file[r]]
BufferRead(v, file) ==
  LET from == Transferred(v)
  IN  [i \in DOMAIN mem_buffer |->
         IF i \in DOMAIN from THEN file[from[i]] ELSE mem_buffer[i]]

(* Where the window on the array goes: to the strip when it lies ahead, or *)
(* so that the strip is the last in it. *)
WindowFor(start_row, num_rows) ==
  IF start_row > virt.cur_start_row THEN start_row
  ELSE Max({start_row + num_rows - virt.rows_in_mem, 0})

(* The accesses that end in an error: past the array, more rows than       *)
(* agreed, a gap left by a writer, or undefined rows to a reader.          *)
BadAccess(start_row, num_rows, writable) ==
  LET end_row == start_row + num_rows
  IN  \/ end_row > virt.rows_in_array
      \/ num_rows > virt.maxaccess
      \/ /\ virt.first_undef_row < end_row
         /\ IF writable THEN virt.first_undef_row < start_row
                        ELSE ~virt.pre_zero

FlaggedAfresh(v, end_row, writable) ==
  [v EXCEPT !.first_undef_row = IF writable THEN Max({@, end_row}) ELSE @,
            !.dirty = writable]
(* What a strip that may be written leaves behind. *)
Flagged(v, end_row, writable) ==
  [v EXCEPT !.first_undef_row = IF writable THEN Max({@, end_row}) ELSE @,
            !.dirty = @ \/ writable]

(* access_virt_sarray, up to the pointer that it returns *)
access_virt_sarray(start_row, num_rows, writable) ==
  LET end_row == start_row + num_rows
      outside == \/ start_row < virt.cur_start_row
                 \/ end_row > virt.cur_start_row + virt.rows_in_mem
      file == IF outside /\ virt.dirty THEN FileWritten(virt) ELSE temp_file
      moved == IF ~outside THEN virt
               ELSE [virt EXCEPT
                       !.dirty = FALSE,
                       !.cur_start_row = WindowFor(start_row, num_rows)]
      buffer == IF outside THEN BufferRead(moved, file) ELSE mem_buffer
      cleared == {r - moved.cur_start_row :
                    r \in Max({virt.first_undef_row, start_row})..end_row - 1}
  IN  /\ virtPlace = "realized"
      /\ ~BadAccess(start_row, num_rows, writable)
      /\ outside => virt.b_s_open
      /\ mem_buffer' = [i \in DOMAIN buffer |->
                          IF virt.pre_zero /\ i \in cleared THEN Blank
                                                            ELSE buffer[i]]
      /\ temp_file' = file
      /\ virt' = Flagged(moved, end_row, writable)
      /\ strip_at' = [start |-> start_row, num |-> num_rows,
                      at |-> start_row - moved.cur_start_row,
                      writable |-> writable]
      /\ UNCHANGED virtPlace

(* The user writes into a row of a strip that it asked to write. *)
UserWrites(r, value) ==
  /\ virtPlace = "realized" /\ strip_at.writable
  /\ mem_buffer' =
       [mem_buffer EXCEPT ![strip_at.at + (r - strip_at.start)] = value]
  /\ UNCHANGED <<virt, temp_file, strip_at, virtPlace>>

(* ERREXIT: the checks of access_virt_sarray, or the file fails.  The      *)
(* application comes back by longjmp, to abort or to destroy. *)
AccessFails ==
  /\ virtPlace = "realized"
  /\ virt.b_s_open \/ \E access \in Accesses :
                        BadAccess(access[1], access[2], access[3])
  /\ free_pool

Lent == strip_at.start..strip_at.start + strip_at.num - 1

VirtNext ==
  \/ realize_virt_arrays
  \/ \E access \in Accesses :
       access_virt_sarray(access[1], access[2], access[3])
  \/ AccessFails
  \/ \E r \in Lent, n \in 1..MaxWrites : UserWrites(r, <<r, n>>)
  \/ virtPlace = "realized" /\ free_pool

VirtEnded == virtPlace = "freed"

VirtSpec == VirtInit /\ [][VirtNext]_virtVars

-----------------------------------------------------------------------------
InWindow(r) ==
  r \in virt.cur_start_row..virt.cur_start_row + virt.rows_in_mem - 1
Defined == 0..virt.first_undef_row - 1

(* Every variable has its type, and the window is in bounds. *)
VirtTypeOK ==
  /\ virtPlace \in {"requested", "realized", "freed"}
  /\ virt.rows_in_mem \in 0..virt.rows_in_array
  /\ virt.cur_start_row \in 0..virt.rows_in_array - 1
  /\ virt.first_undef_row \in 0..virt.rows_in_array
  /\ DOMAIN temp_file = 0..virt.rows_in_array - 1
  /\ virtPlace = "realized" => \A r \in Lent : InWindow(r)
  /\ \A i \in DOMAIN mem_buffer :
       mem_buffer[i] \in UserValues \cup {Blank, Garbage}

(* As long as the buffer is not dirty it may be dropped: the file has all  *)
(* of it that is defined. *)
FileUpToDate ==
  virtPlace = "realized" /\ virt.b_s_open /\ ~virt.dirty =>
    \A r \in Defined :
      InWindow(r) => temp_file[r] = mem_buffer[r - virt.cur_start_row]

(* The buffer, the window and the file are the plain array that the users  *)
(* of the memory manager see: every strip holds what was last written.     *)
Row(r) ==
  CASE r \notin Defined -> Blank
    [] r \in Defined /\ InWindow(r) -> mem_buffer[r - virt.cur_start_row]
    [] OTHER -> temp_file[r]
Plain == INSTANCE PlainArray WITH
  Zero <- Blank,
  Values <- UserValues,
  zeroed <- virt.pre_zero,
  content <- [r \in 0..virt.rows_in_array - 1 |-> Row(r)],
  defined <- virt.first_undef_row,
  strip <- [r \in Lent |-> mem_buffer[strip_at.at + (r - strip_at.start)]],
  writable <- strip_at.writable,
  ended <- virtPlace = "freed"
ImplementsPlainArray == Plain!PlainSpec
=============================================================================
