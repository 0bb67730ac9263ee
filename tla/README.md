# Verification of the media programs and their thread pool

The repository holds a set of small C programs around FFmpeg, ALSA, SDL, X11
and VA-API, the thread pool that two of them run on, and copies of libjpeg,
libpng and the libva headers.  This directory models the parts in which
threads, queues, buffers and objects of a driver meet, and of the two libraries
the parts that keep state between calls; it checks them with TLC on small
instances, and proves with TLAPS, for every instance, the main invariants of
the threaded programs and of the objects they share with a driver, that the
thread pool and a virtual array of libjpeg implement their abstract
specifications, that a decoder follows the headers of the encoder, and that
libjpeg passes every row on its way in and out, once and in order.

## Inventory

| Component | Files (under `src/`) | State it keeps | Operations | Hard behaviour | What makes it correct |
| --- | --- | --- | --- | --- | --- |
| Thread pool | `videoAudioPlayer/threadPool.c`, `.h`; an identical copy in `hwDecodeVaapi/vaapi` | a job queue with a mutex and a binary semaphore, two counters under `thcount_lock`, a condition variable for idle, two *static* flags shared by all pools | `thpool_init`, `add_work`, `wait`, `pause`, `resume`, `destroy`; `thread_do` in each worker; the handler of SIGUSR1 | nested mutexes, a token for many jobs, counters read without their mutex, signals at any instruction, two pools | no job lost, run twice or reordered; `wait` returns exactly on an idle pool; every call returns; the teardown frees nothing that a worker uses |
| Audio and video player | `videoAudioPlayer/media.c`, `media.h`, `player.c` | three lists, each with mutex and condition variable, two exit flags | four jobs: reader, decoder, display, speaker; `main` | the deque functions return *with the mutex locked*; one flag under two mutexes; any call may fail | nothing lost or cut off at the end of the file, no sleeper without a waker, `main` returns |
| H.264 encoder demo | `hwEncode/testDemo/encodeTest.c` | 16 slots (surfaces, coded buffer, status), a task list, reference frames, counters | `encode_frames` and `storage_task_thread`; `encoding2display_order` | a wait that does not re-test its condition, a status polled without the mutex, buffers used round robin | no slot used by both threads, the file is complete and in order, references are intact |
| H.264 headers | the same file, first half | a bit buffer | put bits, Exp-Golomb, SPS, PPS, slice header | alignment and widths | what is written decodes to what was meant |
| VA-API player | `hwDecodeVaapi/vaapi/ffmpeg_player.c` | 17 entries in two lists under one mutex and one condition variable, an exit flag without either | decoder thread, display thread, `main` | the end of the stream is signalled to nobody; lists emptied without the mutex; images destroyed twice | entries and images are conserved, all pictures are shown in order |
| VA-API surfaces | `hwDecodeVaapi/vaapi/ffmpeg.c` | a ring of surfaces with head and tail | `get_buffer`, `release_buffer`, called by the codec | releases out of order, no test for an empty ring | no surface lent twice |
| VA-API context | `hwDecodeVaapi/vaapi/vaapi.c`, `image.c`, `utils.c`, `debug.c` | configuration, context, surfaces, formats | `vaapi_init`, `vaapi_init_decoder`, `vaapi_exit`, image calls | failures half way, a change of format in the middle | what was created is destroyed once |
| New hardware decoder | `hwDecodeVaapi/ffmpegNewHwDecode/` | one frame at a time, two frames and a buffer that are allocated | send a packet, receive frames until EAGAIN, show, flush | the error paths of `decode_write` | all frames of a packet are shown, nothing leaks |
| MP3 player, software decoder | `mp3Player/audioPlayer.c`, `softDecode/softDecode.c` | what the codec holds back | read, decode, write | a codec that returns frames late | no frame is lost but what the codec holds at the end |
| libpng: push reader | `libpng-1.6.23/pngpread.c` | a buffer of saved bytes, a mode, the row and the pass | `png_process_data`, its pause, the callbacks | pieces of any size, passes without rows or columns | the callbacks do not depend on the pieces; every row of every pass |
| libjpeg: virtual arrays | `jpeg-9b/jmemmgr.c`, `jmemansi.c` | a window in memory on a file, which rows are defined, a dirty flag | request, realize, access, free | rows in memory, in the file, or nowhere yet | a strip holds what was written last |
| libjpeg: rows | `jpeg-9b/jc{apistd,mainct,prepct}.c`, `jd{apistd,mainct,postct,sample,merge}.c` | counters of rows, row groups and iMCU rows in three layers | `jpeg_write_scanlines`, `jpeg_read_scanlines` | pieces of any size, suspension, context rows, the bottom of the image, two passes | every row once, in order, and none below the bottom |
| List macros | `linuxList.h` (three copies) | links | add, delete, iterate | deletion while iterating | a list is the sequence the models use |
| Displays, pixel tables | `hwEncode/testDemo/va_display*`, `loadsurface*.h` | none | pixel loops | none | - |
| Vendored, the rest | `jpeg-9b`, `libpng-1.6.23`, `hwEncode/include/va` | | codecs, transformations, tables | | not this project's code |

The players add their loops to a pool as jobs and wait for it with
`thpool_wait`; inside a program the threads talk only through lists under
mutexes and through flags, some of which are read without one.  The encoder has
a thread of its own.  The codec calls back into the VA player for surfaces
(`get_buffer`, `release_buffer`) and for a format (`get_format`); libpng calls
back into the application.  `PROJECT.json` lists the hazards line by line.

## Modules

| Module | Models | Extends / uses |
| --- | --- | --- |
| `JobPool` | what `threadPool.h` promises about jobs and waiting | - |
| `ThreadPool` | `threadPool.c` | instantiates `JobPool` |
| `CommonFacts` | lemmas on remainders, rings, lists and one-to-one sequences | - |
| `MCThreadPool` | symmetry for TLC | `ThreadPool` |
| `TwoPools` | two pools that share the static flags | `ThreadPool` twice |
| `ThreadPoolProofs` | theorems about the pool | `ThreadPool` |
| `TwoPoolsProofs` | theorems about both | `TwoPools`, `ThreadPoolProofs` twice |
| `MediaPlayer` | `media.c` and the end of `player.c` | - |
| `GopOrder` | `encoding2display_order` | - |
| `EncodePipeline`, `EncodePipelineProofs` | `encode_frames`, `storage_task_thread`, theorems | `GopOrder` |
| `SurfaceRing` | `get_buffer`, `release_buffer` | - |
| `VaPlayer` | `ffmpeg_player.c` | `SurfaceRing` |
| `VaContext` | `vaapi_init`, `vaapi_init_decoder`, `vaapi_exit`, `get_format` | - |
| `Decoders` | the three decoders that run in one thread | - |
| `EncoderSetup` | `init_va`, `setup_encode`, `release_encode`, `deinit_va` | - |
| `Bitstream` | the bit writer of the encoder | - |
| `Headers` | its parameter sets and slice header, and the syntax that reads them | - |
| `PictureParams`, `PictureParamsProofs` | frame numbers, order counts, reference lists, against a decoder; theorems | `Headers`, `CommonFacts` |
| `PngPush` | `pngpread.c`: pieces, chunks, pauses | - |
| `PngRows` | `pngpread.c`: rows, passes, callbacks | - |
| `PlainArray`, `VirtualArray` | what a virtual array promises; `jmemmgr.c` | `VirtualArray` instantiates `PlainArray` |
| `JpegPrep` | the rows on their way into the compressor | - |
| `VirtualArrayProofs` | theorems about both | `VirtualArray`, `JpegPrep`, `CommonFacts` |
| `JpegRead` | the rows on their way out of the decompressor | - |
| `VaPrograms` | one of four programs on a driver of libva | `VaPlayer`, `EncodePipeline`, `EncoderSetup`, `Bitstream` |
| `Programs` | one of nine other parts | `MediaPlayer`, `VaContext`, `Decoders`, `PictureParams`, `PngRows`, `PngPush`, `VirtualArray`, `JpegPrep`, `JpegRead` |
| `ProgramProofs` | theorems about `MediaPlayer`, `VaContext`, `Decoders`, `JpegRead` and about the programs together | `Programs`, `VirtualArrayProofs`, `PictureParamsProofs` |
| `VaProgramProofs` | theorems about `SurfaceRing`, `VaPlayer`, `EncoderSetup`, `Bitstream` and about the programs together | `VaPrograms`, `EncodePipelineProofs` |

The parts in `VaPrograms` and in `Programs` never meet: they belong to
different executables or libraries.  The variable `program` chooses in the
initial state which one runs, the others keep one start, and TLC goes through
the behaviours of each in one run.  The reachable states are the sum of those
of the parts, not their product.

Definitions have the names of the source where it has one.  In every module a
definition without a comment, just before one it resembles, is a plausible bug
of that one (a dropped guard, a missing signal, a wrong end of a list); no
specification uses it, and each property is shown to notice one.  A property
that has several parts is the conjunction of definitions that are commented one
by one.

### ThreadPool and JobPool

A thread has a place `pc` in its function.  The three mutexes are explicit
(`owner`), and a critical section is two steps, acquire-and-work and release,
because other code reads `jobqueue.len` and `num_threads_alive` without the
mutex and because the pause signal may stop a worker between the two.  A
condition variable is the set of its sleepers; they may wake spuriously.

`thread_do` is LoopTest, BsemSleep / BsemTake, KeepaliveTest, WorkingInc,
PullNone / PullJob / PullPost, RunJob, WorkingDec, AliveDec and the releases
between them; `jobqueue_push` is PushLink, PushPost, PushPosted, PushUnlock;
`thpool_wait` is WaitSleep, WaitDone, WaitUnlock; `thpool_destroy` is
PollAlive, bsem_post_all, ClearPull, ClearReset, Free.  `thread_hold` and
HoldReturn are the handler of SIGUSR1, which may interrupt a worker anywhere.
Clients add, wait, pause and resume as they like; one of them, Owner, creates
and destroys the pool, and destroys it when the others have left.

`JobPool` has no threads: pending, running, done, dropped.  Submit appends,
Start takes the oldest, EndWait requires that nothing is pending or running,
Drop requires that the pool is closed and nothing runs.

`TwoPools` instantiates `ThreadPool` a second time with variables of its own
but for `threads_keepalive` and `threads_on_hold`.

### MediaPlayer

A critical section is one step, since everything it touches is under its mutex.
The mutexes are nevertheless explicit because the deque functions return with
theirs locked when the producer is gone (`GiveUp`).  Packets are numbers; the
codec is a set of packets whose picture it still owes, and any call may fail
where the code tests it.  `sent` and `got` are histories.

### GopOrder and EncodePipeline

`FrameType` and `DisplayOrder` are functions of the number of the picture in
encoding order, with the three periods as constants.  `EncodePipeline` has the
place of the encoder (`enc`: next picture, poll the slot, render, queue) and of
the storer (`sto`: dequeue, wait, save, load, release).  A picture is its
display order and the number of the screen shot that was in the source surface
when it was rendered, so that a slot reused too early shows as a wrong picture
in the file.  `encode_syncmode` is 0, its default.

### SurfaceRing and VaPlayer

The ring is the array `surface_ids` with its two indices; `lent` is what the
codec holds.  `VaPlayer` interleaves the decoder, which calls into the ring and
copies a returned picture into the image of an empty entry, and the display.
`image_id` follows the life of the VA image of an entry, `data` the picture in
it.  Failures of VA calls that end the process are modelled.

### VaContext and EncoderSetup

The driver is the set of objects that exist; a new object gets any free id,
also one that was in use before, so an id that outlives its object may mean
another one later.  `vaapi_init_decoder` is a sequence of calls any of which
may fail, with the cleanup of each label; `get_format` calls it again for every
new format while the codec still holds pictures.  Where the C code divides by
zero or follows a null pointer the model goes to `crashed`, and
`CrashExplained` says from what only.  `EncoderSetup` chooses a driver (the
profiles, attributes and packed headers it knows) and follows `main` through
the calls; a call that fails ends the process, as `CHECK_VASTATUS` does.

### Decoders

The codec is the sequence of frames that it owes and may return several packets
late.  The steps of `decode_write` are those between which something is
allocated or may fail.

### Headers, Bitstream and PictureParams

`Bitstream` writes any short list of elements on words of 2 x 2 bits, with the
surplus bits in the word that `put_ui` leaves there, and reads them back bit by
bit.  `Headers` has the headers as lists of elements, and beside them the syntax
of H.264 by which a decoder finds which element comes next.  One step of
`PictureParams` encodes a picture, for any periods within the bounds, and lets
a decoder that sees only the headers number it, order it, build its reference
list and mark references.

### PngPush and PngRows

A step of `PngPush` is one round of the loop of `png_process_data`; the
application hands over pieces of any size, or pauses in its info callback in
both of the ways there are.  `PngRows` takes the rows of one picture after the
other through the seven passes; the pixels of the compressed data follow from
the interlace of the PNG specification, not from the code.

### VirtualArray, JpegPrep and JpegRead

`VirtualArray` has the window of rows in memory, split into chunks, and the
file, row by row.  Any number of rows may fit into memory and into a chunk.
Users borrow any strip, write into it, or go wrong in each of the ways that end
in `ERREXIT`.  `PlainArray` is what they think they have: rows with values, of
which a strip is on loan.  `JpegPrep` and `JpegRead` have the counters of each
layer; a row is its number, and what is passed on is compared with what the
next layer is to see.

## Runs

| Run | Shows |
| --- | --- |
| `pool_safety` | mutual exclusion, exact counters, no lost wakeup, each job once, no worker leaves early, quiet teardown; with a pause that may stop a worker inside any section |
| `pool_wait` | the pool implements `JobPool`; every job is served; `thpool_add_work`, `thpool_wait`, `thpool_destroy` return (`CallsComeBack`) |
| `two_pools` | order, once-only and a quiet teardown of one pool whatever the other one does to the flags |
| `va_programs` | VA player: surfaces and entries conserved, no sleeper left behind, all pictures shown in order. Encoder: slots exclusive, file in order and complete, shots and references right, all saved unless the storer missed the last signal; what was found out of the driver is what it gets; the header that is handed over is the one that was written |
| `programs` | Player: nothing lost, reordered or cut off, mutex leak contained, sleepers woken, `main` returns unless the reader is stuck. VA context: ids stay valid over changes of the format. Demos: frames in order, nothing leaks. Encoder: a decoder comes to the numbers, orders and references of the driver. libpng: the pieces do not matter, every row of every pass arrives. libjpeg: a virtual array is a plain one, no row is lost or repeated |
| `pool_free`, `pool_two_waiters`, `pool_resume`, `pool_pause_add`, `two_pools_serve`, `encode_saved`, `jpeg_two_pass` | violations, see below |

### Bounds

- `pool_safety`: three workers, two clients, two jobs, one pause.  Two workers
  can be awake with one token, a third asleep; two jobs make the token carry
  more than one; one pause suffices to stop a worker inside any section.  TLC
  does not check for deadlock here: a worker stopped with a mutex in its hands
  does stop the others (`pool_pause_add`).
- `pool_wait`: two workers, one client, two jobs, no pause.  One client because
  two waiters are the finding of `pool_two_waiters`; no pause because of
  `pool_pause_add`.
- `two_pools`: one worker, one client, one job in each pool.  What one pool can
  do to the other are two assignments to each flag, all of which happen.
- `encode_saved`: five frames and four slots, so that the trace is short.
- `va_programs`:
  - player: five packets, three surfaces (the number for MPEG-2) and two
    entries instead of 17, so that the decoder has to wait for entries and the
    ring wraps round;
  - encoder: the constants of the source, 60 frames, 16 slots, two references,
    periods 30, 60 and 1; nothing is scaled down but the content of a picture;
  - setup: every set of profiles, attributes and packed headers; `SURFACES` = 2
    coded buffers;
  - bits: words of two bytes of two bits, three elements, codes up to 3, the
    buffer grows by two words: elements fall on every place of a word and across
    two, and the buffer is reallocated.
- `programs`:
  - player: `MaxPackets` = 3 in any mix of streams: a queue gets longer than
    one, the codec delays and reorders, the file ends at any point, every
    failing call fails;
  - context: two ids for configurations and contexts and four for surfaces, so
    that ids are reused, rings of two, three formats;
  - demos: four packets, up to two frames late;
  - pictures: eight slots, two references, numbers of four bits, which wrap
    within 28 pictures; periods up to 6, 12 and 3, so with B pictures, of which
    the shipped program has none; with a single IDR picture at most
    `2^Log2MaxPicOrderCntLsb - (ip_period - 1)` pictures, for the numbers grow
    until the next one, and the last P picture is shown `ip_period - 1` late
    (the program has 60 pictures, and IDR pictures every 60);
  - rows: every picture up to 9 x 9, one more than the 8 x 8 of the interlace;
  - pieces: fields of two bytes, two rows, pieces of up to four bytes, the same
    as a length and a name, so that every boundary is cut;
  - arrays: four rows, accesses of up to two, one value per row besides zero and
    what `malloc` left; windows of 1 to 4 rows in chunks of any size;
  - writing: images of up to 8 rows, 1 or 2 rows in a group, up to 3 groups;
  - reading: up to 9 rows, 1, 2 or 4 in a group, up to 3 groups; with a two-pass
    quantizer 1 or 2 in a group, for 3 and 4 are what `jpeg_two_pass` is about.

### Fairness

Pool: strong fairness for each worker outside the handler, for each client
inside a call and for the steps of `thpool_destroy`, as a mutex that others
keep taking must be got at last (glibc mutexes are not fair in the strict
sense, but the threads sleep or wait between two turns); weak fairness for
`thpool_init`, for the delivery of a pending signal and the return of the
handler.  Nothing is owed about which calls clients make.  Job functions are
taken to return.

Players and encoder: weak fairness for each thread, since each either runs
alone on its step or waits for something that stays enabled.  The file ends.
Nowhere is a spurious wakeup owed.  The demos have one thread that never waits
for another, so weak fairness for it; the loop of `png_process_data` runs on
once it was called, but nobody has to call it.  libjpeg is only called, so
nothing is owed of it.

## What was found

Seven places where the code does not do what its documentation says, each a run
that violates one property:

1. `pool_free`: `thpool_destroy` polls `num_threads_alive` without its mutex and
   frees the pool while the last worker has still to unlock `thcount_lock`
   inside it.  All else is quiet by then (`TeardownQuiescent`, proved).
2. `pool_two_waiters`: one signal for two clients in `thpool_wait`; the second
   sleeps on an idle pool.
3. `pool_resume`: a pause signal delivered after `thpool_resume` sets
   `threads_on_hold` again, and that worker stays on hold.
4. `pool_pause_add`: the pause stops a worker that holds a mutex of the queue;
   `thpool_add_work` blocks, and with it the client that would resume.
5. `two_pools_serve`: destroying one pool makes the workers of the other leave.
6. `encode_saved`: the storer can miss the signal of the last task between an
   empty `storage_task_dequeue` and `pthread_cond_wait`; the last frames are
   never written and `encode_frames` waits for ever in `pthread_join`.
7. `jpeg_two_pass`: `post_process_2pass` (`jdpostct.c:224`) counts the rows left
   from the beginning of the strip; when part of the last strip was read, rows
   below the image follow.  It takes a vertical factor of 3 or 4, a two-pass
   quantizer, and an application that does not read line by line.

Some more are reachable, and the properties name them as exceptions:

- `MediaPlayer!ReaderStuck`: the speaker sees `readThreadExit` between the two
  sections in which the reader sets it (`media.c:27` and `31`), leaves with the
  mutex of the audio packets, and the reader blocks at 31.
- `VaPlayer!PlayerStranded`: the display waits at `ffmpeg_player.c:173` when the
  decoder sets its flag; nobody wakes it, and it would not look at the flag.
- When it does not hang the VA player destroys images a second time at
  `ffmpeg_player.c:204`; that call fails and the process exits with -1 instead
  of returning to `main` (`VaPlayer!DestroyImage`).
- `VaContext!CrashExplained`: `main` ignores the result of `vaapi_init`
  (`ffmpeg_player.c:235`) and follows a null pointer at 276; a picture that is
  released after `vaapi_init_decoder` failed in the middle divides by zero
  (`ffmpeg.c:147`).  `ObjectsAccounted` excepts these failures and pictures that
  outlive their surfaces, whose ids are put back into the new ring.
- `Decoders!NothingOwed`: `softDecode` and `audioPlayer` do not flush the codec
  and lose what it holds back, and so does the player (`media.c:46`).
- `EncoderSetup!ToolsFitProfile`: the loop at `encodeTest.c:1359-1373` writes
  the profile it tries to `h264_profile`, which it then takes for the choice of
  the user, so only High, the first one, is ever found; and it is only that
  which keeps `ConstrainedBaseline` from being used with CABAC.  The parameter
  sets are sent packed (1653-1656) to drivers that take other packed headers
  only.

Read in the code while modelling, and outside the models: `vaapi_exit` and
`release_encode` destroy surfaces before the context, where `va.h:911-913` has
the context first; `softDecode` destroys an `XImage` that was never made; the
`XImage` of a frame is not freed (`hw_decode.c:165`); sizes in `encodeTest.c`
(1589, 1714) overflow `int` for very large screens; in `pngpread.c` a file whose
compressed data comes in again after another chunk gets a second info callback,
and the end callback comes also when rows are missing.

## Proofs

All theorems are for every value of the constants, under the named assumptions
of the modules:

| Assumption | Says | Why |
| --- | --- | --- |
| `WorkersFinite`, `ThreadsDisjoint`, `OwnerIsClient`, `NullFresh`, `MaxPausesNat`; `SecondPool` | threads are finitely many and not two things at once; the same of the second pool | `threadPool.c` |
| `MaxPacketsNat`, `PoolAssumption`, `DemoAssumption` | a file ends; the player has at least one entry | 17 entries in the source |
| `SurfaceNumsPositive` | the ring has a surface | 1, 3 or 17 in the source, by the codec |
| `PeriodsAssumption` | `ip_period` is not 0 and not above `intra_period` | `encoding2display_order` divides by them |
| `EncoderAssumption` | at least one slot, frame and reference | 16, 60 and 2 |
| `ReferencesFit` | `num_ref_frames * ip_period < SURFACE_NUM` | 2 times 1 and 16; with more, a slot comes round while it is a reference |
| `SurfacesAssumption`, `VaAssumption` | at least one surface; ids of the driver are not 0 | 16 in the encoder, 1, 3 or 17 in the player |
| `BitsAssumption` | words, bytes and steps are not empty; a word holds every code; `2^n` is a number for `n` up to the width of a word | 4 bytes of 8 bits, 4096 words; `bitstream_put_ue` counts the bits of an `int` |
| `PicturesAssumption` | at least two references; a group of B pictures is short of half the range of the order count and of the surfaces, the distance of the IDR pictures of that range; the order count is not wider than the frame number | `ip_period` 1, `intra_idr_period` 60, 16 surfaces, 2 references, fields of 16 and 8 bits |
| `VirtAssumption`, `JpgAssumption`, `JrdAssumption` | the largest array, access and image; factors from 1 to 4 | `MAX_SAMP_FACTOR` |

The proofs follow one pattern.  An inductive invariant is a conjunction of
named parts, each with the remark that says what it is needed for; TLC checked
each of them on the instances of the runs; then there is one lemma for the
initial state, one for each action (or for an action and a part), and one that puts
them together.

**Pool** (`ThreadPoolProofs`).  `TypeCorrect` first; then `Counters`
(`CountsExact` by the cardinality of the sets of places, inductive with
`TypeOK`); then `Stages`, which ties the stage of the pool to the places of the
owner and of the workers, and `Serving`, which adds the flags; from them
`TeardownSafe`, `WorkersServe` and `MutualExclusion` follow: only the reset of
the semaphore releases a mutex that is not the thread's own, and `Stages` says
that nobody is there any more.  `NoWakeupLost` needs `WakeupInv`, which adds
who is between taking the token and pulling; `WaiterNotStranded` builds on the
counters; `JobsOnce` on `JobInv`, which says at which places a thread has a job
in its hands.  `PoolImplements` maps every step to a step of `JobPool` or a
stutter.

**Two pools** (`TwoPoolsProofs`).  `Stages` does not mention the static flags,
so `PoolInv` (types, counters, stages, jobs) survives any step of another pool,
which changes nothing but them (`OthersStep`).  The lemmas of
`ThreadPoolProofs` are used a second time through an instance with the
variables of the second pool: both are torn down quietly
(`BothTornDownQuietly`) and both implement `JobPool` (`BothImplement`).  That
the workers of one serve until *it* is destroyed is false (`two_pools_serve`).

**Player** (`ProgramProofs`).  `TypeCorrect` needs that threads about to
enque have something in their hands.  `Control` (flags, mutexes that were taken
along, lists that were drained, sleepers) gives `LeaksContained`,
`SleepersWoken` and, with `Balance` (what was sent is what was got and what is
queued), `NothingIsCutOff`; `Numbered` and `PicturesHeld` add the order of
packets and the origin of frames for `ListsInOrder`.

**Encoder** (`EncodePipelineProofs`).  `TypeCorrect` includes the range of
`DisplayOrder` for all periods.  `Owned`: a task that waits or is being stored
marks its slot, so a slot that is not marked is shared with none; that is
`SlotsExclusive`.  `Ledger`: what was given to the driver is what was saved,
followed by what the unsaved tasks find in their buffers; a buffer cannot
change under a task because of `Owned`.  With `Tally`, the counts of the two
threads, it gives `FileOrdered`.

`ShotsOrdered`: no shot is encoded twice by `Fresh`, which says that a slot that
nobody uses holds a shot that is in no picture.  With `ip_period` 1 the shots
are in order by `Lockstep`: the two threads go round the slots in the same
order, and slot and shot are congruent modulo the number of slots.

`ReferencesKept`: between two IDR pictures the references are an arithmetic
progression in display order (`Spaced`), whose newest member is known from the
number of the picture (`Newest`, `Lag`).  So all of them are less than
`SURFACE_NUM` before the picture that is rendered, and their slots are not its
slot; that is where `ReferencesFit` is needed.

**Headers and pictures** (`PictureParamsProofs`).  First, of each parameter set
and of the slice header of each type of picture, that the elements written are
those the syntax reads, with the same values: an element is conditional in the
syntax exactly where the code leaves it out.  Then `PpInv`.  `Grouped` says
where encoder and decoder are in a group, that is since the last IDR picture:
`GroupSoFar` has the number of pictures and of references among them, in what
order these are encoded (`Reached`, with B pictures behind the picture they
precede), and that the list of the encoder (`Refs`), its surfaces (`Stored`)
and the decoded pictures of the decoder (`Frames`) are the last
`num_ref_frames` of one arithmetic progression.  No surface is used again while
it is a reference, since all that is kept lies within `num_ref_frames` groups
of B pictures.  With that the frame numbers, the order counts that wrap within
their field, and the lists, by falling frame number for P pictures and by
distance for B pictures, come out the same on both sides: `TheDecoderFollows`,
for every field width, number of references and surfaces, and all periods
within the assumption.  The lists are the one sequence in that order (`CHOOSE`),
so the proof shows that it exists and is unique.

**VA player** (`VaProgramProofs`).  `RingSound`: the tail is as many places
behind the head as there are free surfaces, and free and lent surfaces are a
partition of all; it holds for releases in any order and gives
`SurfacesStayApart`.  `Placed`, `Kept` and `Asleep` say what a place means for
the hands of a thread, for the flag and for the lists: `EntriesAreKept` and
`SleepersAreServed`.  `PictureLedger`: what was returned by the codec is what
was shown, then the picture in the hands of the display, those in the list, and
that in the hands of the decoder: `ShownAsReturned`.

**Bit writer** (`VaProgramProofs`).  `BufferIsLongEnough`: the writer stands
inside the buffer, whose length is a number of steps.  An element that does not
fit ends in the next word, of which `Grown` has made sure; it cannot reach
beyond it, since no element is longer than a word.  For the codes that takes the
least size of a number, which exists as a word holds it (`SizeOfCode`).

**VA context** (`ProgramProofs`).  The order in which the surfaces will be
dealt out, those in the hands of the codec first and then the free places from
the head on (`Dealt`), is not changed by `get_buffer` and is rotated by
`release_buffer`; `RingWhole` says that it has every surface once, as long as
no picture outlived its format.  With `Accounted` (the objects of the driver
are those that the program knows of) and `Supplied` it is inductive through any
number of formats, with ids that are used again: `VaObjectsLive`.

**Encoder and driver** (`VaProgramProofs`), **demos** (`ProgramProofs`).
`EncoderAgreesWithDriver` follows from what the program knows at each place
(`ProfileFound`, `AttributesKnown`) and what exists there (`ObjectsMade`), for
every driver.
`DemoFramesKept`: the frames that were shown, the one in hand and those that
the codec owes are one increasing list (`LinedUp`); what is allocated depends
on the place only (`AllocatedAt`), on the error paths too.

**libjpeg** (`VirtualArrayProofs`, `ProgramProofs`).  The invariant of a virtual
array has its window (`WindowSound`: room for every strip, the strip on loan
inside, what may be written flagged dirty) and `FileUpToDate`.  A transfer in
chunks, a recursion over the chunks, copies exactly the defined rows that are
in the window: `TransferredIs`, by the least chunk for which it would not hold.
From that, `VirtualIsPlain`: whatever fits into memory, each step is one of
`PlainArray` or a stutter.

`RowsReachTheCompressor`: the invariant `JpgInv` of the way in has one part for
each layer: `Counted` for the rows of the application (those it was told of,
those of the call and the one it is not told of when the compressor suspends
add up to those taken), `Prepping` for the conversion buffer, `Staged` and
`Passed` for the iMCU row that is put together and those that were taken.  With
context rows the buffer goes round three groups, and row `r` of the image is in
row `r` modulo three groups; the rows above the image and below it are copies
of the first and the last.

`RowsLeaveInOrder`: the row that comes next is the number of the row group that
the main controller gives out next, times the factor, and what the upsampler
has emitted of it (`Positioned`), for any height, for pieces of any size, both
upsamplers and all quantizers; `PassesAt` is the place of the two passes in the
array between them.  It is proved under the hypothesis that images with a
two-pass quantizer have factors of 1 or 2, since for 3 and 4 it is false
(`jpeg_two_pass`).

With them the counters keep their types (`RowsTypeCorrect`): an iMCU row is
asked for only when a row of the image is still to come from it.

**The programs together** (`ProgramProofs`, `VaProgramProofs`).
`ProgramsRunTheirParts`: a step of `Programs` is a step of the one part that
runs and leaves the others where they started, so every behaviour of `Programs`
is one of each part; the same of `VaPrograms`.  `JpegKeepsRows` is
`JpegRowsKept` as a whole, and `ProgramsAreSafe` puts together what is proved of
the parts: of the invariants of the run `programs` all but `RowsReachPicture`,
`PiecesJoined` and the types of these two modules, and of those of
`va_programs` all but `HeaderReadable` and that words stay in their range.
What is said of libjpeg's rows has the hypothesis on two-pass quantizers.

**Only model-checked**:

- all liveness, as proofs under fairness and of ENABLED are out of this
  prover's reach;
- `Bitstream!HeaderReadable`: an induction over the elements and over the bits
  of each, with facts about powers of 2 that neither library nor provers have;
- `PngRows!RowsReachPicture` and `PngPush!PiecesJoined`: the pixels of a row are
  selected from lists by `SelectSeq`, and the stream is joined by a fold; what
  these compute for lists of any length is an induction over data;
- `TypesOK` and `VaTypesOK` as wholes.  All their parts are proved but
  `RowsTypeOK` and `PushTypeOK`, which need the same folds, and in `BsTypeOK`
  that every word of the buffer is below `2^WORD`, which needs powers of 2 and
  the sum in `va_swap32`.

The induction theorems of the library take an operator as a parameter, which
the provers cannot instantiate; where a proof is by induction over a number it
goes by the least number of a set (`LeastNumber`), and modules with theorems
write recursions as functions.

## Not modelled, and why

- Most of the lines of the repository.  Of some 177,000 lines of implementation
  nearly all are libjpeg and libpng (with their own tests and examples), headers
  of libva, and tables of pixels (`loadsurface_yuv.h` alone is 28,836 lines).
  None of the programs here calls the libraries.  What keeps state between
  calls in a way that can go wrong is modelled for the push reader of libpng and
  for the virtual arrays and the row counters of libjpeg; the rest is transforms
  of one block or row (`jidctint.c`, `jfdctint.c`, `pngrtran.c`), entropy codecs,
  parsers of markers and chunks, tables and test programs: arithmetic on data
  that a model checker does not reach and a model would only write out again.
- In libjpeg: the pools and the limit of memory, the codecs and coefficient
  controllers, raw data, buffered images, and the coefficient arrays, whose
  code is that of the sample arrays with blocks for samples.  The other way of
  the main controller of the decompressor, with context rows
  (`jdmainct.c:386`), cannot be taken: no upsampler asks for it.
- In libpng: pixels, filters, transformations, the contents of chunks, and a
  pause in the row callback, after which `buffer_size` wraps
  (`pngpread.c:584`, `610`) and what follows depends on memory behind a buffer,
  although `libpng-manual.txt:2654` allows the call.
- Failing `malloc` and `pthread_create` in the pool: the code tests only some
  of them and then goes on with a null pointer.
- The one second that `thpool_destroy` polls before it sleeps between polls:
  the two loops differ in speed only.
- Mutexes and condition variables in memory from `malloc` that are never
  initialised (`player.c:8`, `ffmpeg_player.c:218`): the models start from
  memory that reads as initialised.
- The links of the lists: lists are sequences.
- In the encoder: the bit rate, the contents of pictures, the mode without a
  storage thread (`encode_syncmode` stays 0).  With `ip_period` above 1 the
  screen shots would be loaded in the order of encoding, not of display
  (`encodeTest.c:1254`); `parameterInit` sets 1, and `ShotsInOrder` says so.
- How many pictures a codec holds: the ring does not look, so the models assume
  at most as many as there are surfaces.
- Opening files, displays and devices, pixels and samples: I/O without state
  shared with another thread.

## What is left

All parts of the plan are modelled and checked.  Of the proofs, what is left is
what the list above names: `RowsReachPicture` for pictures of any size, by the
rows and columns of a pass as remainders of 8; `PiecesJoined`, by where the
reader stands in the stream; and `HeaderReadable`.  All three wait for an
induction over lists.
