--------------------------- MODULE TwoPoolsProofs ---------------------------
(***************************************************************************)
(* Theorems about two pools that share the static flags of threadPool.c.   *)
(***************************************************************************)
EXTENDS TwoPools, ThreadPoolProofs

(* What ThreadPoolProofs proves, about the second pool. *)
P2 == INSTANCE ThreadPoolProofs WITH
  Workers <- Workers2, Clients <- Clients2, Owner <- Owner2, Jobs <- Jobs2,
  pool <- pool2, pc <- pc2, owner <- owner2, alive <- alive2,
  working <- working2, queue <- queue2, v <- v2, hasJobsQ <- hasJobsQ2,
  allIdleQ <- allIdleQ2, job <- job2, done <- done2, dropped <- dropped2,
  sig <- sig2, held <- held2, pauses <- pauses2, paused <- paused2

-----------------------------------------------------------------------------
(* The second pool: the constants fit, the lemmas hold, and P2 and Second  *)
(* are the same. *)

LEMMA SecondFits ==
  /\ P2!IsFiniteSet(Workers2) /\ Workers2 \cap Clients2 = {}
  /\ Owner2 \in Clients2 /\ NULL \notin Workers2 \cup Clients2 \cup Jobs2
  /\ MaxPauses \in Nat
  BY SecondPool, MaxPausesNat DEF IsFiniteSet, P2!IsFiniteSet

LEMMA SecondStarts == Second!Init => P2!PoolInv /\ P2!Abstract!Init
<1>1. P2!Init => P2!PoolInv /\ P2!Abstract!Init
  BY P2!PoolInvInit, P2!AbstractInit, SecondFits
<1>2. Second!Init => P2!Init
  BY DEF Second!Init, P2!Init, Second!Threads, P2!Threads, Second!Mutexes,
         P2!Mutexes
<1> QED
  BY <1>1, <1>2

LEMMA SecondMoves ==
  P2!PoolInv /\ [P2!Next]_(P2!vars)
    => P2!PoolInv' /\ [P2!Abstract!Next]_(P2!Abstract!vars)
  BY P2!PoolInvStep, SecondFits

LEMMA SecondIgnores ==
  P2!PoolInv /\ UNCHANGED P2!private /\ P2!globals' \in BOOLEAN \X BOOLEAN
    => P2!PoolInv' /\ UNCHANGED P2!Abstract!vars
  BY P2!OthersStep, SecondFits

(* Both instances name the same steps. *)
LEMMA SameSteps == (Second!Next <=> P2!Next) /\ Second!vars = P2!vars
<1>1. Second!vars = P2!vars
  BY DEF Second!vars, Second!private, Second!globals, P2!vars, P2!private,
      P2!globals
<1>2. Second!InitSteps <=> P2!InitSteps
  BY DEF Second!globals, Second!counts, Second!jobs, Second!hold,
      Second!Goto, Second!sem, Second!InitSteps, Second!thpool_init,
      Second!thread_init, Second!InitCreated, Second!InitReturn,
      Second!Cardinality, P2!globals, P2!counts, P2!jobs, P2!hold, P2!Goto,
      P2!sem, P2!InitSteps, P2!thpool_init, P2!thread_init, P2!InitCreated,
      P2!InitReturn, P2!Cardinality
<1>3. \A c \in Clients2 : Second!InCall(c) <=> P2!InCall(c)
  BY DEF Second!globals, Second!counts, Second!jobs, Second!hold,
      Second!Goto, Second!sem, Second!Acquire, Second!Release,
      Second!Signalled, Second!bsem_post, Second!InCall, Second!PushLink,
      Second!PushPost, Second!PushPosted, Second!PushUnlock,
      Second!WaitSleep, Second!WaitDone, Second!WaitUnlock, P2!globals,
      P2!counts, P2!jobs, P2!hold, P2!Goto, P2!sem, P2!Acquire, P2!Release,
      P2!Signalled, P2!bsem_post, P2!InCall, P2!PushLink, P2!PushPost,
      P2!PushPosted, P2!PushUnlock, P2!WaitSleep, P2!WaitDone, P2!WaitUnlock
<1>4. \A c \in Clients2 : Second!Call(c) <=> P2!Call(c)
  BY DEF Second!globals, Second!counts, Second!jobs, Second!hold,
      Second!Goto, Second!sem, Second!Threads, Second!Added, Second!Call,
      Second!thpool_add_work, Second!thpool_wait, Second!thpool_pause,
      Second!thpool_resume, Second!ClientLeaves, P2!globals, P2!counts,
      P2!jobs, P2!hold, P2!Goto, P2!sem, P2!Threads, P2!Added, P2!Call,
      P2!thpool_add_work, P2!thpool_wait, P2!thpool_pause, P2!thpool_resume,
      P2!ClientLeaves
<1>5. Second!thpool_destroy <=> P2!thpool_destroy
  BY DEF Second!counts, Second!jobs, Second!hold, Second!Goto, Second!sem,
      Second!thpool_destroy, P2!counts, P2!jobs, P2!hold, P2!Goto, P2!sem,
      P2!thpool_destroy
<1>6. Second!DestroySteps <=> P2!DestroySteps
  BY DEF Second!globals, Second!counts, Second!jobs, Second!hold,
      Second!Goto, Second!sem, Second!Acquire, Second!Release,
      Second!Signalled, Second!bsem_post, Second!DestroySteps,
      Second!PollAlive, Second!bsem_post_all, Second!PostedAll,
      Second!ClearPull, Second!ClearReset, Second!Free, P2!globals,
      P2!counts, P2!jobs, P2!hold, P2!Goto, P2!sem, P2!Acquire, P2!Release,
      P2!Signalled, P2!bsem_post, P2!DestroySteps, P2!PollAlive,
      P2!bsem_post_all, P2!PostedAll, P2!ClearPull, P2!ClearReset, P2!Free
<1>7. \A w \in Workers2 : Second!Worker(w) <=> P2!Worker(w)
  BY DEF Second!globals, Second!counts, Second!jobs, Second!hold,
      Second!Goto, Second!sem, Second!Acquire, Second!Release,
      Second!Signalled, Second!bsem_post, Second!Unlock, Second!Worker,
      Second!AliveInc, Second!LoopTest, Second!BsemSleep, Second!BsemTake,
      Second!KeepaliveTest, Second!WorkingInc, Second!PullNone,
      Second!PullJob, Second!PullPost, Second!RunJob, Second!WorkingDec,
      Second!AliveDec, P2!globals, P2!counts, P2!jobs, P2!hold, P2!Goto,
      P2!sem, P2!Acquire, P2!Release, P2!Signalled, P2!bsem_post, P2!Unlock,
      P2!Worker, P2!AliveInc, P2!LoopTest, P2!BsemSleep, P2!BsemTake,
      P2!KeepaliveTest, P2!WorkingInc, P2!PullNone, P2!PullJob, P2!PullPost,
      P2!RunJob, P2!WorkingDec, P2!AliveDec
<1>8. \A w \in Workers2 : /\ Second!thread_hold(w) <=> P2!thread_hold(w)
                          /\ Second!HoldReturn(w) <=> P2!HoldReturn(w)
  BY DEF Second!globals, Second!counts, Second!jobs, Second!sem,
      Second!thread_hold, Second!HoldReturn, P2!globals, P2!counts, P2!jobs,
      P2!sem, P2!thread_hold, P2!HoldReturn
<1>9. /\ Second!SpuriousWake <=> P2!SpuriousWake
      /\ Second!Finished <=> P2!Finished
  BY DEF Second!globals, Second!private, Second!vars, Second!counts,
      Second!jobs, Second!hold, Second!SpuriousWake, Second!Finished,
      P2!globals, P2!private, P2!vars, P2!counts, P2!jobs, P2!hold,
      P2!SpuriousWake, P2!Finished
<1> QED
  BY <1>1, <1>2, <1>3, <1>4, <1>5, <1>6, <1>7, <1>8, <1>9
  DEF Second!Next, P2!Next

(* Nor do they differ in what they promise. *)
LEMMA SamePromise ==
  /\ Second!Abstract!Init <=> P2!Abstract!Init
  /\ Second!Abstract!Next <=> P2!Abstract!Next
  /\ UNCHANGED Second!Abstract!vars <=> UNCHANGED P2!Abstract!vars
  BY DEF Second!Abstract!Init, P2!Abstract!Init, Second!Abstract!vars,
      P2!Abstract!vars, Second!Abstract!Next, P2!Abstract!Next,
      Second!Abstract!Submit, P2!Abstract!Submit, Second!Abstract!Known,
      P2!Abstract!Known, Second!Abstract!Queued, P2!Abstract!Queued,
      Second!Abstract!Start, P2!Abstract!Start, Second!Abstract!Finish,
      P2!Abstract!Finish, Second!Abstract!BeginWait, P2!Abstract!BeginWait,
      Second!Abstract!EndWait, P2!Abstract!EndWait, Second!Abstract!Close,
      P2!Abstract!Close, Second!Abstract!Drop, P2!Abstract!Drop

-----------------------------------------------------------------------------
(* The two pools together *)

BothInv == PoolInv /\ P2!PoolInv

LEMMA BothStart ==
  BothInit => BothInv /\ Abstract!Init /\ Second!Abstract!Init
  BY PoolInvInit, AbstractInit, SecondStarts, SamePromise
  DEF BothInit, BothInv

(* Every step of one pool is a step of its abstract specification and      *)
(* leaves the other pool's alone. *)
LEMMA BothMove ==
  BothInv /\ [BothNext]_<<vars, private2>> =>
    /\ BothInv'
    /\ [Abstract!Next]_(Abstract!vars)
    /\ [Second!Abstract!Next]_(Second!Abstract!vars)
<1> SUFFICES ASSUME BothInv, [BothNext]_<<vars, private2>>
             PROVE  /\ BothInv'
                    /\ [Abstract!Next]_(Abstract!vars)
                    /\ [P2!Abstract!Next]_(P2!Abstract!vars)
  BY SamePromise
<1>1. ASSUME [Next]_vars, UNCHANGED private2
      PROVE  /\ BothInv'
             /\ [Abstract!Next]_(Abstract!vars)
             /\ [P2!Abstract!Next]_(P2!Abstract!vars)
  <2>1. PoolInv' /\ [Abstract!Next]_(Abstract!vars)
    BY <1>1, PoolInvStep DEF BothInv
  <2>2. globals' \in BOOLEAN \X BOOLEAN
    BY <2>1 DEF PoolInv, TypeOK, globals
  <2>3. UNCHANGED P2!private /\ P2!globals' \in BOOLEAN \X BOOLEAN
    BY <1>1, <2>2 DEF private2, P2!private, globals, P2!globals
  <2>4. P2!PoolInv' /\ UNCHANGED P2!Abstract!vars
    BY <2>3, SecondIgnores DEF BothInv
  <2> QED
    BY <2>1, <2>4 DEF BothInv
<1>2. ASSUME Second!Next, UNCHANGED private
      PROVE  /\ BothInv'
             /\ [Abstract!Next]_(Abstract!vars)
             /\ [P2!Abstract!Next]_(P2!Abstract!vars)
  <2>1. P2!PoolInv' /\ [P2!Abstract!Next]_(P2!Abstract!vars)
    BY <1>2, SameSteps, SecondMoves DEF BothInv
  <2>2. globals' \in BOOLEAN \X BOOLEAN
    BY <2>1 DEF P2!PoolInv, P2!TypeOK, globals
  <2>3. PoolInv' /\ UNCHANGED Abstract!vars
    BY <1>2, <2>2, OthersStep DEF BothInv
  <2> QED
    BY <2>1, <2>3 DEF BothInv
<1>3. CASE UNCHANGED <<vars, private2>>
  BY <1>1, <1>3
<1> QED
  BY <1>1, <1>2, <1>3 DEF BothNext

LEMMA BothAlways == BothSpec => []BothInv
  BY BothStart, BothMove, PTL DEF BothSpec

(* Destroying one pool clears the flag that the workers of the other look  *)
(* at; they leave their loops, but neither pool is ever cleared or freed   *)
(* while one of its workers can look at it. *)
THEOREM BothTornDownQuietly ==
  BothSpec => [](TeardownQuiescent /\ SecondTeardown)
<1>1. PoolInv => TeardownQuiescent
  BY DEF PoolInv, Stages
<1>2. P2!PoolInv => SecondTeardown
  BY DEF P2!PoolInv, P2!Stages, P2!TeardownQuiescent, SecondTeardown,
         Second!TeardownQuiescent
<1> QED
  BY <1>1, <1>2, BothAlways, PTL DEF BothInv

(* Each pool implements JobPool: its jobs start in order and each once,    *)
(* and thpool_wait returns only on an idle pool, whatever the other pool   *)
(* does to the flags. *)
THEOREM BothImplement == BothSpec => ImplementsJobPool /\ SecondImplements
  BY BothStart, BothMove, BothAlways, PTL
  DEF BothSpec, ImplementsJobPool, Abstract!Spec, SecondImplements,
      Second!ImplementsJobPool, Second!Abstract!Spec
=============================================================================
