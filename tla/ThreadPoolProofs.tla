-------------------------- MODULE ThreadPoolProofs --------------------------
(* Theorems about the thread pool for any workers, clients and jobs. *)
EXTENDS ThreadPool, FiniteSetTheorems, SequenceTheorems, TLAPS

-----------------------------------------------------------------------------
(* Type correctness *)

LEMMA TypeInit == Init => TypeOK
<1> SUFFICES ASSUME Init PROVE TypeOK
  OBVIOUS
<1> USE OwnerIsClient, ThreadsDisjoint, MaxPausesNat DEF Init
<1>1. /\ pc \in [Threads -> WorkerPC \cup ClientPC]
      /\ \A w \in Workers : pc[w] = "none"
      /\ \A c \in Clients : pc[c] \in {"init", "idle"}
  BY DEF Threads, WorkerPC, ClientPC
<1>2. \A w \in Workers : pc[w] \in WorkerPC
  BY <1>1 DEF WorkerPC
<1>3. \A c \in Clients : pc[c] \in ClientPC /\ pc[c] # "add"
  BY <1>1 DEF ClientPC
<1>4. /\ owner \in [Mutexes -> Threads \cup {NULL}]
      /\ job \in [Threads -> Jobs \cup {NULL}]
  OBVIOUS
<1>5. queue \in Seq(Jobs)
  OBVIOUS
<1>6. /\ alive \in Int /\ working \in Int /\ v \in {0, 1}
      /\ pauses \in 0..MaxPauses
  OBVIOUS
<1>7. /\ keepalive \in BOOLEAN /\ onhold \in BOOLEAN /\ paused \in BOOLEAN
      /\ pool \in {"none", "up", "closing", "freed"}
      /\ hasJobsQ = {} /\ allIdleQ = {}
      /\ done = {} /\ dropped = {} /\ sig = {} /\ held = {}
  OBVIOUS
<1> HIDE DEF Init
<1>8. QED
  BY <1>1, <1>2, <1>3, <1>4, <1>5, <1>6, <1>7 DEF TypeOK

LEMMA TypeStep == TypeOK /\ [Next]_vars => TypeOK'
<1> SUFFICES ASSUME TypeOK, [Next]_vars PROVE TypeOK'
  OBVIOUS
<1> USE OwnerIsClient, ThreadsDisjoint, MaxPausesNat, NullFresh
    DEF TypeOK, Threads, Mutexes, WorkerPC, ClientPC, Goto, Acquire, Release,
        Signalled, bsem_post, globals, counts, jobs, sem, hold
<1>1. CASE InitSteps
  <2>1. CASE thpool_init
    BY <2>1 DEF thpool_init
  <2>2. ASSUME NEW w \in Workers, thread_init(w) PROVE TypeOK'
    BY <2>2 DEF thread_init
  <2>3. CASE InitCreated
    BY <2>3 DEF InitCreated
  <2>4. CASE InitReturn
    BY <2>4 DEF InitReturn
  <2> HIDE DEF TypeOK, Threads, Mutexes, WorkerPC, ClientPC, Goto, Acquire,
             Release, Signalled, bsem_post, globals, counts, jobs, sem, hold
  <2> QED
    BY <1>1, <2>1, <2>2, <2>3, <2>4 DEF InitSteps
<1>2. ASSUME NEW c \in Clients, InCall(c) PROVE TypeOK'
  <2>1. CASE PushLink(c)
    BY <2>1 DEF PushLink
  <2>2. CASE PushPost(c)
    BY <2>2 DEF PushPost
  <2>3. CASE PushPosted(c)
    BY <2>3 DEF PushPosted
  <2>4. CASE PushUnlock(c)
    BY <2>4 DEF PushUnlock
  <2>5. CASE WaitSleep(c)
    BY <2>5 DEF WaitSleep
  <2>6. CASE WaitDone(c)
    BY <2>6 DEF WaitDone
  <2>7. CASE WaitUnlock(c)
    BY <2>7 DEF WaitUnlock
  <2> HIDE DEF TypeOK, Threads, Mutexes, WorkerPC, ClientPC, Goto, Acquire,
             Release, Signalled, bsem_post, globals, counts, jobs, sem, hold
  <2> QED
    BY <1>2, <2>1, <2>2, <2>3, <2>4, <2>5, <2>6, <2>7 DEF InCall
<1>3. ASSUME NEW c \in Clients, Call(c) PROVE TypeOK'
  <2>1. ASSUME NEW j \in Jobs, thpool_add_work(c, j) PROVE TypeOK'
    BY <2>1 DEF thpool_add_work
  <2>2. CASE thpool_wait(c)
    BY <2>2 DEF thpool_wait
  <2>3. CASE thpool_pause(c)
    BY <2>3 DEF thpool_pause
  <2>4. CASE thpool_resume(c)
    BY <2>4 DEF thpool_resume
  <2>5. CASE ClientLeaves(c)
    BY <2>5 DEF ClientLeaves
  <2> HIDE DEF TypeOK, Threads, Mutexes, WorkerPC, ClientPC, Goto, Acquire,
             Release, Signalled, bsem_post, globals, counts, jobs, sem, hold
  <2> QED
    BY <1>3, <2>1, <2>2, <2>3, <2>4, <2>5 DEF Call
<1>4. CASE thpool_destroy
  BY <1>4 DEF thpool_destroy
<1>5. CASE DestroySteps
  <2>1. CASE PollAlive
    BY <2>1 DEF PollAlive
  <2>2. CASE bsem_post_all
    BY <2>2 DEF bsem_post_all
  <2>3. CASE PostedAll
    BY <2>3 DEF PostedAll
  <2>4. CASE ClearPull
    BY <2>4 DEF ClearPull
  <2>5. CASE ClearReset
    BY <2>5 DEF ClearReset
  <2>6. CASE Free
    BY <2>6 DEF Free
  <2> HIDE DEF TypeOK, Threads, Mutexes, WorkerPC, ClientPC, Goto, Acquire,
             Release, Signalled, bsem_post, globals, counts, jobs, sem, hold
  <2> QED
    BY <1>5, <2>1, <2>2, <2>3, <2>4, <2>5, <2>6 DEF DestroySteps
<1>6. ASSUME NEW w \in Workers, Worker(w) PROVE TypeOK'
  <2>1. CASE AliveInc(w)
    BY <2>1 DEF AliveInc
  <2>2. CASE Unlock(w, "started", "thcount", "loop")
    BY <2>2 DEF Unlock
  <2>3. CASE LoopTest(w)
    BY <2>3 DEF LoopTest
  <2>4. CASE BsemSleep(w)
    BY <2>4 DEF BsemSleep
  <2>5. CASE BsemTake(w)
    BY <2>5 DEF BsemTake
  <2>6. CASE Unlock(w, "taken", "bsem", "check")
    BY <2>6 DEF Unlock
  <2>7. CASE KeepaliveTest(w)
    BY <2>7 DEF KeepaliveTest
  <2>8. CASE WorkingInc(w)
    BY <2>8 DEF WorkingInc
  <2>9. CASE Unlock(w, "inced", "thcount", "pull")
    BY <2>9 DEF Unlock
  <2>10. CASE PullNone(w)
    BY <2>10 DEF PullNone
  <2>11. CASE PullJob(w)
    BY <2>11 DEF PullJob
  <2>12. CASE PullPost(w)
    BY <2>12 DEF PullPost
  <2>13. CASE Unlock(w, "posted", "bsem", "pulled")
    BY <2>13 DEF Unlock
  <2>14. CASE Unlock(w, "pulled", "rw", "run")
    BY <2>14 DEF Unlock
  <2>15. CASE RunJob(w)
    BY <2>15 DEF RunJob
  <2>16. CASE WorkingDec(w)
    BY <2>16 DEF WorkingDec
  <2>17. CASE Unlock(w, "deced", "thcount", "loop")
    BY <2>17 DEF Unlock
  <2>18. CASE AliveDec(w)
    BY <2>18 DEF AliveDec
  <2>19. CASE Unlock(w, "exited", "thcount", "gone")
    BY <2>19 DEF Unlock
  <2> HIDE DEF TypeOK, Threads, Mutexes, WorkerPC, ClientPC, Goto, Acquire,
             Release, Signalled, bsem_post, globals, counts, jobs, sem, hold
  <2> QED
    BY <1>6, <2>1, <2>2, <2>3, <2>4, <2>5, <2>6, <2>7, <2>8, <2>9, <2>10,
       <2>11, <2>12, <2>13, <2>14, <2>15, <2>16, <2>17, <2>18, <2>19
    DEF Worker
<1>7. ASSUME NEW w \in Workers, thread_hold(w) \/ HoldReturn(w) PROVE TypeOK'
  <2>1. CASE thread_hold(w)
    BY <2>1 DEF thread_hold
  <2>2. CASE HoldReturn(w)
    BY <2>2 DEF HoldReturn
  <2> HIDE DEF TypeOK, Threads, Mutexes, WorkerPC, ClientPC, Goto, Acquire,
             Release, Signalled, bsem_post, globals, counts, jobs, sem, hold
  <2> QED
    BY <1>7, <2>1, <2>2
<1>8. CASE SpuriousWake
  BY <1>8 DEF SpuriousWake
<1>9. CASE UNCHANGED vars
  BY <1>9 DEF vars, private
<1> HIDE DEF TypeOK, Threads, Mutexes, WorkerPC, ClientPC, Goto, Acquire,
           Release, Signalled, bsem_post, globals, counts, jobs, sem, hold
<1>10. QED
  BY <1>1, <1>2, <1>3, <1>4, <1>5, <1>6, <1>7, <1>8, <1>9 DEF Next, Finished

(* Every variable of the pool has its type in every reachable state. *)
THEOREM TypeCorrect == Spec => []TypeOK
  BY TypeInit, TypeStep, PTL DEF Spec

-----------------------------------------------------------------------------
(* The counters *)

AliveSet == {w \in Workers : pc[w] \in Counted}
WorkingSet == {w \in Workers : pc[w] \in Working}

LEMMA CountsInit == Init => CountsExact
<1> SUFFICES ASSUME Init PROVE CountsExact
  OBVIOUS
<1>1. AliveSet = {} /\ WorkingSet = {}
  BY DEF Init, Threads, AliveSet, WorkingSet, Counted, Working
<1>2. QED
  BY <1>1, FS_EmptySet DEF Init, CountsExact, AliveSet, WorkingSet

LEMMA CountsStep == TypeOK /\ CountsExact /\ [Next]_vars => CountsExact'
<1> SUFFICES ASSUME TypeOK, CountsExact, [Next]_vars PROVE CountsExact'
  OBVIOUS
<1>1. /\ pc \in [Threads -> WorkerPC \cup ClientPC]
      /\ Owner \in Threads /\ Owner \notin Workers
      /\ \A c \in Clients : c \in Threads /\ c \notin Workers
      /\ alive \in Int /\ working \in Int
  BY OwnerIsClient, ThreadsDisjoint DEF TypeOK, Threads
<1>2. /\ IsFiniteSet(AliveSet) /\ IsFiniteSet(WorkingSet)
      /\ alive = Cardinality(AliveSet)
      /\ working = Cardinality(WorkingSet)
  BY WorkersFinite, FS_Subset DEF AliveSet, WorkingSet, CountsExact
<1>3. SUFFICES /\ alive' = Cardinality(AliveSet')
               /\ working' = Cardinality(WorkingSet')
  BY DEF CountsExact, AliveSet, WorkingSet
<1>4. ASSUME UNCHANGED counts, AliveSet' = AliveSet, WorkingSet' = WorkingSet
      PROVE  /\ alive' = Cardinality(AliveSet')
             /\ working' = Cardinality(WorkingSet')
  BY <1>2, <1>4 DEF counts
<1> USE <1>1 DEF AliveSet, WorkingSet, Counted, Working, Threads, Goto, counts
<1>5. CASE InitSteps
  <2>1. UNCHANGED counts /\ AliveSet' = AliveSet /\ WorkingSet' = WorkingSet
    BY <1>5 DEF InitSteps, thpool_init, thread_init, InitCreated, InitReturn
  <2> QED
    BY <2>1, <1>4
<1>6. ASSUME NEW c \in Clients, InCall(c) \/ Call(c)
      PROVE  /\ alive' = Cardinality(AliveSet')
             /\ working' = Cardinality(WorkingSet')
  <2>1. UNCHANGED counts /\ AliveSet' = AliveSet /\ WorkingSet' = WorkingSet
    BY <1>6 DEF InCall, PushLink, PushPost, PushPosted, PushUnlock, WaitSleep,
      WaitDone, WaitUnlock, Call, thpool_add_work, thpool_wait, thpool_pause,
      thpool_resume, ClientLeaves
  <2> QED
    BY <2>1, <1>4
<1>7. CASE thpool_destroy \/ DestroySteps
  <2>1. UNCHANGED counts /\ AliveSet' = AliveSet /\ WorkingSet' = WorkingSet
    BY <1>7 DEF thpool_destroy, DestroySteps, PollAlive, bsem_post_all,
      PostedAll, ClearPull, ClearReset, Free
  <2> QED
    BY <2>1, <1>4
<1>8. ASSUME NEW w \in Workers, Worker(w)
      PROVE  /\ alive' = Cardinality(AliveSet')
             /\ working' = Cardinality(WorkingSet')
  <2>1. CASE AliveInc(w)
    <3>1. AliveSet' = AliveSet \cup {w} /\ w \notin AliveSet
      BY <2>1 DEF AliveInc
    <3>2. WorkingSet' = WorkingSet /\ alive' = alive + 1 /\ working' = working
      BY <2>1 DEF AliveInc
    <3> HIDE DEF AliveSet, WorkingSet
    <3> QED
      BY <1>2, <3>1, <3>2, FS_AddElement
  <2>2. CASE AliveDec(w)
    <3>1. AliveSet' = AliveSet \ {w} /\ w \in AliveSet
      BY <2>2 DEF AliveDec
    <3>2. WorkingSet' = WorkingSet /\ alive' = alive - 1 /\ working' = working
      BY <2>2 DEF AliveDec
    <3> HIDE DEF AliveSet, WorkingSet
    <3> QED
      BY <1>2, <3>1, <3>2, FS_RemoveElement
  <2>3. CASE WorkingInc(w)
    <3>1. WorkingSet' = WorkingSet \cup {w} /\ w \notin WorkingSet
      BY <2>3 DEF WorkingInc
    <3>2. AliveSet' = AliveSet /\ working' = working + 1 /\ alive' = alive
      BY <2>3 DEF WorkingInc
    <3> HIDE DEF AliveSet, WorkingSet
    <3> QED
      BY <1>2, <3>1, <3>2, FS_AddElement
  <2>4. CASE WorkingDec(w)
    <3>1. WorkingSet' = WorkingSet \ {w} /\ w \in WorkingSet
      BY <2>4 DEF WorkingDec
    <3>2. AliveSet' = AliveSet /\ working' = working - 1 /\ alive' = alive
      BY <2>4 DEF WorkingDec
    <3> HIDE DEF AliveSet, WorkingSet
    <3> QED
      BY <1>2, <3>1, <3>2, FS_RemoveElement
  <2>5. CASE \/ Unlock(w, "started", "thcount", "loop")
             \/ Unlock(w, "taken", "bsem", "check")
             \/ Unlock(w, "inced", "thcount", "pull")
             \/ Unlock(w, "posted", "bsem", "pulled")
             \/ Unlock(w, "pulled", "rw", "run")
             \/ Unlock(w, "deced", "thcount", "loop")
             \/ Unlock(w, "exited", "thcount", "gone")
    <3>1. UNCHANGED counts /\ AliveSet' = AliveSet /\ WorkingSet' = WorkingSet
      BY <2>5 DEF Unlock
    <3> QED
      BY <3>1, <1>4
  <2>6. CASE LoopTest(w) \/ BsemSleep(w) \/ BsemTake(w) \/ KeepaliveTest(w)
    <3>1. UNCHANGED counts /\ AliveSet' = AliveSet /\ WorkingSet' = WorkingSet
      BY <2>6 DEF LoopTest, BsemSleep, BsemTake, KeepaliveTest
    <3> QED
      BY <3>1, <1>4
  <2>7. CASE PullNone(w) \/ PullJob(w) \/ PullPost(w) \/ RunJob(w)
    <3>1. UNCHANGED counts /\ AliveSet' = AliveSet /\ WorkingSet' = WorkingSet
      BY <2>7 DEF PullNone, PullJob, PullPost, RunJob
    <3> QED
      BY <3>1, <1>4
  <2> HIDE DEF AliveSet, WorkingSet
  <2> QED
    BY <1>8, <2>1, <2>2, <2>3, <2>4, <2>5, <2>6, <2>7 DEF Worker
<1>9. ASSUME NEW w \in Workers, thread_hold(w) \/ HoldReturn(w)
      PROVE  /\ alive' = Cardinality(AliveSet')
             /\ working' = Cardinality(WorkingSet')
  BY <1>9, <1>4 DEF thread_hold, HoldReturn
<1>10. CASE SpuriousWake \/ UNCHANGED vars
  BY <1>10, <1>4 DEF SpuriousWake, vars, private
<1> HIDE DEF AliveSet, WorkingSet
<1>11. QED
  BY <1>5, <1>6, <1>7, <1>8, <1>9, <1>10 DEF Next, Finished

(* num_threads_alive and num_threads_working are exact in every reachable  *)
(* state, however the critical sections of the workers interleave.         *)
THEOREM Counters == Spec => []CountsExact
  BY TypeCorrect, CountsInit, CountsStep, PTL DEF Spec

-----------------------------------------------------------------------------
(* The stages of the pool *)

(* What the owner, the other clients and the workers may be doing at each  *)
(* stage: the inductive invariant behind the safety of the teardown.  It   *)
(* says nothing of the flags, which another pool may change.               *)
OwnerStages ==
  /\ pool = "none" <=> pc[Owner] \in {"init", "create", "spin"}
  /\ pool = "closing" <=>
       pc[Owner] \in {"poll", "postAll", "postedAll", "clear", "free"}
  /\ pool = "freed" <=> pc[Owner] = "done"
ClientStages ==
  \A c \in Clients \ {Owner} :
    /\ pc[c] \in {"idle", "add", "addPost", "addPosted", "addUnlock", "wait",
                  "waited", "done"}
    /\ pool = "none" => pc[c] = "idle"
    /\ pool \in {"closing", "freed"} => pc[c] = "done"
WorkerStages ==
  \A w \in Workers :
    /\ pc[Owner] = "init" => pc[w] = "none"
    /\ pc[Owner] \notin {"init", "create"} => pc[w] # "none"
    /\ pool # "none" => pc[w] # "start"
Stages == OwnerStages /\ ClientStages /\ WorkerStages /\ TeardownQuiescent

(* What a pool adds that has the flags for itself. *)
Serving ==
  /\ keepalive <=> pc[Owner] # "init" /\ pool \in {"none", "up"}
  /\ ServesWhileUp

LEMMA StagesInit == Init => Stages /\ Serving
  BY OwnerIsClient, ThreadsDisjoint
  DEF Init, Stages, Serving, OwnerStages, ClientStages, WorkerStages,
      ServesWhileUp, TeardownQuiescent, Threads

(* When the counter says that all workers are alive, they all are, and     *)
(* when it says that none is, none is.                                     *)
LEMMA AllAlive ==
  ASSUME CountsExact, alive = Cardinality(Workers)
  PROVE  \A w \in Workers : pc[w] \in Counted
<1>1. AliveSet \subseteq Workers /\ Cardinality(AliveSet) = Cardinality(Workers)
  BY DEF AliveSet, CountsExact
<1>2. AliveSet = Workers
  BY <1>1, WorkersFinite, FS_Subset
<1>3. QED
  BY <1>2 DEF AliveSet

LEMMA NoneAlive ==
  ASSUME CountsExact, alive = 0
  PROVE  \A w \in Workers : pc[w] \notin Counted
<1>1. IsFiniteSet(AliveSet) /\ Cardinality(AliveSet) = 0
  BY WorkersFinite, FS_Subset DEF AliveSet, CountsExact
<1>2. AliveSet = {}
  BY <1>1, FS_EmptySet
<1>3. QED
  BY <1>2 DEF AliveSet

LEMMA StagesStep ==
  TypeOK /\ CountsExact /\ Stages /\ [Next]_vars => Stages'
<1> SUFFICES ASSUME TypeOK, CountsExact, Stages, [Next]_vars PROVE Stages'
  OBVIOUS
<1>1. /\ pc \in [Threads -> WorkerPC \cup ClientPC]
      /\ \A w \in Workers : pc[w] \in WorkerPC
      /\ Owner \in Threads /\ Owner \in Clients
      /\ pool \in {"none", "up", "closing", "freed"}
      /\ \A c \in Clients : c \in Threads /\ c \notin Workers
  BY OwnerIsClient, ThreadsDisjoint DEF TypeOK, Threads
<1> USE <1>1 DEF Stages, OwnerStages, ClientStages, WorkerStages,
        TeardownQuiescent, Threads, Goto, globals, WorkerPC
<1>2. CASE thpool_init \/ InitCreated
  BY <1>2 DEF thpool_init, InitCreated
<1>3. ASSUME NEW w \in Workers, thread_init(w) PROVE Stages'
  BY <1>3 DEF thread_init
<1>4. CASE InitReturn
  <2>1. alive = Cardinality(Workers)
    BY <1>4 DEF InitReturn
  <2>2. \A w \in Workers : pc[w] \in Counted
    BY <2>1, AllAlive
  <2>3. \A w \in Workers : pc[w] # "none" /\ pc[w] # "start"
    BY <2>2 DEF Counted
  <2> QED
    BY <1>4, <2>3 DEF InitReturn
<1>5. ASSUME NEW c \in Clients, InCall(c) PROVE Stages'
  BY <1>5 DEF InCall, PushLink, PushPost, PushPosted, PushUnlock, WaitSleep,
    WaitDone, WaitUnlock
<1>6. ASSUME NEW c \in Clients, Call(c) PROVE Stages'
  BY <1>6 DEF Call, thpool_add_work, thpool_wait, thpool_pause,
    thpool_resume, ClientLeaves
<1>7. CASE thpool_destroy
  BY <1>7 DEF thpool_destroy
<1>8. CASE PollAlive
  <2>1. CASE alive # 0
    BY <1>8, <2>1 DEF PollAlive
  <2>2. CASE alive = 0
    <3>1. \A w \in Workers : pc[w] \notin Counted
      BY <2>2, NoneAlive
    <3>2. \A w \in Workers : pc[w] \in {"exited", "gone"}
      BY <1>8, <3>1 DEF PollAlive, Counted
    <3> QED
      BY <1>8, <2>2, <3>2 DEF PollAlive
  <2> QED
    BY <2>1, <2>2
<1>9. CASE bsem_post_all \/ PostedAll \/ ClearPull \/ ClearReset \/ Free
  BY <1>9 DEF bsem_post_all, PostedAll, ClearPull, ClearReset, Free
<1>10. ASSUME NEW w \in Workers, Worker(w) PROVE Stages'
  BY <1>10 DEF Worker, AliveInc, Unlock, LoopTest, BsemSleep, BsemTake,
    KeepaliveTest, WorkingInc, PullNone, PullJob, PullPost, RunJob, WorkingDec,
    AliveDec
<1>11. ASSUME NEW w \in Workers, thread_hold(w) \/ HoldReturn(w) PROVE Stages'
  BY <1>11 DEF thread_hold, HoldReturn
<1>12. CASE SpuriousWake \/ UNCHANGED vars
  BY <1>12 DEF SpuriousWake, vars, private
<1> HIDE DEF Stages
<1>13. QED
  BY <1>2, <1>3, <1>4, <1>5, <1>6, <1>7, <1>8, <1>9, <1>10, <1>11, <1>12
  DEF Next, Finished, InitSteps, DestroySteps

LEMMA ServingStep == TypeOK /\ Stages /\ Serving /\ [Next]_vars => Serving'
<1> SUFFICES ASSUME TypeOK, Stages, Serving, [Next]_vars PROVE Serving'
  OBVIOUS
<1>1. /\ pc \in [Threads -> WorkerPC \cup ClientPC]
      /\ \A w \in Workers : pc[w] \in WorkerPC
      /\ Owner \in Threads /\ Owner \in Clients
      /\ pool \in {"none", "up", "closing", "freed"} /\ keepalive \in BOOLEAN
      /\ \A c \in Clients : c \in Threads /\ c \notin Workers
      /\ OwnerStages /\ ClientStages /\ WorkerStages
  BY OwnerIsClient, ThreadsDisjoint DEF TypeOK, Threads, Stages
<1> USE <1>1 DEF Serving, OwnerStages, ServesWhileUp, Threads, Goto, globals
<1>2. CASE InitSteps
  BY <1>2 DEF InitSteps, thpool_init, thread_init, InitCreated, InitReturn,
    WorkerStages
<1>3. ASSUME NEW c \in Clients, InCall(c) PROVE Serving'
  BY <1>3 DEF InCall, PushLink, PushPost, PushPosted, PushUnlock, WaitSleep,
    WaitDone, WaitUnlock
<1>4. ASSUME NEW c \in Clients, Call(c) PROVE Serving'
  BY <1>4 DEF Call, thpool_add_work, thpool_wait, thpool_pause,
    thpool_resume, ClientLeaves
<1>5. CASE thpool_destroy
  BY <1>5 DEF thpool_destroy
<1>6. CASE DestroySteps
  BY <1>6 DEF DestroySteps, PollAlive, bsem_post_all, PostedAll, ClearPull,
    ClearReset, Free
<1>7. ASSUME NEW w \in Workers, Worker(w) PROVE Serving'
  BY <1>7 DEF Worker, AliveInc, Unlock, LoopTest, BsemSleep, BsemTake,
    KeepaliveTest, WorkingInc, PullNone, PullJob, PullPost, RunJob, WorkingDec,
    AliveDec, WorkerStages
<1>8. ASSUME NEW w \in Workers, thread_hold(w) \/ HoldReturn(w) PROVE Serving'
  BY <1>8 DEF thread_hold, HoldReturn
<1>9. CASE SpuriousWake \/ UNCHANGED vars
  BY <1>9 DEF SpuriousWake, vars, private
<1> HIDE DEF Serving
<1>10. QED
  BY <1>2, <1>3, <1>4, <1>5, <1>6, <1>7, <1>8, <1>9 DEF Next, Finished

LEMMA StagesAlways == Spec => [](Stages /\ Serving)
  BY TypeCorrect, Counters, StagesInit, StagesStep, ServingStep, PTL DEF Spec

(* thpool_destroy clears and frees the queue, the semaphore and the        *)
(* counters only after every worker has made its last access to them.      *)
THEOREM TeardownSafe == Spec => []TeardownQuiescent
<1>1. Stages => TeardownQuiescent
  BY DEF Stages
<1>2. QED
  BY StagesAlways, <1>1, PTL

(* No worker leaves a pool that is not being destroyed. *)
THEOREM WorkersServe == Spec => []ServesWhileUp
<1>1. Serving => ServesWhileUp
  BY DEF Serving
<1>2. QED
  BY StagesAlways, <1>1, PTL

-----------------------------------------------------------------------------
(* Mutual exclusion *)

LEMMA LockInit == Init => LockOwners
  BY NullFresh, OwnerIsClient, ThreadsDisjoint
  DEF Init, LockOwners, Holding, Mutexes, Threads

LEMMA LockStep == TypeOK /\ Stages /\ LockOwners /\ [Next]_vars => LockOwners'
<1> SUFFICES ASSUME TypeOK, Stages, LockOwners, [Next]_vars PROVE LockOwners'
  OBVIOUS
<1>1. /\ pc \in [Threads -> WorkerPC \cup ClientPC]
      /\ owner \in [Mutexes -> Threads \cup {NULL}]
      /\ Owner \in Threads
  BY OwnerIsClient DEF TypeOK, Threads
<1> USE <1>1, NullFresh DEF LockOwners, Holding, Mutexes, Threads, Goto,
        Acquire, Release
<1>2. CASE InitSteps
  BY <1>2 DEF InitSteps, thpool_init, thread_init, InitCreated, InitReturn
<1>3. ASSUME NEW c \in Clients, InCall(c) PROVE LockOwners'
  BY <1>3 DEF InCall, PushLink, PushPost, PushPosted, PushUnlock, WaitSleep,
              WaitDone, WaitUnlock
<1>4. ASSUME NEW c \in Clients, Call(c) PROVE LockOwners'
  BY <1>4 DEF Call, thpool_add_work, thpool_wait, thpool_pause, thpool_resume,
              ClientLeaves
<1>5. CASE thpool_destroy
  BY <1>5 DEF thpool_destroy
<1>6. CASE PollAlive \/ bsem_post_all \/ PostedAll \/ ClearPull \/ Free
  BY <1>6 DEF PollAlive, bsem_post_all, PostedAll, ClearPull, Free
<1>12. CASE ClearReset
  <2>1. \A t \in Threads : pc[t] \notin Holding("bsem")
    BY <1>12 DEF ClearReset, Stages, TeardownQuiescent, OwnerStages, ClientStages
  <2> QED
    BY <1>12, <2>1 DEF ClearReset
<1>7. ASSUME NEW w \in Workers, Worker(w) PROVE LockOwners'
  BY <1>7 DEF Worker, AliveInc, Unlock, LoopTest, BsemSleep, BsemTake,
    KeepaliveTest, WorkingInc, PullNone, PullJob, PullPost, RunJob, WorkingDec,
    AliveDec
<1>8. ASSUME NEW w \in Workers, thread_hold(w) \/ HoldReturn(w)
      PROVE LockOwners'
  BY <1>8 DEF thread_hold, HoldReturn
<1>9. CASE SpuriousWake
  BY <1>9 DEF SpuriousWake
<1>10. CASE UNCHANGED vars
  BY <1>10 DEF vars, private
<1> HIDE DEF LockOwners
<1>11. QED
  BY <1>2, <1>3, <1>4, <1>5, <1>6, <1>7, <1>8, <1>9, <1>10, <1>12
  DEF Next, Finished, DestroySteps

(* A thread inside a critical section owns its mutex, and nobody else does. *)
THEOREM MutualExclusion == Spec => []LockOwners
  BY TypeCorrect, StagesAlways, LockInit, LockStep, PTL DEF Spec

-----------------------------------------------------------------------------
(* Hand-over of jobs *)

WakeupInv == NoLostWakeup /\ (pool = "none" => queue = <<>>)

LEMMA WakeupInit == Init => WakeupInv
  BY DEF Init, WakeupInv, NoLostWakeup

LEMMA WakeupStep ==
  TypeOK /\ Stages /\ WakeupInv /\ [Next]_vars => WakeupInv'
<1> SUFFICES ASSUME TypeOK, Stages, WakeupInv, [Next]_vars PROVE WakeupInv'
  OBVIOUS
<1>1. /\ pc \in [Threads -> WorkerPC \cup ClientPC]
      /\ Owner \in Threads /\ Owner \in Clients
      /\ \A c \in Clients : c \in Threads /\ c \notin Workers
      /\ \A w \in Workers : w \in Threads
      /\ hasJobsQ \subseteq Workers
      /\ queue \in Seq(Jobs)
  BY OwnerIsClient, ThreadsDisjoint DEF TypeOK, Threads
<1>2. OwnerStages /\ ClientStages
  BY DEF Stages
<1> USE <1>1 DEF WakeupInv, NoLostWakeup, PostDue, HasToken, Goto, globals,
        jobs, sem, bsem_post, Signalled
<1>3. CASE thpool_init \/ InitCreated \/ InitReturn
  BY <1>3, <1>2 DEF thpool_init, InitCreated, InitReturn, OwnerStages
<1>4. ASSUME NEW w \in Workers, thread_init(w) PROVE WakeupInv'
  BY <1>4 DEF thread_init
<1>5. ASSUME NEW c \in Clients, InCall(c) PROVE WakeupInv'
  <2>1. CASE PushLink(c)
    BY <2>1, <1>2 DEF PushLink, OwnerStages, ClientStages
  <2>2. CASE PushPost(c)
    BY <2>2 DEF PushPost
  <2>3. CASE PushPosted(c) \/ PushUnlock(c)
    BY <2>3 DEF PushPosted, PushUnlock
  <2>4. CASE WaitSleep(c) \/ WaitDone(c) \/ WaitUnlock(c)
    BY <2>4 DEF WaitSleep, WaitDone, WaitUnlock
  <2> QED
    BY <1>5, <2>1, <2>2, <2>3, <2>4 DEF InCall
<1>6. ASSUME NEW c \in Clients, Call(c) PROVE WakeupInv'
  BY <1>6 DEF Call, thpool_add_work, thpool_wait, thpool_pause,
    thpool_resume, ClientLeaves
<1>7. CASE thpool_destroy
  BY <1>7 DEF thpool_destroy
<1>8. CASE PollAlive \/ bsem_post_all \/ PostedAll \/ ClearPull \/ ClearReset
           \/ Free
  BY <1>8, <1>2 DEF PollAlive, bsem_post_all, PostedAll, ClearPull, ClearReset,
    Free, OwnerStages
<1>9. ASSUME NEW w \in Workers, Worker(w) PROVE WakeupInv'
  <2>1. CASE AliveInc(w) \/ AliveDec(w) \/ WorkingInc(w) \/ WorkingDec(w)
    BY <2>1 DEF AliveInc, AliveDec, WorkingInc, WorkingDec
  <2>2. CASE \/ Unlock(w, "started", "thcount", "loop")
             \/ Unlock(w, "taken", "bsem", "check")
             \/ Unlock(w, "inced", "thcount", "pull")
             \/ Unlock(w, "posted", "bsem", "pulled")
             \/ Unlock(w, "pulled", "rw", "run")
             \/ Unlock(w, "deced", "thcount", "loop")
             \/ Unlock(w, "exited", "thcount", "gone")
    BY <2>2 DEF Unlock
  <2>3. CASE LoopTest(w) \/ BsemSleep(w) \/ BsemTake(w) \/ KeepaliveTest(w)
    BY <2>3 DEF LoopTest, BsemSleep, BsemTake, KeepaliveTest
  <2>4. CASE PullNone(w) \/ RunJob(w)
    BY <2>4 DEF PullNone, RunJob
  <2>5. CASE PullPost(w)
    BY <2>5 DEF PullPost
  <2>6. CASE PullJob(w)
    BY <2>6 DEF PullJob
  <2> HIDE DEF WakeupInv, Goto
  <2> QED
    BY <1>9, <2>1, <2>2, <2>3, <2>4, <2>5, <2>6 DEF Worker
<1>10. ASSUME NEW w \in Workers, thread_hold(w) \/ HoldReturn(w)
       PROVE WakeupInv'
  BY <1>10 DEF thread_hold, HoldReturn
<1>11. CASE SpuriousWake \/ UNCHANGED vars
  BY <1>11 DEF SpuriousWake, vars, private
<1> HIDE DEF WakeupInv
<1>12. QED
  BY <1>3, <1>4, <1>5, <1>6, <1>7, <1>8, <1>9, <1>10, <1>11
  DEF Next, Finished, InitSteps, DestroySteps

(* As long as the pool serves, no queued job is forgotten: the one token   *)
(* of the semaphore is set, about to be set, or in the hands of a worker   *)
(* that has still to pull, and a set token has a worker awake for it.      *)
THEOREM NoWakeupLost == Spec => []NoLostWakeup
<1>1. WakeupInv => NoLostWakeup
  BY DEF WakeupInv
<1>2. Spec => []WakeupInv
  BY TypeCorrect, StagesAlways, WakeupInit, WakeupStep, PTL DEF Spec
<1>3. QED
  BY <1>1, <1>2, PTL

-----------------------------------------------------------------------------
(* thpool_wait *)

LEMMA WorkingNotZero ==
  ASSUME CountsExact, NEW w \in Workers, pc[w] \in Working
  PROVE  working # 0
<1>1. IsFiniteSet(WorkingSet) /\ working = Cardinality(WorkingSet)
  BY WorkersFinite, FS_Subset DEF WorkingSet, CountsExact
<1>2. w \in WorkingSet
  BY DEF WorkingSet
<1>3. QED
  BY <1>1, <1>2, FS_EmptySet

LEMMA WaiterStep ==
  ASSUME Clients = {Owner}
  PROVE  TypeOK /\ CountsExact /\ NoStrandedWaiter /\ [Next]_vars
           => NoStrandedWaiter'
<1> SUFFICES ASSUME TypeOK, CountsExact, NoStrandedWaiter, [Next]_vars
             PROVE  NoStrandedWaiter'
  OBVIOUS
<1>1. /\ allIdleQ \subseteq {Owner}
      /\ \A c \in allIdleQ : pc[c] = "wait"
      /\ queue \in Seq(Jobs) /\ working \in Int
  BY DEF TypeOK
<1> USE <1>1 DEF NoStrandedWaiter, Goto, counts, jobs
<1>2. CASE InitSteps
  BY <1>2 DEF InitSteps, thpool_init, thread_init, InitCreated, InitReturn
<1>3. ASSUME NEW c \in Clients, InCall(c) PROVE NoStrandedWaiter'
  BY <1>3 DEF InCall, PushLink, PushPost, PushPosted, PushUnlock, WaitSleep,
    WaitDone, WaitUnlock
<1>4. ASSUME NEW c \in Clients, Call(c) PROVE NoStrandedWaiter'
  BY <1>4 DEF Call, thpool_add_work, thpool_wait, thpool_pause,
    thpool_resume, ClientLeaves
<1>5. CASE thpool_destroy \/ DestroySteps
  BY <1>5 DEF thpool_destroy, DestroySteps, PollAlive, bsem_post_all,
    PostedAll, ClearPull, ClearReset, Free
<1>6. ASSUME NEW w \in Workers, Worker(w) PROVE NoStrandedWaiter'
  <2>1. CASE PullJob(w)
    <3>1. working # 0
      BY <2>1, WorkingNotZero DEF PullJob, Working
    <3> QED
      BY <2>1, <3>1 DEF PullJob
  <2>2. CASE WorkingDec(w)
    BY <2>2 DEF WorkingDec, Signalled
  <2>3. CASE WorkingInc(w)
    <3>1. IsFiniteSet(WorkingSet) /\ Cardinality(WorkingSet) \in Nat
      BY WorkersFinite, FS_Subset, FS_CardinalityType DEF WorkingSet
    <3> QED
      BY <2>3, <3>1 DEF WorkingInc, CountsExact, WorkingSet
  <2>4. CASE \/ AliveInc(w) \/ AliveDec(w) \/ LoopTest(w) \/ BsemSleep(w)
             \/ BsemTake(w) \/ KeepaliveTest(w) \/ PullNone(w) \/ PullPost(w)
             \/ RunJob(w)
    BY <2>4 DEF AliveInc, AliveDec, LoopTest, BsemSleep, BsemTake,
      KeepaliveTest, PullNone, PullPost, RunJob
  <2>5. CASE \E from, m, to : Unlock(w, from, m, to)
    BY <2>5 DEF Unlock
  <2> HIDE DEF NoStrandedWaiter, Goto
  <2> QED
    BY <1>6, <2>1, <2>2, <2>3, <2>4, <2>5 DEF Worker
<1>7. ASSUME NEW w \in Workers, thread_hold(w) \/ HoldReturn(w)
      PROVE NoStrandedWaiter'
  BY <1>7 DEF thread_hold, HoldReturn
<1>8. CASE SpuriousWake \/ UNCHANGED vars
  BY <1>8 DEF SpuriousWake, vars, private
<1> HIDE DEF NoStrandedWaiter
<1>9. QED
  BY <1>2, <1>3, <1>4, <1>5, <1>6, <1>7, <1>8 DEF Next, Finished

(* A single client never sleeps in thpool_wait on an idle pool. *)
THEOREM WaiterNotStranded ==
  ASSUME Clients = {Owner}
  PROVE  Spec => []NoStrandedWaiter
<1>1. Init => NoStrandedWaiter
  BY DEF Init, NoStrandedWaiter
<1>2. QED
  BY TypeCorrect, Counters, <1>1, WaiterStep, PTL DEF Spec

-----------------------------------------------------------------------------
(* The pool implements JobPool *)

(* Where a thread holds a job: only on the way from the queue to the end   *)
(* of its function, or from thpool_add_work to the queue.                  *)
JobHolders ==
  /\ \A w \in Workers :
       job[w] # NULL => pc[w] \in {"post", "posted", "pulled", "run"}
  /\ \A c \in Clients : job[c] # NULL => pc[c] = "add"
  /\ dropped # {} => pc[Owner] \in {"clear", "free", "done"}

JobInv == JobOnce /\ JobHolders

LEMMA JobInit == Init => JobInv
  BY DEF Init, JobInv, JobOnce, JobHolders, Threads

LEMMA JobStep ==
  TypeOK /\ Stages /\ JobInv /\ [Next]_vars => JobInv'
<1> SUFFICES ASSUME TypeOK, Stages, JobInv, [Next]_vars PROVE JobInv'
  OBVIOUS
<1>1. /\ pc \in [Threads -> WorkerPC \cup ClientPC]
      /\ job \in [Threads -> Jobs \cup {NULL}]
      /\ Owner \in Threads /\ Owner \in Clients
      /\ \A c \in Clients : c \in Threads /\ c \notin Workers
      /\ \A w \in Workers : w \in Threads /\ w \notin Clients
      /\ Threads = Workers \cup Clients
      /\ queue \in Seq(Jobs) /\ done \subseteq Jobs /\ dropped \subseteq Jobs
      /\ NULL \notin Jobs
      /\ \A c \in Clients : pc[c] = "add" => job[c] \in Jobs
  BY OwnerIsClient, ThreadsDisjoint, NullFresh DEF TypeOK, Threads
<1> USE <1>1 DEF JobInv, JobOnce, JobHolders, Goto, jobs
<1>2. CASE UNCHANGED <<queue, job, done, dropped, pc>>
  BY <1>2
<1>3. CASE InitSteps
  BY <1>3 DEF InitSteps, thpool_init, thread_init, InitCreated, InitReturn
<1>4. ASSUME NEW c \in Clients, InCall(c) PROVE JobInv'
  <2>1. CASE PushLink(c)
    BY <2>1 DEF PushLink
  <2>2. CASE PushPost(c) \/ PushPosted(c) \/ PushUnlock(c)
    BY <2>2 DEF PushPost, PushPosted, PushUnlock
  <2>3. CASE WaitSleep(c) \/ WaitDone(c) \/ WaitUnlock(c)
    BY <2>3 DEF WaitSleep, WaitDone, WaitUnlock
  <2> QED
    BY <1>4, <2>1, <2>2, <2>3 DEF InCall
<1>5. ASSUME NEW c \in Clients, Call(c) PROVE JobInv'
  <2>1. ASSUME NEW j \in Jobs, thpool_add_work(c, j) PROVE JobInv'
    BY <2>1 DEF thpool_add_work, Added
  <2>2. CASE thpool_wait(c) \/ thpool_pause(c) \/ thpool_resume(c)
             \/ ClientLeaves(c)
    BY <2>2 DEF thpool_wait, thpool_pause, thpool_resume, ClientLeaves
  <2> QED
    BY <1>5, <2>1, <2>2 DEF Call
<1>6. CASE thpool_destroy
  BY <1>6 DEF thpool_destroy
<1>7. CASE DestroySteps
  <2>1. CASE ClearPull
    BY <2>1 DEF ClearPull
  <2>2. CASE PollAlive \/ bsem_post_all \/ PostedAll \/ ClearReset \/ Free
    BY <2>2 DEF PollAlive, bsem_post_all, PostedAll, ClearReset, Free
  <2> QED
    BY <1>7, <2>1, <2>2 DEF DestroySteps
<1>8. ASSUME NEW w \in Workers, Worker(w) PROVE JobInv'
  <2>1. CASE AliveInc(w) \/ AliveDec(w) \/ WorkingInc(w) \/ WorkingDec(w)
    BY <2>1 DEF AliveInc, AliveDec, WorkingInc, WorkingDec
  <2>2. CASE \/ Unlock(w, "started", "thcount", "loop")
             \/ Unlock(w, "taken", "bsem", "check")
             \/ Unlock(w, "inced", "thcount", "pull")
             \/ Unlock(w, "posted", "bsem", "pulled")
             \/ Unlock(w, "pulled", "rw", "run")
             \/ Unlock(w, "deced", "thcount", "loop")
             \/ Unlock(w, "exited", "thcount", "gone")
    BY <2>2 DEF Unlock
  <2>3. CASE LoopTest(w) \/ BsemSleep(w) \/ BsemTake(w) \/ KeepaliveTest(w)
    BY <2>3 DEF LoopTest, BsemSleep, BsemTake, KeepaliveTest
  <2>4. CASE PullNone(w) \/ PullPost(w)
    BY <2>4 DEF PullNone, PullPost
  <2>5. CASE PullJob(w)
    BY <2>5 DEF PullJob
  <2>6. CASE RunJob(w)
    BY <2>6 DEF RunJob
  <2> HIDE DEF JobInv, Goto
  <2> QED
    BY <1>8, <2>1, <2>2, <2>3, <2>4, <2>5, <2>6 DEF Worker
<1>9. ASSUME NEW w \in Workers, thread_hold(w) \/ HoldReturn(w) PROVE JobInv'
  BY <1>9 DEF thread_hold, HoldReturn
<1>10. CASE SpuriousWake \/ UNCHANGED vars
  BY <1>10 DEF SpuriousWake, vars, private
<1> HIDE DEF JobInv
<1>11. QED
  BY <1>3, <1>4, <1>5, <1>6, <1>7, <1>8, <1>9, <1>10 DEF Next, Finished

LEMMA JobAlways == Spec => []JobInv
  BY TypeCorrect, StagesAlways, JobInit, JobStep, PTL DEF Spec

(* A job is queued once, or held by one thread, or done, or freed: no job  *)
(* runs twice and none that a worker pulled is freed unrun.                *)
THEOREM JobsOnce == Spec => []JobOnce
<1>1. JobInv => JobOnce
  BY DEF JobInv
<1>2. QED
  BY JobAlways, <1>1, PTL

(* The state functions that the abstract variables stand for. *)
Running == {job[w] : w \in Workers} \ {NULL}
Waiting == {c \in Clients : pc[c] = "wait"}
Closed == pool \in {"closing", "freed"}

LEMMA AbstractInit == Init => Abstract!Init
<1> SUFFICES ASSUME Init PROVE Abstract!Init
  OBVIOUS
<1>1. Running = {} /\ Waiting = {} /\ Closed = FALSE
  BY OwnerIsClient, ThreadsDisjoint
  DEF Init, Running, Waiting, Closed, Threads
<1>2. QED
  BY <1>1 DEF Init, Abstract!Init, Running, Waiting, Closed

LEMMA AbstractStep ==
  TypeOK /\ CountsExact /\ Stages /\ JobInv /\ [Next]_vars
    => [Abstract!Next]_(Abstract!vars)
<1> SUFFICES ASSUME TypeOK, CountsExact, Stages, JobInv, [Next]_vars
             PROVE  Abstract!Next \/ UNCHANGED Abstract!vars
  OBVIOUS
<1>1. /\ pc \in [Threads -> WorkerPC \cup ClientPC]
      /\ job \in [Threads -> Jobs \cup {NULL}]
      /\ Owner \in Threads /\ Owner \in Clients
      /\ \A c \in Clients : c \in Threads /\ c \notin Workers
      /\ \A w \in Workers : w \in Threads /\ w \notin Clients
      /\ queue \in Seq(Jobs) /\ NULL \notin Jobs
      /\ \A c \in Clients : pc[c] = "add" => job[c] \in Jobs
  BY OwnerIsClient, ThreadsDisjoint, NullFresh DEF TypeOK, Threads
<1>2. ASSUME UNCHANGED <<queue, done, dropped>>, UNCHANGED pool,
             Running' = Running, Waiting' = Waiting
      PROVE  UNCHANGED Abstract!vars
  BY <1>2 DEF Abstract!vars, Running, Waiting
<1> USE <1>1 DEF Goto, jobs
<1>3. CASE InitSteps
  <2>1. /\ UNCHANGED <<queue, done, dropped>> /\ Running' = Running
        /\ Waiting' = Waiting /\ Closed' = Closed
    BY <1>3 DEF InitSteps, thpool_init, thread_init, InitCreated, InitReturn,
      Running, Waiting, Closed, Stages, OwnerStages
  <2> QED
    BY <2>1 DEF Abstract!vars, Running, Waiting, Closed
<1>4. ASSUME NEW c \in Clients, PushLink(c) PROVE Abstract!Next
  <2>1. job[c] \in Jobs /\ queue' = Append(queue, job[c])
        /\ UNCHANGED <<done, dropped, pool>>
    BY <1>4 DEF PushLink
  <2>2. Running' = Running /\ Waiting' = Waiting
    BY <1>4 DEF PushLink, Running, Waiting
  <2>3. pool = "up"
    BY <1>4 DEF PushLink, Stages, OwnerStages, ClientStages, TypeOK
  <2>4. job[c] \notin done \cup dropped \cup Running
    BY <2>1 DEF JobInv, JobOnce, Running, Threads
  <2>5. job[c] \notin {queue[i] : i \in DOMAIN queue}
    BY DEF JobInv, JobOnce, Threads
  <2>6. Abstract!Submit(job[c])
    BY <2>1, <2>2, <2>3, <2>4, <2>5
    DEF Abstract!Submit, Abstract!Known, Abstract!Queued, Running, Waiting
  <2> QED
    BY <2>1, <2>6 DEF Abstract!Next
<1>5. ASSUME NEW c \in Clients, PushPost(c) \/ PushPosted(c) \/ PushUnlock(c)
             \/ WaitSleep(c) \/ WaitUnlock(c)
      PROVE  UNCHANGED Abstract!vars
  <2>1. UNCHANGED <<queue, done, dropped, job, pool>> /\ Waiting' = Waiting
    BY <1>5 DEF PushPost, PushPosted, PushUnlock, WaitSleep, WaitUnlock, Waiting
  <2> QED
    BY <2>1, <1>2 DEF Running
<1>6. ASSUME NEW c \in Clients, WaitDone(c) PROVE Abstract!Next
  <2>1. \A w \in Workers : pc[w] \notin Working
    BY <1>6, WorkingNotZero DEF WaitDone
  <2>2. Running = {}
    BY <2>1 DEF JobInv, JobHolders, Running, Working
  <2>3. c \in Waiting /\ Waiting' = Waiting \ {c}
    BY <1>6 DEF WaitDone, Waiting
  <2>4. queue = <<>> /\ UNCHANGED <<queue, done, dropped, job, pool>>
    BY <1>6 DEF WaitDone
  <2>5. Abstract!EndWait(c)
    BY <2>2, <2>3, <2>4 DEF Abstract!EndWait, Running, Waiting
  <2> QED
    BY <2>3, <2>5 DEF Abstract!Next, Waiting
<1>7. ASSUME NEW c \in Clients, thpool_wait(c) PROVE Abstract!Next
  <2>1. c \notin Waiting /\ Waiting' = Waiting \cup {c}
    BY <1>7 DEF thpool_wait, Waiting
  <2>2. pool = "up" /\ UNCHANGED <<queue, done, dropped, job, pool>>
    BY <1>7 DEF thpool_wait
  <2>3. Abstract!BeginWait(c)
    BY <2>1, <2>2 DEF Abstract!BeginWait, Waiting
  <2> QED
    BY <2>1, <2>3 DEF Abstract!Next, Waiting
<1>8. ASSUME NEW c \in Clients, NEW j \in Jobs, thpool_add_work(c, j)
      PROVE UNCHANGED Abstract!vars
  <2>1. /\ UNCHANGED <<queue, done, dropped, pool>>
        /\ Running' = Running /\ Waiting' = Waiting
    BY <1>8 DEF thpool_add_work, Running, Waiting
  <2> QED
    BY <2>1, <1>2
<1>9. ASSUME NEW c \in Clients,
             thpool_pause(c) \/ thpool_resume(c) \/ ClientLeaves(c)
      PROVE UNCHANGED Abstract!vars
  <2>1. UNCHANGED <<queue, done, dropped, job, pool>> /\ Waiting' = Waiting
    BY <1>9 DEF thpool_pause, thpool_resume, ClientLeaves, Waiting
  <2> QED
    BY <2>1, <1>2 DEF Running
<1>10. CASE thpool_destroy
  <2>1. pool = "up" /\ pool' = "closing" /\ UNCHANGED <<queue, done, dropped, job>>
    BY <1>10 DEF thpool_destroy
  <2>2. Waiting = {} /\ Waiting' = Waiting
    BY <1>10 DEF thpool_destroy, Waiting
  <2>3. Abstract!Close
    BY <2>1, <2>2 DEF Abstract!Close, Waiting
  <2> QED
    BY <2>3 DEF Abstract!Next
<1>11. CASE ClearPull
  <2>1. \A w \in Workers : pc[w] \in {"exited", "gone"}
    BY <1>11 DEF ClearPull, Stages, TeardownQuiescent
  <2>2. Running = {}
    BY <2>1 DEF JobInv, JobHolders, Running
  <2>3. pool = "closing"
    BY <1>11 DEF ClearPull, Stages, OwnerStages
  <2>4. /\ queue # <<>> /\ queue' = Tail(queue)
        /\ dropped' = dropped \cup {Head(queue)}
        /\ UNCHANGED <<done, job, pc, pool>>
    BY <1>11 DEF ClearPull
  <2>5. Abstract!Drop
    BY <2>2, <2>3, <2>4 DEF Abstract!Drop, Running
  <2> QED
    BY <2>5 DEF Abstract!Next
<1>12. CASE PollAlive \/ bsem_post_all \/ PostedAll \/ ClearReset \/ Free
  <2>1. /\ UNCHANGED <<queue, done, dropped, job>> /\ Waiting' = Waiting
        /\ Closed' = Closed
    BY <1>12 DEF PollAlive, bsem_post_all, PostedAll, ClearReset, Free, Waiting,
      Closed, Stages, OwnerStages
  <2> QED
    BY <2>1 DEF Abstract!vars, Waiting, Closed
<1>13. ASSUME NEW w \in Workers, PullJob(w) PROVE Abstract!Next
  <2>1. /\ queue # <<>> /\ queue' = Tail(queue)
        /\ job' = [job EXCEPT ![w] = Head(queue)] /\ Head(queue) \in Jobs
        /\ UNCHANGED <<done, dropped, pool>> /\ Waiting' = Waiting
    BY <1>13 DEF PullJob, Waiting
  <2>2. job[w] = NULL
    BY <1>13 DEF PullJob, JobInv, JobHolders
  <2>3. Running' = Running \cup {Head(queue)}
    BY <2>1, <2>2 DEF Running
  <2>4. dropped = {}
    BY <1>13 DEF PullJob, JobInv, JobHolders, Stages, TeardownQuiescent
  <2>5. Abstract!Start
    BY <2>1, <2>3, <2>4 DEF Abstract!Start, Running, Waiting
  <2> QED
    BY <2>5 DEF Abstract!Next
<1>14. ASSUME NEW w \in Workers, RunJob(w)
       PROVE  Abstract!Next \/ UNCHANGED Abstract!vars
  <2>1. /\ UNCHANGED <<queue, dropped, pool>> /\ Waiting' = Waiting
        /\ job' = [job EXCEPT ![w] = NULL] /\ done' = done \cup ({job[w]} \ {NULL})
    BY <1>14 DEF RunJob, Waiting
  <2>2. CASE job[w] = NULL
    <3>1. job' = job /\ done' = done
      BY <2>1, <2>2
    <3> QED
      BY <2>1, <3>1, <1>2 DEF Running
  <2>3. CASE job[w] # NULL
    <3>1. PICK j \in Running : j = job[w]
      BY <2>3 DEF Running
    <3>2. Running' = Running \ {j}
      BY <2>1, <2>3, <3>1 DEF Running, JobInv, JobOnce, Threads
    <3>3. Abstract!Finish(j)
      BY <2>1, <2>3, <3>1, <3>2 DEF Abstract!Finish, Running, Waiting
    <3> QED
      BY <3>1, <3>3 DEF Abstract!Next, Running
  <2> QED
    BY <2>2, <2>3
<1>15. ASSUME NEW w \in Workers, Worker(w), ~PullJob(w), ~RunJob(w)
       PROVE  UNCHANGED Abstract!vars
  <2>1. UNCHANGED <<queue, done, dropped, job, pool>> /\ Waiting' = Waiting
    <3>1. CASE AliveInc(w) \/ AliveDec(w) \/ WorkingInc(w) \/ WorkingDec(w)
               \/ PullNone(w) \/ PullPost(w)
      BY <3>1 DEF AliveInc, AliveDec, WorkingInc, WorkingDec, PullNone,
        PullPost, Waiting
    <3>2. CASE LoopTest(w) \/ BsemSleep(w) \/ BsemTake(w) \/ KeepaliveTest(w)
      BY <3>2 DEF LoopTest, BsemSleep, BsemTake, KeepaliveTest, Waiting
    <3>3. CASE \E from, m, to : Unlock(w, from, m, to)
      BY <3>3 DEF Unlock, Waiting
    <3> QED
      BY <1>15, <3>1, <3>2, <3>3 DEF Worker
  <2> QED
    BY <2>1, <1>2 DEF Running
<1>16. ASSUME NEW w \in Workers, thread_hold(w) \/ HoldReturn(w)
       PROVE  UNCHANGED Abstract!vars
  BY <1>16, <1>2 DEF thread_hold, HoldReturn, Running, Waiting
<1>17. CASE SpuriousWake \/ UNCHANGED vars
  BY <1>17, <1>2 DEF SpuriousWake, vars, private, Running, Waiting
<1>18. QED
  BY <1>3, <1>4, <1>5, <1>6, <1>7, <1>8, <1>9, <1>10, <1>11, <1>12, <1>13,
     <1>14, <1>15, <1>16, <1>17
  DEF Next, Finished, InCall, Call, DestroySteps

(* The pool implements JobPool: jobs start in the order in which they were *)
(* queued and each once, thpool_wait returns only when nothing is queued   *)
(* or running, and destroying the pool drops only jobs that never started. *)
THEOREM PoolImplements == Spec => ImplementsJobPool
  BY TypeCorrect, Counters, StagesAlways, JobAlways, AbstractInit,
     AbstractStep, PTL DEF Spec, ImplementsJobPool, Abstract!Spec

-----------------------------------------------------------------------------
(* A pool among others *)

(* What holds of a pool whatever other pools do to the static flags. *)
PoolInv == TypeOK /\ CountsExact /\ Stages /\ JobInv

LEMMA PoolInvInit == Init => PoolInv
  BY TypeInit, CountsInit, StagesInit, JobInit DEF PoolInv

LEMMA PoolInvStep ==
  PoolInv /\ [Next]_vars => PoolInv' /\ [Abstract!Next]_(Abstract!vars)
  BY TypeStep, CountsStep, StagesStep, JobStep, AbstractStep DEF PoolInv

(* A step of another pool changes the flags only. *)
LEMMA OthersStep ==
  PoolInv /\ UNCHANGED private /\ globals' \in BOOLEAN \X BOOLEAN
    => PoolInv' /\ UNCHANGED Abstract!vars
<1> SUFFICES ASSUME PoolInv, UNCHANGED private,
                    globals' \in BOOLEAN \X BOOLEAN
             PROVE  PoolInv' /\ UNCHANGED Abstract!vars
  OBVIOUS
<1>1. TypeOK'
  BY DEF PoolInv, TypeOK, private, globals
<1>2. CountsExact'
  BY DEF PoolInv, CountsExact, private
<1>3. Stages'
  BY DEF PoolInv, Stages, OwnerStages, ClientStages, WorkerStages,
         TeardownQuiescent, private
<1>4. JobInv'
  BY DEF PoolInv, JobInv, JobOnce, JobHolders, private
<1>5. UNCHANGED Abstract!vars
  BY DEF Abstract!vars, private
<1> QED
  BY <1>1, <1>2, <1>3, <1>4, <1>5 DEF PoolInv
=============================================================================
