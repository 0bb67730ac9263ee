------------------------------ MODULE ThreadPool ------------------------------
(***************************************************************************)
(* The thread pool of src/videoAudioPlayer/threadPool.c (an identical copy *)
(* serves the VAAPI player).  Workers run thread_do; clients are the       *)
(* threads that call the thpool_* functions, and Owner is the client that  *)
(* creates and destroys the pool.                                          *)
(*                                                                         *)
(* The three mutexes of the pool are explicit.  A critical section is two  *)
(* steps: one that acquires the mutex and does the work of the section,    *)
(* one that releases it.  The state between the two is visible, because    *)
(* the code reads jobqueue.len and num_threads_alive without their mutex,  *)
(* and because SIGUSR1 can stop a worker there.  A condition variable is   *)
(* the set of the threads asleep on it; a thread that is woken, by a       *)
(* signal or spuriously, re-evaluates the condition of its while loop.     *)
(*                                                                         *)
(* Definitions without a comment that stand before the one they resemble   *)
(* are plausible bugs of it (AcquireUnchecked of Acquire): no action uses  *)
(* them, they serve to see that the properties notice.                     *)
(***************************************************************************)
EXTENDS Integers, Sequences, FiniteSets

CONSTANTS Workers,    \* the threads that thpool_init creates
          Clients,    \* the threads that call the pool's functions
          Owner,      \* the client that calls thpool_init, thpool_destroy
          Jobs,       \* the jobs that clients may add, each of them once
          NULL,       \* no thread, no job
          MaxPauses   \* bound on the calls of thpool_pause

ASSUME WorkersFinite == IsFiniteSet(Workers)
ASSUME ThreadsDisjoint == Workers \cap Clients = {}
ASSUME OwnerIsClient == Owner \in Clients
ASSUME NullFresh == NULL \notin Workers \cup Clients \cup Jobs
ASSUME MaxPausesNat == MaxPauses \in Nat

VARIABLES
  keepalive,  \* threads_keepalive, a static shared by every pool
  onhold,     \* threads_on_hold, a static shared by every pool
  pool,       \* the stage of the pool: "none", "up", "closing" or "freed"
  pc,         \* the place of every thread in its function
  owner,      \* the holder of every mutex, or NULL
  alive,      \* num_threads_alive
  working,    \* num_threads_working
  queue,      \* the jobs linked from jobqueue.front; jobqueue.len = Len(queue)
  v,          \* has_jobs->v, the binary semaphore
  hasJobsQ,   \* the workers asleep on has_jobs->cond
  allIdleQ,   \* the clients asleep on threads_all_idle
  job,        \* job_p of a worker that pulled; newjob of a client that adds
  done,       \* the jobs whose function returned
  dropped,    \* the jobs that jobqueue_clear freed
  sig,        \* the workers with SIGUSR1 pending
  held,       \* the workers inside the handler thread_hold
  pauses,     \* how often thpool_pause was called
  paused      \* the last of the calls of pause and resume was a pause

globals == <<keepalive, onhold>>
private == <<pool, pc, owner, alive, working, queue, v, hasJobsQ, allIdleQ,
             job, done, dropped, sig, held, pauses, paused>>
vars == <<globals, private>>

(* Groups of variables that most steps leave alone. *)
counts  == <<alive, working>>
jobs    == <<queue, job, done, dropped>>
hold    == <<sig, held, pauses, paused>>
sem     == <<v, hasJobsQ>>

Threads == Workers \cup Clients
Mutexes == {"thcount", "rw", "bsem"}

(* The places of thread_do.  A name in the past tense is the end of a      *)
(* critical section, where the thread still holds the mutex.               *)
WorkerPC == {"none", "start", "started", "loop", "bsem", "taken", "check",
             "inc", "inced", "pull", "post", "posted", "pulled", "run",
             "dec", "deced", "exit", "exited", "gone"}
ClientPC == {"init", "create", "spin", "idle",
             "add", "addPost", "addPosted", "addUnlock", "wait", "waited",
             "poll", "postAll", "postedAll", "clear", "free", "done"}

(* The places where a thread holds the mutex m. *)
Holding(m) ==
  CASE m = "thcount" -> {"started", "inced", "deced", "exited", "waited"}
    [] m = "rw"      -> {"post", "posted", "pulled",
                         "addPost", "addPosted", "addUnlock"}
    [] m = "bsem"    -> {"taken", "posted", "addPosted", "postedAll"}

Goto(t, from, to) == pc[t] = from /\ pc' = [pc EXCEPT ![t] = to]
AcquireUnchecked(t, m) == owner' = [owner EXCEPT ![m] = t]
Acquire(t, m) == owner[m] = NULL /\ owner' = [owner EXCEPT ![m] = t]
Release(m) == owner' = [owner EXCEPT ![m] = NULL]

(* What pthread_cond_signal leaves of the set of sleepers: one of them,    *)
(* whichever, is woken if there is one.                                    *)
Signalled(sleepers) ==
  IF sleepers = {} THEN {{}} ELSE {sleepers \ {t} : t \in sleepers}

bsem_post_counts == v' = v + 1 /\ hasJobsQ' \in Signalled(hasJobsQ)
bsem_post_silent == v' = 1 /\ UNCHANGED hasJobsQ

(* bsem_post: set the semaphore and signal it. *)
bsem_post == v' = 1 /\ hasJobsQ' \in Signalled(hasJobsQ)

(* The jobs that some call of thpool_add_work has allocated. *)
Added == done \cup dropped \cup {queue[i] : i \in 1..Len(queue)}
         \cup ({job[t] : t \in Threads} \ {NULL})

Init ==
  /\ keepalive = FALSE
  /\ onhold = FALSE
  /\ pool = "none"
  /\ pc = [t \in Threads |-> IF t \in Workers THEN "none"
                             ELSE IF t = Owner THEN "init" ELSE "idle"]
  /\ owner = [m \in Mutexes |-> NULL]
  /\ alive = 0
  /\ working = 0
  /\ queue = <<>>
  /\ v = 0
  /\ hasJobsQ = {}
  /\ allIdleQ = {}
  /\ job = [t \in Threads |-> NULL]
  /\ done = {}
  /\ dropped = {}
  /\ sig = {}
  /\ held = {}
  /\ pauses = 0
  /\ paused = FALSE

-----------------------------------------------------------------------------
(* thpool_init *)

thpool_init_stale ==
  /\ Goto(Owner, "init", "create")
  /\ onhold' = FALSE
  /\ UNCHANGED <<keepalive, pool, owner, counts, jobs, sem, allIdleQ, hold>>

(* Set the globals and initialise the fields of the pool. *)
thpool_init ==
  /\ Goto(Owner, "init", "create")
  /\ keepalive' = TRUE
  /\ onhold' = FALSE
  /\ UNCHANGED <<pool, owner, counts, jobs, sem, allIdleQ, hold>>

(* thread_init: one turn of the loop that creates the threads. *)
thread_init(w) ==
  /\ pc[Owner] = "create"
  /\ Goto(w, "none", "start")
  /\ UNCHANGED <<globals, pool, owner, counts, jobs, sem, allIdleQ, hold>>

(* All threads are created: the loop ends. *)
InitCreated ==
  /\ \A w \in Workers : pc[w] # "none"
  /\ Goto(Owner, "create", "spin")
  /\ UNCHANGED <<globals, pool, owner, counts, jobs, sem, allIdleQ, hold>>

(* The busy loop on num_threads_alive, read without thcount_lock. *)
InitReturn ==
  /\ alive = Cardinality(Workers)
  /\ Goto(Owner, "spin", "idle")
  /\ pool' = "up"
  /\ UNCHANGED <<globals, owner, counts, jobs, sem, allIdleQ, hold>>

-----------------------------------------------------------------------------
(* thpool_add_work and jobqueue_push *)

(* The call: the job is allocated and filled in. *)
thpool_add_work(c, j) ==
  /\ pool = "up"
  /\ j \notin Added
  /\ Goto(c, "idle", "add")
  /\ job' = [job EXCEPT ![c] = j]
  /\ UNCHANGED <<globals, pool, owner, counts, queue, done, dropped, sem,
                 allIdleQ, hold>>

(* jobqueue_push under rwmutex: link the job behind rear, len++. *)
PushLink(c) ==
  /\ Goto(c, "add", "addPost")
  /\ Acquire(c, "rw")
  /\ queue' = Append(queue, job[c])
  /\ job' = [job EXCEPT ![c] = NULL]
  /\ UNCHANGED <<globals, pool, counts, done, dropped, sem, allIdleQ, hold>>

(* bsem_post, still under rwmutex. *)
PushPost(c) ==
  /\ Goto(c, "addPost", "addPosted")
  /\ Acquire(c, "bsem")
  /\ bsem_post
  /\ UNCHANGED <<globals, pool, counts, jobs, allIdleQ, hold>>

PushPosted(c) ==
  /\ Goto(c, "addPosted", "addUnlock")
  /\ Release("bsem")
  /\ UNCHANGED <<globals, pool, counts, jobs, sem, allIdleQ, hold>>

PushNoUnlock(c) ==
  /\ Goto(c, "addUnlock", "idle")
  /\ UNCHANGED <<globals, pool, owner, counts, jobs, sem, allIdleQ, hold>>

PushUnlock(c) ==
  /\ Goto(c, "addUnlock", "idle")
  /\ Release("rw")
  /\ UNCHANGED <<globals, pool, counts, jobs, sem, allIdleQ, hold>>

-----------------------------------------------------------------------------
(* thpool_wait *)

thpool_wait(c) ==
  /\ pool = "up"
  /\ Goto(c, "idle", "wait")
  /\ UNCHANGED <<globals, pool, owner, counts, jobs, sem, allIdleQ, hold>>

(* The condition of the while loop, read under thcount_lock (which does    *)
(* not protect len), is true: pthread_cond_wait releases and sleeps.       *)
WaitSleep(c) ==
  /\ pc[c] = "wait"
  /\ c \notin allIdleQ
  /\ owner["thcount"] = NULL
  /\ queue # <<>> \/ working # 0
  /\ allIdleQ' = allIdleQ \cup {c}
  /\ UNCHANGED <<globals, pool, pc, owner, counts, jobs, sem, hold>>

WaitDoneQueueOnly(c) ==
  /\ c \notin allIdleQ
  /\ Goto(c, "wait", "waited")
  /\ Acquire(c, "thcount")
  /\ queue = <<>>
  /\ UNCHANGED <<globals, pool, counts, jobs, sem, allIdleQ, hold>>

(* The condition is false: the call is about to return. *)
WaitDone(c) ==
  /\ c \notin allIdleQ
  /\ Goto(c, "wait", "waited")
  /\ Acquire(c, "thcount")
  /\ queue = <<>> /\ working = 0
  /\ UNCHANGED <<globals, pool, counts, jobs, sem, allIdleQ, hold>>

WaitUnlock(c) ==
  /\ Goto(c, "waited", "idle")
  /\ Release("thcount")
  /\ UNCHANGED <<globals, pool, counts, jobs, sem, allIdleQ, hold>>

-----------------------------------------------------------------------------
(* thpool_pause, thpool_resume and the handler thread_hold *)

(* SIGUSR1 to every thread.  When the pool is up all of them are alive. *)
thpool_pause(c) ==
  /\ pool = "up"
  /\ pc[c] = "idle"
  /\ pauses < MaxPauses
  /\ pauses' = pauses + 1
  /\ paused' = TRUE
  /\ sig' = Workers
  /\ UNCHANGED <<globals, pool, pc, owner, counts, jobs, sem, allIdleQ, held>>

thpool_resume(c) ==
  /\ pool = "up"
  /\ pc[c] = "idle"
  /\ onhold' = FALSE
  /\ paused' = FALSE
  /\ UNCHANGED <<keepalive, pool, pc, owner, counts, jobs, sem, allIdleQ, sig,
                 held, pauses>>

(* The signal is delivered some time after it was sent, wherever the       *)
(* worker is; it is blocked while its handler runs.                        *)
thread_hold(w) ==
  /\ w \in sig \ held
  /\ pc[w] # "gone"
  /\ sig' = sig \ {w}
  /\ held' = held \cup {w}
  /\ onhold' = TRUE
  /\ UNCHANGED <<keepalive, pool, pc, owner, counts, jobs, sem, allIdleQ,
                 pauses, paused>>

(* The loop of the handler finds threads_on_hold cleared and returns. *)
HoldReturn(w) ==
  /\ w \in held
  /\ ~onhold
  /\ held' = held \ {w}
  /\ UNCHANGED <<globals, pool, pc, owner, counts, jobs, sem, allIdleQ, sig,
                 pauses, paused>>

-----------------------------------------------------------------------------
(* thread_do.  Every step needs the worker not to be in the handler. *)

(* Mark the thread as alive. *)
AliveInc(w) ==
  /\ Goto(w, "start", "started")
  /\ Acquire(w, "thcount")
  /\ alive' = alive + 1
  /\ UNCHANGED <<globals, pool, working, jobs, sem, allIdleQ, hold>>

(* The end of each of the three critical sections on the counters that     *)
(* leave the worker alive, and of jobqueue_pull.                           *)
Unlock(w, from, m, to) ==
  /\ Goto(w, from, to)
  /\ Release(m)
  /\ UNCHANGED <<globals, pool, counts, jobs, sem, allIdleQ, hold>>

LoopForever(w) ==
  /\ Goto(w, "loop", "bsem")
  /\ UNCHANGED <<globals, pool, owner, counts, jobs, sem, allIdleQ, hold>>

(* The condition of the outer loop. *)
LoopTest(w) ==
  /\ Goto(w, "loop", IF keepalive THEN "bsem" ELSE "exit")
  /\ UNCHANGED <<globals, pool, owner, counts, jobs, sem, allIdleQ, hold>>

(* bsem_wait finds no token: sleep on has_jobs. *)
BsemSleep(w) ==
  /\ pc[w] = "bsem"
  /\ w \notin hasJobsQ
  /\ owner["bsem"] = NULL
  /\ v # 1
  /\ hasJobsQ' = hasJobsQ \cup {w}
  /\ UNCHANGED <<globals, pool, pc, owner, counts, jobs, v, allIdleQ, hold>>

(* bsem_wait takes the token. *)
BsemTake(w) ==
  /\ w \notin hasJobsQ
  /\ Goto(w, "bsem", "taken")
  /\ Acquire(w, "bsem")
  /\ v = 1
  /\ v' = 0
  /\ UNCHANGED <<globals, pool, counts, jobs, hasJobsQ, allIdleQ, hold>>

(* The second test of threads_keepalive: a worker that sees it cleared     *)
(* goes back to the condition of the loop, and the token it took is gone.  *)
KeepaliveTest(w) ==
  /\ Goto(w, "check", IF keepalive THEN "inc" ELSE "loop")
  /\ UNCHANGED <<globals, pool, owner, counts, jobs, sem, allIdleQ, hold>>

WorkingInc(w) ==
  /\ Goto(w, "inc", "inced")
  /\ Acquire(w, "thcount")
  /\ working' = working + 1
  /\ UNCHANGED <<globals, pool, alive, jobs, sem, allIdleQ, hold>>

PullNoneContinue(w) ==
  /\ queue = <<>>
  /\ owner["rw"] = NULL
  /\ Goto(w, "pull", "loop")
  /\ UNCHANGED <<globals, pool, owner, counts, jobs, sem, allIdleQ, hold>>

(* jobqueue_pull on an empty queue returns front, which is NULL. *)
PullNone(w) ==
  /\ queue = <<>>
  /\ Goto(w, "pull", "pulled")
  /\ Acquire(w, "rw")
  /\ UNCHANGED <<globals, pool, counts, jobs, sem, allIdleQ, hold>>

PullJobNoPost(w) ==
  /\ queue # <<>>
  /\ Goto(w, "pull", "pulled")
  /\ Acquire(w, "rw")
  /\ job' = [job EXCEPT ![w] = Head(queue)]
  /\ queue' = Tail(queue)
  /\ UNCHANGED <<globals, pool, counts, done, dropped, sem, allIdleQ, hold>>

PullJobPeek(w) ==
  /\ queue # <<>>
  /\ Goto(w, "pull", IF Len(queue) > 1 THEN "post" ELSE "pulled")
  /\ Acquire(w, "rw")
  /\ job' = [job EXCEPT ![w] = Head(queue)]
  /\ queue' = IF Len(queue) > 1 THEN Tail(queue) ELSE queue
  /\ UNCHANGED <<globals, pool, counts, done, dropped, sem, allIdleQ, hold>>

(* jobqueue_pull of a job; when more are left their token must be posted. *)
PullJob(w) ==
  /\ queue # <<>>
  /\ Goto(w, "pull", IF Len(queue) > 1 THEN "post" ELSE "pulled")
  /\ Acquire(w, "rw")
  /\ job' = [job EXCEPT ![w] = Head(queue)]
  /\ queue' = Tail(queue)
  /\ UNCHANGED <<globals, pool, counts, done, dropped, sem, allIdleQ, hold>>

PullPost(w) ==
  /\ Goto(w, "post", "posted")
  /\ Acquire(w, "bsem")
  /\ bsem_post
  /\ UNCHANGED <<globals, pool, counts, jobs, allIdleQ, hold>>

(* The function of the job runs; nothing runs when pull returned NULL. *)
RunJob(w) ==
  /\ Goto(w, "run", "dec")
  /\ done' = done \cup ({job[w]} \ {NULL})
  /\ job' = [job EXCEPT ![w] = NULL]
  /\ UNCHANGED <<globals, pool, owner, counts, queue, dropped, sem, allIdleQ,
                 hold>>

WorkingDecSilent(w) ==
  /\ Goto(w, "dec", "deced")
  /\ Acquire(w, "thcount")
  /\ working' = working - 1
  /\ UNCHANGED <<globals, pool, alive, jobs, sem, allIdleQ, hold>>

(* The last worker to become idle signals threads_all_idle. *)
WorkingDec(w) ==
  /\ Goto(w, "dec", "deced")
  /\ Acquire(w, "thcount")
  /\ working' = working - 1
  /\ allIdleQ' \in IF working' = 0 THEN Signalled(allIdleQ) ELSE {allIdleQ}
  /\ UNCHANGED <<globals, pool, alive, jobs, sem, hold>>

AliveDec(w) ==
  /\ Goto(w, "exit", "exited")
  /\ Acquire(w, "thcount")
  /\ alive' = alive - 1
  /\ UNCHANGED <<globals, pool, working, jobs, sem, allIdleQ, hold>>

Worker(w) ==
  /\ w \notin held
  /\ \/ AliveInc(w)   \/ Unlock(w, "started", "thcount", "loop")
     \/ LoopTest(w)   \/ BsemSleep(w) \/ BsemTake(w)
     \/ Unlock(w, "taken", "bsem", "check")
     \/ KeepaliveTest(w)
     \/ WorkingInc(w) \/ Unlock(w, "inced", "thcount", "pull")
     \/ PullNone(w)   \/ PullJob(w)
     \/ PullPost(w)   \/ Unlock(w, "posted", "bsem", "pulled")
     \/ Unlock(w, "pulled", "rw", "run")
     \/ RunJob(w)
     \/ WorkingDec(w) \/ Unlock(w, "deced", "thcount", "loop")
     \/ AliveDec(w)   \/ Unlock(w, "exited", "thcount", "gone")

(* pthread_cond_wait may return although nobody signalled. *)
SpuriousWake ==
  /\ \/ \E w \in hasJobsQ \ held :
          hasJobsQ' = hasJobsQ \ {w} /\ UNCHANGED allIdleQ
     \/ \E c \in allIdleQ :
          allIdleQ' = allIdleQ \ {c} /\ UNCHANGED hasJobsQ
  /\ UNCHANGED <<globals, pool, pc, owner, counts, jobs, v, hold>>

-----------------------------------------------------------------------------
(* thpool_destroy.  The owner calls it when no other client uses the pool. *)

thpool_destroy ==
  /\ pool = "up"
  /\ \A c \in Clients \ {Owner} : pc[c] = "done"
  /\ Goto(Owner, "idle", "poll")
  /\ pool' = "closing"
  /\ keepalive' = FALSE
  /\ UNCHANGED <<onhold, owner, counts, jobs, sem, allIdleQ, hold>>

PollWorking ==
  /\ Goto(Owner, "poll", IF working # 0 THEN "postAll" ELSE "clear")
  /\ UNCHANGED <<globals, pool, owner, counts, jobs, sem, allIdleQ, hold>>

(* The condition of the two polling loops, read without thcount_lock.      *)
(* They differ in the sleep between two polls only.                        *)
PollAlive ==
  /\ Goto(Owner, "poll", IF alive # 0 THEN "postAll" ELSE "clear")
  /\ UNCHANGED <<globals, pool, owner, counts, jobs, sem, allIdleQ, hold>>

bsem_post_all ==
  /\ Goto(Owner, "postAll", "postedAll")
  /\ Acquire(Owner, "bsem")
  /\ v' = 1
  /\ hasJobsQ' = {}
  /\ UNCHANGED <<globals, pool, counts, jobs, allIdleQ, hold>>

PostedAll ==
  /\ Goto(Owner, "postedAll", "poll")
  /\ Release("bsem")
  /\ UNCHANGED <<globals, pool, counts, jobs, sem, allIdleQ, hold>>

(* One turn of jobqueue_clear: a job is pulled and freed, never run. *)
ClearPull ==
  /\ pc[Owner] = "clear"
  /\ queue # <<>>
  /\ owner["rw"] = NULL
  /\ dropped' = dropped \cup {Head(queue)}
  /\ queue' = Tail(queue)
  /\ IF Len(queue) > 1 THEN owner["bsem"] = NULL /\ bsem_post ELSE UNCHANGED sem
  /\ UNCHANGED <<globals, pool, pc, owner, counts, job, done, allIdleQ, hold>>

(* bsem_reset initialises the semaphore, its mutex and its condition anew. *)
ClearReset ==
  /\ queue = <<>>
  /\ Goto(Owner, "clear", "free")
  /\ v' = 0
  /\ hasJobsQ' = {}
  /\ Release("bsem")
  /\ UNCHANGED <<globals, pool, counts, jobs, allIdleQ, hold>>

(* free of the semaphore, of the threads and of the pool. *)
Free ==
  /\ Goto(Owner, "free", "done")
  /\ pool' = "freed"
  /\ UNCHANGED <<globals, owner, counts, jobs, sem, allIdleQ, hold>>

-----------------------------------------------------------------------------
(* A client other than the owner makes no further calls. *)
ClientLeaves(c) ==
  /\ c # Owner
  /\ pool = "up"
  /\ Goto(c, "idle", "done")
  /\ UNCHANGED <<globals, pool, owner, counts, jobs, sem, allIdleQ, hold>>

(* The steps that a client takes inside a call, and the calls themselves. *)
InCall(c) ==
  \/ PushLink(c) \/ PushPost(c) \/ PushPosted(c) \/ PushUnlock(c)
  \/ WaitSleep(c) \/ WaitDone(c) \/ WaitUnlock(c)
Call(c) ==
  \/ \E j \in Jobs : thpool_add_work(c, j)
  \/ thpool_wait(c) \/ thpool_pause(c) \/ thpool_resume(c) \/ ClientLeaves(c)

InitSteps == thpool_init \/ (\E w \in Workers : thread_init(w))
             \/ InitCreated \/ InitReturn
DestroySteps == PollAlive \/ bsem_post_all \/ PostedAll \/ ClearPull
                \/ ClearReset \/ Free

(* The pool is freed and its workers are gone: the program goes on. *)
Finished ==
  /\ pool = "freed"
  /\ \A w \in Workers : pc[w] = "gone" \/ w \in held
  /\ UNCHANGED vars

Next ==
  \/ InitSteps
  \/ \E c \in Clients : InCall(c) \/ Call(c)
  \/ thpool_destroy \/ DestroySteps
  \/ \E w \in Workers : Worker(w) \/ thread_hold(w) \/ HoldReturn(w)
  \/ SpuriousWake
  \/ Finished

Spec == Init /\ [][Next]_vars

-----------------------------------------------------------------------------
(* What the scheduler and the mutexes owe the threads.  A worker outside   *)
(* the handler, and a client inside a call, takes a step again and again   *)
(* when it can again and again: a thread blocked on a mutex that others    *)
(* keep taking gets it at last (they sleep or wait between two turns).     *)
(* Nothing is owed about the calls that the clients choose to make.        *)
FairSpec ==
  /\ Spec
  /\ WF_vars(InitSteps) /\ SF_vars(DestroySteps)
  /\ \A c \in Clients : SF_vars(InCall(c))
  /\ \A w \in Workers : /\ SF_vars(Worker(w))
                         /\ WF_vars(thread_hold(w))
                         /\ WF_vars(HoldReturn(w))

-----------------------------------------------------------------------------
(* Properties *)

(* Every variable has its type; a thread only is where its function has a  *)
(* place, and only workers that wait for work sleep on has_jobs.           *)
TypeOK ==
  /\ keepalive \in BOOLEAN /\ onhold \in BOOLEAN
  /\ pool \in {"none", "up", "closing", "freed"}
  /\ pc \in [Threads -> WorkerPC \cup ClientPC]
  /\ \A w \in Workers : pc[w] \in WorkerPC
  /\ \A c \in Clients : pc[c] \in ClientPC
  /\ owner \in [Mutexes -> Threads \cup {NULL}]
  /\ alive \in Int /\ working \in Int
  /\ queue \in Seq(Jobs)
  /\ v \in {0, 1}
  /\ hasJobsQ \in SUBSET Workers
  /\ allIdleQ \in SUBSET Clients
  /\ \A w \in hasJobsQ : pc[w] = "bsem"
  /\ \A c \in allIdleQ : pc[c] = "wait"
  /\ job \in [Threads -> Jobs \cup {NULL}]
  /\ \A c \in Clients : pc[c] = "add" => job[c] \in Jobs
  /\ done \in SUBSET Jobs /\ dropped \in SUBSET Jobs
  /\ sig \in SUBSET Workers /\ held \in SUBSET Workers
  /\ pauses \in 0..MaxPauses /\ paused \in BOOLEAN

(* The mutexes exclude: whoever is inside a critical section is the owner  *)
(* of its mutex, also when it is inside two of them (bsem within rw).      *)
LockOwners ==
  \A m \in Mutexes, t \in Threads : owner[m] = t <=> pc[t] \in Holding(m)

Counted == {"started", "loop", "bsem", "taken", "check", "inc", "inced",
            "pull", "post", "posted", "pulled", "run", "dec", "deced", "exit"}
Working == {"inced", "pull", "post", "posted", "pulled", "run", "dec"}

(* num_threads_alive and num_threads_working, which thpool_wait and        *)
(* thpool_destroy rely on, count exactly the workers between the two       *)
(* critical sections that count them in and out.                           *)
CountsExact ==
  /\ alive = Cardinality({w \in Workers : pc[w] \in Counted})
  /\ working = Cardinality({w \in Workers : pc[w] \in Working})

(* The binary semaphore carries one token for any number of queued jobs.   *)
(* While the pool serves, a queued job nevertheless has somebody on its    *)
(* way to it: the token is set, or a thread is about to set it, or a       *)
(* worker took it and has still to pull; and a token that is set has a     *)
(* worker that is awake to take it.                                        *)
PostDue(t) == pc[t] \in {"addPost", "post"}
HasToken(w) == pc[w] \in {"taken", "check", "inc", "inced", "pull"}
NoLostWakeup ==
  /\ keepalive /\ queue # <<>> =>
       \/ v = 1
       \/ \E t \in Threads : PostDue(t)
       \/ \E w \in Workers : HasToken(w)
  /\ v = 1 /\ Workers # {} => hasJobsQ # Workers

(* A client asleep in thpool_wait is asleep for a reason: a job is queued  *)
(* or a worker is counted as working, and will signal when it is the last. *)
(* True of a single client: the signal wakes one sleeper only.             *)
NoStrandedWaiter ==
  allIdleQ # {} => queue # <<>> \/ working # 0

(* A job is in one place: queued once, in the hands of one thread, done,   *)
(* or freed.  No job is run twice, and none is freed by jobqueue_clear     *)
(* after a worker pulled it.                                               *)
JobOnce ==
  /\ \A i, k \in 1..Len(queue) : i # k => queue[i] # queue[k]
  /\ \A i \in 1..Len(queue) :
       queue[i] \notin done \cup dropped /\ \A t \in Threads : queue[i] # job[t]
  /\ \A t \in Threads :
       /\ job[t] \notin done \cup dropped
       /\ \A u \in Threads : t # u => job[t] = NULL \/ job[t] # job[u]
  /\ done \cap dropped = {}

(* A worker leaves its loop only when its own pool is being destroyed.     *)
ServesWhileUp ==
  \A w \in Workers :
    pc[w] \in {"exit", "exited", "gone"} => pool \in {"closing", "freed"}

(* thpool_destroy tears the pool down only when no worker can look at the  *)
(* queue, the semaphore or the counters again: what is left of a worker is *)
(* the release of thcount_lock.                                            *)
TeardownQuiescent ==
  pc[Owner] \in {"clear", "free", "done"} =>
    \A w \in Workers : pc[w] \in {"exited", "gone"}

(* The pool is freed only when no worker uses any part of it.              *)
NoUseAfterFree ==
  pool = "freed" => \A w \in Workers : pc[w] = "gone"

(* The pool implements its abstract specification.                         *)
Abstract == INSTANCE JobPool WITH
  pending <- queue,
  running <- {job[w] : w \in Workers} \ {NULL},
  waiting <- {c \in Clients : pc[c] = "wait"},
  closed  <- pool \in {"closing", "freed"}
ImplementsJobPool == Abstract!Spec

(* Every job that was added is run, unless the pool is destroyed first.    *)
JobsServed ==
  \A j \in Jobs : (j \in Added) ~> (j \in done \/ pool \in {"closing", "freed"})

(* thpool_add_work returns. *)
AddReturns == \A c \in Clients : pc[c] = "add" ~> pc[c] = "idle"

(* The same while the pool is paused. *)
AddsWhilePaused ==
  \A c \in Clients : (pc[c] = "add" /\ paused) ~> pc[c] = "idle"

(* thpool_wait returns. *)
WaitReturns == \A c \in Clients : pc[c] = "wait" ~> pc[c] = "idle"

(* thpool_destroy returns: the workers, asleep or not, all find their way  *)
(* out of their loop.                                                      *)
DestroyReturns == pool = "closing" ~> pool = "freed"

(* No call of the pool blocks for ever while nothing pauses the workers. *)
CallsComeBack == AddReturns /\ WaitReturns /\ DestroyReturns

(* After thpool_resume no worker stays on hold, until the next pause. *)
ResumeUnpauses == ~paused ~> (paused \/ held = {})
=============================================================================
