------------------------------- MODULE JobPool -------------------------------
(***************************************************************************)
(* What the thread pool promises to the clients that add jobs and wait for *)
(* them (threadPool.h), without threads, mutexes or semaphores: jobs start *)
(* in the order in which they were queued, each of them once; thpool_wait  *)
(* returns at an instant at which nothing is queued and nothing runs; and  *)
(* a pool that is destroyed first waits for the jobs that run, then drops  *)
(* the jobs that are still queued, after which no job starts any more.     *)
(***************************************************************************)
EXTENDS Sequences

CONSTANTS Jobs, Clients

VARIABLES
  pending,  \* the queued jobs, oldest first
  running,  \* the jobs that were taken from the queue and have not returned
  done,     \* the jobs that returned
  dropped,  \* the jobs that were freed without being run
  waiting,  \* the clients inside thpool_wait
  closed    \* thpool_destroy was called

vars == <<pending, running, done, dropped, waiting, closed>>

Queued == {pending[i] : i \in DOMAIN pending}
Known == Queued \cup running \cup done \cup dropped

Init ==
  /\ pending = <<>>
  /\ running = {} /\ done = {} /\ dropped = {} /\ waiting = {}
  /\ closed = FALSE

(* A job is queued, behind all others. *)
Submit(j) ==
  /\ ~closed
  /\ j \notin Known
  /\ pending' = Append(pending, j)
  /\ UNCHANGED <<running, done, dropped, waiting, closed>>

(* The oldest job starts. *)
Start ==
  /\ pending # <<>>
  /\ dropped = {}
  /\ running' = running \cup {Head(pending)}
  /\ pending' = Tail(pending)
  /\ UNCHANGED <<done, dropped, waiting, closed>>

Finish(j) ==
  /\ running' = running \ {j}
  /\ done' = done \cup {j}
  /\ UNCHANGED <<pending, dropped, waiting, closed>>

BeginWait(c) ==
  /\ ~closed
  /\ waiting' = waiting \cup {c}
  /\ UNCHANGED <<pending, running, done, dropped, closed>>

EndWait(c) ==
  /\ pending = <<>>
  /\ running = {}
  /\ waiting' = waiting \ {c}
  /\ UNCHANGED <<pending, running, done, dropped, closed>>

Close ==
  /\ ~closed
  /\ waiting = {}
  /\ closed' = TRUE
  /\ UNCHANGED <<pending, running, done, dropped, waiting>>

Drop ==
  /\ closed
  /\ pending # <<>>
  /\ running = {}
  /\ dropped' = dropped \cup {Head(pending)}
  /\ pending' = Tail(pending)
  /\ UNCHANGED <<running, done, waiting, closed>>

Next ==
  \/ \E j \in Jobs : Submit(j)
  \/ Start
  \/ \E j \in running : Finish(j)
  \/ \E c \in Clients \ waiting : BeginWait(c)
  \/ \E c \in waiting : EndWait(c)
  \/ Close
  \/ Drop

Spec == Init /\ [][Next]_vars
=============================================================================
