------------------------------ MODULE TwoPools ------------------------------
(***************************************************************************)
(* Two thread pools in one program, as in the examples of threadPool.h.    *)
(* Each has its own threads, queue, mutexes and counters; the flags        *)
(* threads_keepalive and threads_on_hold are static variables of           *)
(* threadPool.c and belong to both.  The variables of ThreadPool are those *)
(* of the first pool, their namesakes ending in 2 those of the second.     *)
(***************************************************************************)
EXTENDS ThreadPool

CONSTANTS Workers2, Clients2, Owner2, Jobs2

ASSUME SecondPool ==
  /\ IsFiniteSet(Workers2) /\ Workers2 \cap Clients2 = {}
  /\ Owner2 \in Clients2 /\ NULL \notin Workers2 \cup Clients2 \cup Jobs2

VARIABLES pool2, pc2, owner2, alive2, working2, queue2, v2, hasJobsQ2,
          allIdleQ2, job2, done2, dropped2, sig2, held2, pauses2, paused2

private2 == <<pool2, pc2, owner2, alive2, working2, queue2, v2, hasJobsQ2,
              allIdleQ2, job2, done2, dropped2, sig2, held2, pauses2, paused2>>

(* The second pool: keepalive and onhold are the same variables. *)
Second == INSTANCE ThreadPool WITH
  Workers <- Workers2, Clients <- Clients2, Owner <- Owner2, Jobs <- Jobs2,
  pool <- pool2, pc <- pc2, owner <- owner2, alive <- alive2,
  working <- working2, queue <- queue2, v <- v2, hasJobsQ <- hasJobsQ2,
  allIdleQ <- allIdleQ2, job <- job2, done <- done2, dropped <- dropped2,
  sig <- sig2, held <- held2, pauses <- pauses2, paused <- paused2

BothInit == Init /\ Second!Init

BothNext ==
  \/ Next /\ UNCHANGED private2
  \/ Second!Next /\ UNCHANGED private

BothSpec == BothInit /\ [][BothNext]_<<vars, private2>>

(* Whatever the other pool does to the shared flags, each pool implements  *)
(* its abstract specification: order, once each, and what a return from    *)
(* thpool_wait means.                                                      *)
SecondImplements == Second!ImplementsJobPool

(* Nor can the other pool make one of them free what its workers use.      *)
SecondTeardown == Second!TeardownQuiescent
=============================================================================
