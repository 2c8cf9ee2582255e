-------------------------- MODULE PthreadSemaphore --------------------------
(***************************************************************************)
(* The semaphore of win32compat/pthreads-w32 (sem_wait.c, sem_timedwait.c, *)
(* sem_trywait.c, sem_post.c, sem_post_multiple.c, ptw32_semwait.c): a     *)
(* count under a mutex that goes below zero while threads wait, and a      *)
(* semaphore of the system that wakes them.  A step is what a thread does  *)
(* under the mutex, or one call of the system.                             *)
(***************************************************************************)
EXTENDS Integers, FiniteSets

CONSTANTS
  THREADS,
  VALUE_MAX  \* SEM_VALUE_MAX

VARIABLES
  value,     \* s->value
  w32,       \* the count of s->sem
  place      \* where each thread is: "out", "waits" or "gives_up"

vars == <<value, w32, place>>

Go(t, p) == place' = [place EXCEPT ![t] = p]

min(a, b) == IF a < b THEN a ELSE b

\* sem_wait, sem_timedwait and ptw32_semwait count themselves in.
sem_wait(t) ==
  /\ place[t] = "out"
  /\ value' = value - 1
  /\ Go(t, IF value' < 0 THEN "waits" ELSE "out")
  /\ UNCHANGED w32

sem_trywait(t) ==
  /\ place[t] = "out" /\ value > 0
  /\ value' = value - 1
  /\ UNCHANGED <<w32, place>>

\* WaitForSingleObject or pthreadCancelableTimedWait succeeds.
Wake(t) ==
  /\ place[t] = "waits" /\ w32 > 0
  /\ w32' = w32 - 1 /\ Go(t, "out")
  /\ UNCHANGED value

\* The time is over, or the thread is cancelled; a post may still come before
\* it takes the mutex.
TimeOut(t) ==
  /\ place[t] = "waits"
  /\ Go(t, "gives_up")
  /\ UNCHANGED <<value, w32>>

\* Mutant: a thread that gives up does not look for a late post.
NeverLooks == FALSE

PostedMeanwhile == w32 > 0

\* The cleanup handlers: a late post is taken after all, else the thread no
\* longer counts.
Cleanup(t) ==
  /\ place[t] = "gives_up"
  /\ \/ PostedMeanwhile /\ w32' = w32 - 1 /\ UNCHANGED value
     \/ ~PostedMeanwhile /\ value' = value + 1 /\ UNCHANGED w32
  /\ Go(t, "out")

\* sem_post, and sem_post_multiple of the condition variable.
sem_post_multiple(count) ==
  /\ value <= VALUE_MAX - count
  /\ value' = value + count
  /\ w32' = IF value < 0 THEN w32 + min(-value, count) ELSE w32
  /\ UNCHANGED place

Init == value = 0 /\ w32 = 0 /\ place = [t \in THREADS |-> "out"]

Next ==
  \/ \E count \in 1 .. VALUE_MAX : sem_post_multiple(count)
  \/ \E t \in THREADS : sem_wait(t) \/ sem_trywait(t) \/ Wake(t) \/ TimeOut(t) \/ Cleanup(t)

Spec == Init /\ [][Next]_vars

\* The system wakes a waiter when its semaphore is posted; threads keep
\* running.
Fairness ==
  /\ WF_vars(\E t \in THREADS : Wake(t))
  /\ \A t \in THREADS : WF_vars(Cleanup(t))

-----------------------------------------------------------------------------
(* Properties. *)

Waiting == {t \in THREADS : place[t] # "out"}
Tokens  == w32 + (IF value > 0 THEN value ELSE 0)

\* Count and system semaphore implement a counting semaphore: whatever timeouts
\* and late posts cross each other, no post is lost and none is taken twice.
Abstract == INSTANCE CountingSemaphore WITH tokens <- Tokens, waiting <- Waiting
SemaphoreSpec == Abstract!Spec

\* The steps alone, without the promise that a post is taken.
SemaphoreSteps == Abstract!SafeSpec

\* The inductive invariant behind them: who waits is counted below zero, or has
\* a post in the semaphore of the system.
WaitersCounted ==
  /\ place \in [THREADS -> {"out", "waits", "gives_up"}]
  /\ value \in Int /\ w32 \in Nat
  /\ Cardinality(Waiting) = w32 + (IF value < 0 THEN -value ELSE 0)
=============================================================================
