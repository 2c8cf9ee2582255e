---------------------------- MODULE PthreadMutex ----------------------------
(***************************************************************************)
(* The mutex of the client's ring on Windows (pthread_mutex_lock.c,        *)
(* _trylock.c, _timedlock.c and _unlock.c in win32compat/pthreads-w32): an *)
(* interlocked word and an event that wakes one waiter.  A step is one     *)
(* interlocked operation or one call of the system.  The owner of a mutex  *)
(* is only ever compared with the thread that asks, so storing it belongs  *)
(* to the step that takes the mutex.                                       *)
(***************************************************************************)
EXTENDS Integers

CONSTANTS
  THREADS,
  KINDS,  \* the kinds of mutexes to choose from
  DEPTH   \* model bound: how often a recursive mutex is locked

Kind == {"normal", "errorcheck", "recursive"}

VARIABLES
  kind,             \* mx->kind
  lock_idx,         \* 0 free, 1 locked, -1 locked and perhaps waited for
  event,            \* mx->event, which resets itself
  ownerThread,      \* not kept by a normal mutex
  recursive_count,
  at,               \* where each thread is
  timed             \* the threads in pthread_mutex_timedlock

vars == <<kind, lock_idx, event, ownerThread, recursive_count, at, timed>>

None == "none"

Go(t, place) == at' = [at EXCEPT ![t] = place]

\* The fields of the owner; a normal mutex has none.
Take(t) ==
  /\ ownerThread' = IF kind = "normal" THEN None ELSE t
  /\ recursive_count' = IF kind = "normal" THEN 0 ELSE 1
  /\ Go(t, "holds")

\* PTW32_INTERLOCKED_EXCHANGE for a normal mutex, _COMPARE_EXCHANGE otherwise.
\* With abstime, pthread_mutex_timedlock.
Lock(t, abstime) ==
  /\ at[t] = "out"
  /\ timed' = IF abstime THEN timed \cup {t} ELSE timed \ {t}
  /\ lock_idx' = IF kind = "normal" \/ lock_idx = 0 THEN 1 ELSE lock_idx
  /\ \/ lock_idx = 0 /\ Take(t)
     \/ lock_idx # 0 /\ Go(t, "contends") /\ UNCHANGED <<ownerThread, recursive_count>>
  /\ UNCHANGED <<kind, event>>

\* A recursive mutex counts; an error checking one answers EDEADLK.
LockAgain(t) ==
  /\ at[t] = "holds" /\ kind = "recursive" /\ ownerThread = t /\ recursive_count < DEPTH
  /\ recursive_count' = recursive_count + 1
  /\ UNCHANGED <<kind, lock_idx, event, ownerThread, at, timed>>

\* Mutant: a waiter does not leave a mark for the one who unlocks.
ContendUnmarked(t) == lock_idx' = IF lock_idx = 0 THEN 1 ELSE lock_idx

Mark(t) == lock_idx' = -1

\* The head of the loop: the waiter leaves its mark and looks.
Contend(t) ==
  /\ at[t] = "contends"
  /\ Mark(t)
  /\ \/ lock_idx = 0 /\ Take(t)
     \/ lock_idx # 0 /\ Go(t, "waits") /\ UNCHANGED <<ownerThread, recursive_count>>
  /\ UNCHANGED <<kind, event, timed>>

\* WaitForSingleObject returns, one waiter for each SetEvent.
Wake(t) ==
  /\ at[t] = "waits" /\ event
  /\ event' = FALSE /\ Go(t, "contends")
  /\ UNCHANGED <<kind, lock_idx, ownerThread, recursive_count, timed>>

TimeOut(t) ==
  /\ at[t] = "waits" /\ t \in timed
  /\ Go(t, "out")
  /\ UNCHANGED <<kind, lock_idx, event, ownerThread, recursive_count, timed>>

pthread_mutex_trylock(t) ==
  /\ at[t] = "out" /\ lock_idx = 0
  /\ lock_idx' = 1 /\ Take(t)
  /\ UNCHANGED <<kind, event, timed>>

\* The last unlock of a recursive mutex, or the only one: the mark says
\* whether someone waits.
Unlock(t) ==
  /\ at[t] = "holds" /\ recursive_count <= 1
  /\ ownerThread' = None /\ recursive_count' = 0
  /\ lock_idx' = 0
  /\ Go(t, IF lock_idx < 0 THEN "unlocked" ELSE "out")
  /\ UNCHANGED <<kind, event, timed>>

UnlockInner(t) ==
  /\ at[t] = "holds" /\ kind = "recursive" /\ recursive_count > 1
  /\ recursive_count' = recursive_count - 1
  /\ UNCHANGED <<kind, lock_idx, event, ownerThread, at, timed>>

SetEvent(t) ==
  /\ at[t] = "unlocked"
  /\ event' = TRUE /\ Go(t, "out")
  /\ UNCHANGED <<kind, lock_idx, ownerThread, recursive_count, timed>>

Init ==
  /\ kind \in KINDS /\ lock_idx = 0 /\ event = FALSE
  /\ ownerThread = None /\ recursive_count = 0
  /\ at = [t \in THREADS |-> "out"] /\ timed = {}

\* What a thread inside the library does without waiting.
Step(t) == Contend(t) \/ SetEvent(t)

Next ==
  \E t \in THREADS :
    \/ \E abstime \in BOOLEAN : Lock(t, abstime)
    \/ LockAgain(t) \/ Wake(t) \/ TimeOut(t) \/ pthread_mutex_trylock(t)
    \/ Unlock(t) \/ UnlockInner(t) \/ Step(t)

Spec == Init /\ [][Next]_vars

\* A thread inside the library keeps running, and a signalled event wakes one
\* of those that wait.  Nobody has to unlock, and waiters may overtake.
Fairness ==
  /\ \A t \in THREADS : WF_vars(Step(t))
  /\ WF_vars(\E t \in THREADS : Wake(t))

-----------------------------------------------------------------------------
(* Properties. *)

\* The word, the mark and the event implement a mutex for normal, error
\* checking and recursive mutexes: never two holders, and no wake-up is lost,
\* however the marks of waiters, timeouts and unlocks cross.
Abstract == INSTANCE Lock WITH
              holders <- {t \in THREADS : at[t] = "holds"},
              wanting <- {t \in THREADS : at[t] \in {"contends", "waits"}}
MutexSpec == Abstract!Spec

\* The steps alone, without the promise that a free mutex is taken.
MutexSteps == Abstract!SafeSpec

\* The inductive invariant behind them: the word is zero when nobody holds the
\* mutex, and one thread holds it otherwise.
HoldersInv ==
  /\ at \in [THREADS -> {"out", "contends", "waits", "holds", "unlocked"}]
  /\ lock_idx \in {-1, 0, 1}
  /\ \A t \in THREADS : at[t] = "holds" => lock_idx # 0
  /\ lock_idx # 0 => \E t \in THREADS : at[t] = "holds"
  /\ \A t, u \in THREADS : at[t] = "holds" /\ at[u] = "holds" => t = u
=============================================================================
