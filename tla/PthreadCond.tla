----------------------------- MODULE PthreadCond -----------------------------
(***************************************************************************)
(* The condition variable of the client's ring on Windows                  *)
(* (pthread_cond_wait.c, pthread_cond_signal.c and pthread_cond_destroy.c  *)
(* in win32compat/pthreads-w32), "algorithm 9": two semaphores, a mutex and *)
(* three counters.  semBlockLock is a gate that is closed while signalled  *)
(* waiters have not all left.                                              *)
(*                                                                         *)
(* The mutexes and semaphores are those that modules Lock and              *)
(* CountingSemaphore promise.  What a thread does to the counters under    *)
(* mtxUnblockLock without waiting is one step.  What is left of an unlock  *)
(* after the lock is free is a step of its own where the condition         *)
(* variable may be destroyed in between.                                   *)
(***************************************************************************)
EXTENDS Integers, FiniteSets

CONSTANTS
  THREADS,
  GONE_MAX,  \* INT_MAX / 2
  QUEUE      \* model bound: nobody signals while so many wake-ups are unused

VARIABLES
  mutex,              \* the caller's mutex: its holder, or "none"
  mtxUnblockLock,     \* its holder, or "none"
  semBlockLock,       \* the gate
  semBlockQueue,      \* the semaphore that waiters sleep on
  nWaitersBlocked, nWaitersToUnblock, nWaitersGone,
  at,                 \* where each thread is
  nSignalsWasLeft,    \* of each waiter
  nSignalsToIssue,    \* of each signaller
  destroying,         \* a thread has called pthread_cond_destroy
  destroyed,          \* and *cond is freed
  kept                \* but not the gate: its sem_destroy failed with EBUSY

counters == <<nWaitersBlocked, nWaitersToUnblock, nWaitersGone>>
locks    == <<mutex, mtxUnblockLock, semBlockLock, semBlockQueue>>
locals   == <<nSignalsWasLeft, nSignalsToIssue>>
vars     == <<locks, counters, at, locals, destroying, destroyed, kept>>

None == "none"

CondAssumption == IsFiniteSet(THREADS) /\ None \notin THREADS

Go(t, place) == at' = [at EXCEPT ![t] = place]

\* The caller keeps the mutex around its predicate and may signal with or
\* without it.
Lock(t) ==
  /\ at[t] = "out" /\ mutex = None
  /\ mutex' = t /\ Go(t, "critical")
  /\ UNCHANGED <<mtxUnblockLock, semBlockLock, semBlockQueue, counters, locals,
                 destroying, destroyed, kept>>

Unlock(t) ==
  /\ at[t] = "critical"
  /\ mutex' = None /\ Go(t, "out")
  /\ UNCHANGED <<mtxUnblockLock, semBlockLock, semBlockQueue, counters, locals,
                 destroying, destroyed, kept>>

-----------------------------------------------------------------------------
(* pthread_cond_wait and pthread_cond_timedwait. *)

pthread_cond_wait(t) ==
  /\ at[t] = "critical" /\ ~destroying
  /\ Go(t, "enters")
  /\ UNCHANGED <<locks, counters, locals, destroying, destroyed, kept>>

\* sem_wait on the gate ...
EnterGate(t) ==
  /\ at[t] = "enters" /\ semBlockLock > 0
  /\ semBlockLock' = semBlockLock - 1 /\ Go(t, "counts")
  /\ UNCHANGED <<mutex, mtxUnblockLock, semBlockQueue, counters, locals,
                 destroying, destroyed, kept>>

\* ... and sem_post, after the waiter has counted itself.
CountBlocked(t) ==
  /\ at[t] = "counts"
  /\ nWaitersBlocked' = nWaitersBlocked + 1
  /\ semBlockLock' = semBlockLock + 1 /\ Go(t, "blocked")
  /\ UNCHANGED <<mutex, mtxUnblockLock, semBlockQueue, nWaitersToUnblock, nWaitersGone, locals,
                 destroying, destroyed, kept>>

ReleaseMutex(t) ==
  /\ at[t] = "blocked"
  /\ mutex' = None /\ Go(t, "sleeps")
  /\ UNCHANGED <<mtxUnblockLock, semBlockLock, semBlockQueue, counters, locals,
                 destroying, destroyed, kept>>

\* sem_timedwait on the queue succeeds, or the time is over.
WakeUp(t) ==
  /\ at[t] = "sleeps" /\ semBlockQueue > 0
  /\ semBlockQueue' = semBlockQueue - 1 /\ Go(t, "cleans_up")
  /\ UNCHANGED <<mutex, mtxUnblockLock, semBlockLock, counters, locals,
                 destroying, destroyed, kept>>

TimeOut(t) ==
  /\ at[t] = "sleeps"
  /\ Go(t, "cleans_up")
  /\ UNCHANGED <<locks, counters, locals, destroying, destroyed, kept>>

\* ptw32_cond_wait_cleanup.
LockUnblock(t, from, to) ==
  /\ at[t] = from /\ mtxUnblockLock = None
  /\ mtxUnblockLock' = t /\ Go(t, to)
  /\ UNCHANGED <<mutex, semBlockLock, semBlockQueue, counters, locals,
                 destroying, destroyed, kept>>

\* pthread_mutex_unlock lets the next one in before it touches mx->event, which
\* it does when the word says that someone may wait.
UnlockUnblock(t) ==
  /\ mtxUnblockLock' = None
  /\ \E to \in {"unlocked", "left"} : Go(t, to)

\* The waiter leaves: as one of those to unblock, or as one that is gone.
Leave(t) ==
  /\ at[t] = "leaves"
  /\ nSignalsWasLeft' = [nSignalsWasLeft EXCEPT ![t] = nWaitersToUnblock]
  /\ UNCHANGED <<mutex, semBlockLock, semBlockQueue, nWaitersBlocked, nSignalsToIssue,
                 destroying, destroyed, kept>>
  /\ \/ /\ nWaitersToUnblock # 0
        /\ nWaitersToUnblock' = nWaitersToUnblock - 1 /\ UNCHANGED nWaitersGone
        /\ UnlockUnblock(t)
     \/ /\ nWaitersToUnblock = 0
        /\ nWaitersGone' = nWaitersGone + 1 /\ UNCHANGED nWaitersToUnblock
        /\ IF nWaitersGone' = GONE_MAX THEN Go(t, "waits_gate") /\ UNCHANGED mtxUnblockLock
           ELSE UnlockUnblock(t)

\* So many are gone that the counters are brought down, behind the gate.
CloseForGone(t) ==
  /\ at[t] = "waits_gate" /\ semBlockLock > 0
  /\ semBlockLock' = semBlockLock - 1 /\ Go(t, "forgets")
  /\ UNCHANGED <<mutex, mtxUnblockLock, semBlockQueue, counters, locals,
                 destroying, destroyed, kept>>

ForgetGone(t) ==
  /\ at[t] = "forgets"
  /\ nWaitersBlocked' = nWaitersBlocked - nWaitersGone /\ nWaitersGone' = 0
  /\ semBlockLock' = semBlockLock + 1
  /\ UnlockUnblock(t)
  /\ UNCHANGED <<mutex, semBlockQueue, nWaitersToUnblock, locals, destroying, destroyed, kept>>

\* SetEvent(mx->event), at the end of the unlock.
SetUnblockEvent(t) ==
  /\ at[t] = "unlocked" /\ Go(t, "left")
  /\ UNCHANGED <<locks, counters, locals, destroying, destroyed, kept>>

LastSignalled(t) == nSignalsWasLeft[t] = 1

\* The last of the signalled waiters opens the gate: sem_post counts it up
\* while it holds the semaphore's own lock.  (Whoever waits at the gate may go
\* on at once; the model lets those who come later go on, too.)
OpenGate(t) ==
  /\ at[t] = "left"
  /\ nSignalsWasLeft' = [nSignalsWasLeft EXCEPT ![t] = 0]
  /\ UNCHANGED <<mutex, mtxUnblockLock, semBlockQueue, counters, nSignalsToIssue,
                 destroying, destroyed, kept>>
  /\ \/ /\ LastSignalled(t)
        /\ semBlockLock' = semBlockLock + 1 /\ Go(t, "posted")
     \/ /\ ~LastSignalled(t)
        /\ UNCHANGED semBlockLock /\ Go(t, "relocks")

\* It releases the semaphore's lock, and sets the event of that lock when
\* someone came for it: nothing comes after that but the caller's mutex.
UnlockGate(t) ==
  /\ at[t] = "posted" /\ Go(t, "relocks")
  /\ UNCHANGED <<locks, counters, locals, destroying, destroyed, kept>>

Relock(t) ==
  /\ at[t] = "relocks" /\ mutex = None
  /\ mutex' = t /\ Go(t, "critical")
  /\ UNCHANGED <<mtxUnblockLock, semBlockLock, semBlockQueue, counters, locals,
                 destroying, destroyed, kept>>

-----------------------------------------------------------------------------
(* pthread_cond_signal and pthread_cond_broadcast: ptw32_cond_unblock. *)

pthread_cond_signal(t) ==
  /\ at[t] \in {"out", "critical"} /\ ~destroying
  /\ semBlockQueue < QUEUE
  /\ Go(t, "signals")
  /\ UNCHANGED <<locks, counters, locals, destroying, destroyed, kept>>

Return(t) == IF mutex = t THEN "critical" ELSE "out"

\* The gate is closed already: more of the counted waiters are released.
Issue(t, n, blocked) ==
  /\ nSignalsToIssue' = [nSignalsToIssue EXCEPT ![t] = n]
  /\ nWaitersToUnblock' = nWaitersToUnblock + n
  /\ nWaitersBlocked' = blocked - n
  /\ mtxUnblockLock' = None /\ Go(t, "posts")

Signals(blocked) == {1, blocked}

Decide(t) ==
  /\ at[t] = "decides"
  /\ UNCHANGED <<mutex, semBlockLock, semBlockQueue, nWaitersGone, nSignalsWasLeft,
                 destroying, destroyed, kept>>
  /\ \/ /\ nWaitersToUnblock # 0 /\ nWaitersBlocked # 0
        /\ \E n \in Signals(nWaitersBlocked) : Issue(t, n, nWaitersBlocked)
     \/ /\ nWaitersToUnblock = 0 /\ nWaitersBlocked > nWaitersGone
        /\ Go(t, "closes")
        /\ UNCHANGED <<mtxUnblockLock, nSignalsToIssue, nWaitersToUnblock, nWaitersBlocked>>
     \/ /\ IF nWaitersToUnblock # 0 THEN nWaitersBlocked = 0
           ELSE nWaitersBlocked <= nWaitersGone
        /\ mtxUnblockLock' = None /\ Go(t, Return(t))
        /\ UNCHANGED <<nSignalsToIssue, nWaitersToUnblock, nWaitersBlocked>>

StillBlocked == nWaitersBlocked - nWaitersGone

\* The first signal closes the gate, which keeps later waiters out, and drops
\* the waiters that are gone.
CloseGate(t) ==
  /\ at[t] = "closes" /\ semBlockLock > 0
  /\ semBlockLock' = semBlockLock - 1
  /\ nWaitersGone' = 0
  /\ \E n \in Signals(StillBlocked) : Issue(t, n, StillBlocked)
  /\ UNCHANGED <<mutex, semBlockQueue, nSignalsWasLeft, destroying, destroyed, kept>>

\* Mutant: a broadcast posts once, as a signal does.
PostsOnce(t) == 1

WakeUps(t) == nSignalsToIssue[t]

\* sem_post_multiple.
Post(t) ==
  /\ at[t] = "posts"
  /\ semBlockQueue' = semBlockQueue + WakeUps(t)
  /\ nSignalsToIssue' = [nSignalsToIssue EXCEPT ![t] = 0]
  /\ Go(t, Return(t))
  /\ UNCHANGED <<mutex, mtxUnblockLock, semBlockLock, counters, nSignalsWasLeft,
                 destroying, destroyed, kept>>

-----------------------------------------------------------------------------
(* pthread_cond_destroy. *)

\* A condition variable may be destroyed as soon as all its waiters are
\* awakened (NOTES 1 in pthread_cond_destroy.c); nobody calls it any more, but
\* waiters may still be on their way out.
Inside == {"enters", "counts", "signals", "decides", "closes", "posts"}

pthread_cond_destroy(t) ==
  /\ at[t] = "out" /\ ~destroying
  /\ \A u \in THREADS : at[u] \notin Inside
  /\ destroying' = TRUE /\ Go(t, "destroys")
  /\ UNCHANGED <<locks, counters, locals, destroyed, kept>>

\* The gate lets the waiters that were signalled leave first.
CloseForEver(t) ==
  /\ at[t] = "destroys" /\ semBlockLock > 0
  /\ semBlockLock' = semBlockLock - 1 /\ Go(t, "checks")
  /\ UNCHANGED <<mutex, mtxUnblockLock, semBlockQueue, counters, locals,
                 destroying, destroyed, kept>>

\* Mutant: the waiters that are still counted do not matter.
NeverBusy == FALSE

Busy == nWaitersBlocked > nWaitersGone

\* The trylock of sem_destroy fails while a waiter is still in sem_post; nobody
\* is in a call on the queue or on mtxUnblockLock then.
GateIsLocked == \E t \in THREADS : at[t] = "posted"

\* EBUSY when someone leaves just now, or still waits; else it is freed, all
\* but a gate that is locked: for that one EBUSY is returned, too.
CheckBusy(t) ==
  /\ at[t] = "checks"
  /\ Go(t, "out")
  /\ IF mtxUnblockLock # None \/ Busy
     THEN destroying' = FALSE /\ semBlockLock' = semBlockLock + 1 /\ UNCHANGED <<destroyed, kept>>
     ELSE /\ destroyed' = TRUE /\ kept' = GateIsLocked
          /\ UNCHANGED <<destroying, semBlockLock>>
  /\ UNCHANGED <<mutex, mtxUnblockLock, semBlockQueue, counters, locals>>

Init ==
  /\ mutex = None /\ mtxUnblockLock = None /\ semBlockLock = 1 /\ semBlockQueue = 0
  /\ nWaitersBlocked = 0 /\ nWaitersToUnblock = 0 /\ nWaitersGone = 0
  /\ at = [t \in THREADS |-> "out"]
  /\ nSignalsWasLeft = [t \in THREADS |-> 0] /\ nSignalsToIssue = [t \in THREADS |-> 0]
  /\ destroying = FALSE /\ destroyed = FALSE /\ kept = FALSE

WaitStep(t) ==
  \/ EnterGate(t) \/ CountBlocked(t) \/ ReleaseMutex(t)
  \/ LockUnblock(t, "cleans_up", "leaves") \/ Leave(t) \/ CloseForGone(t) \/ ForgetGone(t)
  \/ SetUnblockEvent(t) \/ OpenGate(t) \/ UnlockGate(t)
SignalStep(t)  == LockUnblock(t, "signals", "decides") \/ Decide(t) \/ CloseGate(t) \/ Post(t)
DestroyStep(t) == CloseForEver(t) \/ CheckBusy(t)
Step(t) == WaitStep(t) \/ SignalStep(t) \/ DestroyStep(t)

Next ==
  \E t \in THREADS :
    \/ Lock(t) \/ Unlock(t) \/ pthread_cond_wait(t) \/ WakeUp(t) \/ TimeOut(t) \/ Relock(t)
    \/ pthread_cond_signal(t) \/ pthread_cond_destroy(t)
    \/ Step(t)

Spec == Init /\ [][Next]_vars

\* Threads inside the library keep running; sleepers do not time out again and
\* again while the queue has a wake-up for them.
Fairness ==
  /\ \A t \in THREADS : WF_vars(Step(t))
  /\ SF_vars(\E t \in THREADS : WakeUp(t))

FairSpec == Spec /\ Fairness

-----------------------------------------------------------------------------
(* Properties. *)

Blocked    == {t \in THREADS : at[t] \in {"blocked", "sleeps"}}
Leaving    == {t \in THREADS : at[t] \in {"cleans_up", "leaves"}}

\* The wake-ups that signallers have still to post, a pair for each.
Unposted(issue) == UNION {{t} \X (1 .. issue[t]) : t \in THREADS}

Granted == semBlockQueue + Cardinality(Unposted(nSignalsToIssue))

\* The counters account for every waiter that has entered and not left, also
\* when timeouts, late wake-ups and signals cross.
CountersAgree ==
  nWaitersBlocked + nWaitersToUnblock - nWaitersGone = Cardinality(Blocked \cup Leaving)

\* A signal that finds nobody to release does nothing: then everyone who still
\* sleeps has a wake-up coming.
NoSignalIsLost == nWaitersBlocked <= nWaitersGone => Cardinality(Blocked) <= Granted

\* The gate is one token: it is in the semaphore, with the thread that works
\* behind it, or kept for the waiters that are to be unblocked.
GateIsOne ==
  semBlockLock
  + Cardinality({t \in THREADS : at[t] \in {"counts", "forgets", "checks"}})
  + Cardinality({t \in THREADS : at[t] \in {"unlocked", "left"} /\ LastSignalled(t)})
  + (IF nWaitersToUnblock > 0 THEN 1 ELSE 0)
  + (IF destroyed THEN 1 ELSE 0) = 1

\* "A condition variable can be destroyed immediately after all the threads
\* that are blocked on it are awakened": of those that are still on their way
\* out, none has a counter, a lock or the gate to touch afterwards, unless the
\* gate is kept for it.  What may be left to do in freed memory is the SetEvent
\* that ends an unlock: of mtxUnblockLock by those that are "unlocked", of the
\* gate's own lock by one that has just come to "relocks".
OnlyEventsAreLeft ==
  destroyed =>
    \A t \in THREADS :
      \/ at[t] \in {"out", "critical", "relocks"}
      \/ at[t] \in {"unlocked", "left"} /\ ~LastSignalled(t)
      \/ at[t] = "posted" /\ kept

\* Timeouts, late waiters and destruction never cost a waiter its wake-up, the
\* gate its token, or a thread the counters and locks it has still to work on
\* (ptw32_cond_wait_cleanup, ptw32_cond_unblock and pthread_cond_destroy).
CondInv == CountersAgree /\ NoSignalIsLost /\ GateIsOne /\ OnlyEventsAreLeft

\* Waiting, signalling and broadcasting implement a condition variable: none
\* of the waiters that a signal counts on sleeps for ever, in spite of
\* timeouts, of waiters that come later and of the gate.
Abstract == INSTANCE CondVariable WITH waiting <- Blocked, granted <- Granted
CondSpec == Abstract!Spec

\* The steps alone, without the promise that granted wake-ups are used.
CondSteps == Abstract!SafeSpec

-----------------------------------------------------------------------------
(* The inductive invariant behind CondInv. *)

Places ==
  {"out", "critical", "enters", "counts", "blocked", "sleeps", "cleans_up", "leaves",
   "waits_gate", "forgets", "unlocked", "left", "posted", "relocks", "signals",
   "decides", "closes", "posts", "destroys", "checks"}

TypeOK ==
  /\ mutex \in THREADS \cup {None} /\ mtxUnblockLock \in THREADS \cup {None}
  /\ semBlockLock \in Nat /\ semBlockQueue \in Nat
  /\ nWaitersBlocked \in Nat /\ nWaitersToUnblock \in Nat /\ nWaitersGone \in Nat
  /\ at \in [THREADS -> Places]
  /\ nSignalsWasLeft \in [THREADS -> Nat] /\ nSignalsToIssue \in [THREADS -> Nat]
  /\ destroying \in BOOLEAN /\ destroyed \in BOOLEAN /\ kept \in BOOLEAN

\* Where the two mutexes are held, and what their holders rely on.
LocksAreHeld ==
  \A t \in THREADS :
    /\ at[t] \in {"critical", "enters", "counts", "blocked"} => mutex = t
    /\ at[t] \in {"leaves", "waits_gate", "forgets", "decides", "closes"} => mtxUnblockLock = t
    /\ at[t] \in {"waits_gate", "forgets"} => nWaitersToUnblock = 0 /\ nSignalsWasLeft[t] = 0
    /\ at[t] = "closes" => nWaitersToUnblock = 0 /\ nWaitersBlocked > nWaitersGone
    /\ nSignalsToIssue[t] # 0 => at[t] = "posts"

\* A thread that destroys is alone with the waiters on their way out.
DestroysAlone ==
  /\ destroying => \A t \in THREADS : at[t] \notin Inside
  /\ destroyed => destroying
  /\ \A t, u \in THREADS :
       at[t] \in {"destroys", "checks"} =>
         /\ destroying /\ ~destroyed
         /\ at[u] \in {"destroys", "checks"} => u = t

\* Who is to be unblocked has a wake-up coming or is awake.
WakeUpsSuffice == nWaitersToUnblock <= Granted + Cardinality(Leaving)

WaitersInv ==
  /\ TypeOK /\ LocksAreHeld /\ DestroysAlone
  /\ CountersAgree /\ WakeUpsSuffice /\ GateIsOne /\ OnlyEventsAreLeft
=============================================================================
