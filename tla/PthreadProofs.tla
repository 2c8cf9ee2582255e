---------------------------- MODULE PthreadProofs ----------------------------
(***************************************************************************)
(* Proofs about the synchronisation of the client's ring on Windows, for   *)
(* every finite number of threads: the condition variable loses no waiter, *)
(* no wake-up and no token of its gate, and nobody works on it any more    *)
(* once it is destroyed; and the condition variable, the mutex and the     *)
(* semaphore take only steps that their abstract specifications allow.     *)
(***************************************************************************)
EXTENDS PthreadCond, FiniteSetTheorems, TLAPS

\* One mutex and one semaphore beside the condition variable, used by the same
\* threads.
CONSTANTS KINDS, DEPTH, VALUE_MAX
VARIABLES kind, lock_idx, event, ownerThread, recursive_count, mutex_at, timed,
          value, w32, place

Mutex     == INSTANCE PthreadMutex WITH at <- mutex_at
Semaphore == INSTANCE PthreadSemaphore
-----------------------------------------------------------------------------
(* Counting threads. *)

One(b) == IF b THEN 1 ELSE 0

\* A step of one thread changes the number of threads in a set by at most one.
LEMMA OneMoves ==
  ASSUME IsFiniteSet(THREADS), NEW A \in SUBSET THREADS, NEW B \in SUBSET THREADS,
         NEW t \in THREADS, \A u \in THREADS \ {t} : u \in A <=> u \in B
  PROVE  /\ Cardinality(A) \in Nat /\ Cardinality(B) \in Nat
         /\ Cardinality(B) + One(t \in A) = Cardinality(A) + One(t \in B)
<1>1. IsFiniteSet(A) /\ IsFiniteSet(B)
  BY FS_Subset
<1>2. Cardinality(A) \in Nat /\ Cardinality(B) \in Nat
  BY <1>1, FS_CardinalityType
<1>3. CASE t \in A /\ t \in B
  <2>1. A = B
    BY <1>3
  <2> QED
    BY <1>2, <1>3, <2>1
<1>4. CASE t \notin A /\ t \notin B
  <2>1. A = B
    BY <1>4
  <2> QED
    BY <1>2, <1>4, <2>1
<1>5. CASE t \in A /\ t \notin B
  <2>1. B = A \ {t}
    BY <1>5
  <2>2. Cardinality(B) = Cardinality(A) - 1
    BY <1>1, <1>5, <2>1, FS_RemoveElement
  <2> QED
    BY <1>2, <1>5, <2>2, SMT DEF One
<1>6. CASE t \notin A /\ t \in B
  <2>1. B = A \cup {t}
    BY <1>6
  <2>2. Cardinality(B) = Cardinality(A) + 1
    BY <1>1, <1>6, <2>1, FS_AddElement
  <2> QED
    BY <1>2, <1>6, <2>2, SMT DEF One
<1> QED
  BY <1>3, <1>4, <1>5, <1>6

\* The wake-ups that are still to be posted are as many as the signallers
\* have issued.
LEMMA UnpostedFinite ==
  ASSUME IsFiniteSet(THREADS), NEW f \in [THREADS -> Nat]
  PROVE  IsFiniteSet(Unposted(f)) /\ Cardinality(Unposted(f)) \in Nat
<1> DEFINE Of(t) == {t} \X (1 .. f[t])
           S == {Of(t) : t \in THREADS}
           g == [t \in THREADS |-> Of(t)]
<1>1. IsFiniteSet(S)
  <2>1. g \in [THREADS -> S] /\ \A s \in S : \E t \in THREADS : g[t] = s
    OBVIOUS
  <2>2. g \in Surjection(THREADS, S)
    BY <2>1 DEF Surjection
  <2> QED
    BY <2>2, FS_Surjection
<1>2. ASSUME NEW T \in S PROVE IsFiniteSet(T)
  <2>1. PICK t \in THREADS : T = {t} \X (1 .. f[t])
    OBVIOUS
  <2>2. f[t] \in Int /\ 1 \in Int
    BY SMT
  <2>3. IsFiniteSet(1 .. f[t]) /\ IsFiniteSet({t})
    BY <2>2, FS_Interval, FS_Singleton
  <2> QED
    BY <2>1, <2>3, FS_Product
<1>3. IsFiniteSet(UNION S)
  <2> HIDE DEF S
  <2> QED
    BY <1>1, <1>2, FS_UNION
<1>4. Unposted(f) = UNION S
  BY DEF Unposted
<1> QED
  BY <1>3, <1>4, FS_CardinalityType

LEMMA UnpostedAdds ==
  ASSUME IsFiniteSet(THREADS), NEW f \in [THREADS -> Nat], NEW t \in THREADS, NEW n \in Nat,
         f[t] = 0
  PROVE  Cardinality(Unposted([f EXCEPT ![t] = n])) = Cardinality(Unposted(f)) + n
<1> DEFINE g == [f EXCEPT ![t] = n]
           D == {t} \X (1 .. n)
<1>1. g \in [THREADS -> Nat] /\ g[t] = n /\ \A u \in THREADS \ {t} : g[u] = f[u]
  OBVIOUS
<1>2. IsFiniteSet(Unposted(f)) /\ Cardinality(Unposted(f)) \in Nat
  BY UnpostedFinite
<1>3. IsFiniteSet(D) /\ Cardinality(D) = n
  <2>1. IsFiniteSet({t}) /\ Cardinality({t}) = 1
    BY FS_Singleton
  <2>2. 1 \in Int /\ n \in Int
    BY SMT
  <2>3. IsFiniteSet(1 .. n) /\ Cardinality(1 .. n) = IF 1 > n THEN 0 ELSE n - 1 + 1
    BY <2>2, FS_Interval
  <2>4. Cardinality(1 .. n) = n
    BY <2>3, SMT
  <2>5. IsFiniteSet(D) /\ Cardinality(D) = Cardinality({t}) * Cardinality(1 .. n)
    BY <2>1, <2>3, FS_Product
  <2> QED
    BY <2>1, <2>4, <2>5, SMT
<1>4. 1 .. f[t] = {}
  BY SMT
<1>5. Unposted(g) = Unposted(f) \cup D
  <2> HIDE DEF g
  <2> QED
    BY <1>1, <1>4 DEF Unposted
<1>6. Unposted(f) \cap D = {}
  BY <1>4 DEF Unposted
<1> HIDE DEF g, D
<1>7. Cardinality(Unposted(f) \cup D)
        = Cardinality(Unposted(f)) + Cardinality(D) - Cardinality(Unposted(f) \cap D)
  BY <1>2, <1>3, FS_Union
<1>8. Cardinality(Unposted(f) \cap D) = 0
  BY <1>6, FS_EmptySet
<1>9. Cardinality(Unposted(f) \cup D) = Cardinality(Unposted(f)) + n
  BY <1>2, <1>3, <1>7, <1>8, SMT
<1> QED
  BY <1>5, <1>9 DEF g
-----------------------------------------------------------------------------
(* The numbers that the invariant relates, and how a step of one thread    *)
(* changes them.                                                           *)

AtGate  == {t \in THREADS : at[t] \in {"counts", "forgets", "checks"}}
Opening == {t \in THREADS : at[t] \in {"unlocked", "left"} /\ LastSignalled(t)}

inside  == Cardinality(Blocked \cup Leaving)
leaving == Cardinality(Leaving)
gating  == Cardinality(AtGate)
opening == Cardinality(Opening)
sleeping == Cardinality(Blocked)

\* Thread t goes from p to q; nSignalsWasLeft of the others stays.
Moves(t, p, q) ==
  /\ at[t] = p /\ Go(t, q)
  /\ \A u \in THREADS \ {t} : nSignalsWasLeft'[u] = nSignalsWasLeft[u]

LEMMA CountsMove ==
  ASSUME CondAssumption, at \in [THREADS -> Places], NEW t \in THREADS, NEW p, NEW q \in Places,
         Moves(t, p, q)
  PROVE  /\ inside \in Nat /\ leaving \in Nat /\ gating \in Nat /\ opening \in Nat
         /\ inside' \in Nat /\ leaving' \in Nat /\ gating' \in Nat /\ opening' \in Nat
         /\ inside' + One(p \in {"blocked", "sleeps", "cleans_up", "leaves"})
              = inside + One(q \in {"blocked", "sleeps", "cleans_up", "leaves"})
         /\ leaving' + One(p \in {"cleans_up", "leaves"})
              = leaving + One(q \in {"cleans_up", "leaves"})
         /\ gating' + One(p \in {"counts", "forgets", "checks"})
              = gating + One(q \in {"counts", "forgets", "checks"})
         /\ opening' + One(p \in {"unlocked", "left"} /\ nSignalsWasLeft[t] = 1)
              = opening + One(q \in {"unlocked", "left"} /\ nSignalsWasLeft'[t] = 1)
<1>1. IsFiniteSet(THREADS) /\ at[t] = p /\ at'[t] = q /\ \A u \in THREADS \ {t} : at'[u] = at[u]
  BY DEF CondAssumption, Moves, Go
<1>2. /\ inside \in Nat /\ inside' \in Nat
      /\ inside' + One(p \in {"blocked", "sleeps", "cleans_up", "leaves"})
           = inside + One(q \in {"blocked", "sleeps", "cleans_up", "leaves"})
  <2> DEFINE A == Blocked \cup Leaving
             B == (Blocked \cup Leaving)'
  <2>1. A \in SUBSET THREADS /\ B \in SUBSET THREADS /\ \A u \in THREADS \ {t} : u \in A <=> u \in B
    BY <1>1 DEF Blocked, Leaving
  <2>2. /\ t \in A <=> p \in {"blocked", "sleeps", "cleans_up", "leaves"}
        /\ t \in B <=> q \in {"blocked", "sleeps", "cleans_up", "leaves"}
    BY <1>1 DEF Blocked, Leaving
  <2>3. inside = Cardinality(A) /\ inside' = Cardinality(B)
    BY DEF inside
  <2> HIDE DEF A, B
  <2>4. /\ Cardinality(A) \in Nat /\ Cardinality(B) \in Nat
        /\ Cardinality(B) + One(t \in A) = Cardinality(A) + One(t \in B)
    BY <1>1, <2>1, OneMoves
  <2> QED
    BY <2>2, <2>3, <2>4 DEF One
<1>3. /\ leaving \in Nat /\ leaving' \in Nat
      /\ leaving' + One(p \in {"cleans_up", "leaves"}) = leaving + One(q \in {"cleans_up", "leaves"})
  <2> DEFINE A == Leaving
             B == Leaving'
  <2>1. A \in SUBSET THREADS /\ B \in SUBSET THREADS /\ \A u \in THREADS \ {t} : u \in A <=> u \in B
    BY <1>1 DEF Leaving
  <2>2. /\ t \in A <=> p \in {"cleans_up", "leaves"}
        /\ t \in B <=> q \in {"cleans_up", "leaves"}
    BY <1>1 DEF Leaving
  <2>3. leaving = Cardinality(A) /\ leaving' = Cardinality(B)
    BY DEF leaving
  <2> HIDE DEF A, B
  <2>4. /\ Cardinality(A) \in Nat /\ Cardinality(B) \in Nat
        /\ Cardinality(B) + One(t \in A) = Cardinality(A) + One(t \in B)
    BY <1>1, <2>1, OneMoves
  <2> QED
    BY <2>2, <2>3, <2>4 DEF One
<1>4. /\ gating \in Nat /\ gating' \in Nat
      /\ gating' + One(p \in {"counts", "forgets", "checks"})
           = gating + One(q \in {"counts", "forgets", "checks"})
  <2> DEFINE A == AtGate
             B == AtGate'
  <2>1. A \in SUBSET THREADS /\ B \in SUBSET THREADS /\ \A u \in THREADS \ {t} : u \in A <=> u \in B
    BY <1>1 DEF AtGate
  <2>2. /\ t \in A <=> p \in {"counts", "forgets", "checks"}
        /\ t \in B <=> q \in {"counts", "forgets", "checks"}
    BY <1>1 DEF AtGate
  <2>3. gating = Cardinality(A) /\ gating' = Cardinality(B)
    BY DEF gating
  <2> HIDE DEF A, B
  <2>4. /\ Cardinality(A) \in Nat /\ Cardinality(B) \in Nat
        /\ Cardinality(B) + One(t \in A) = Cardinality(A) + One(t \in B)
    BY <1>1, <2>1, OneMoves
  <2> QED
    BY <2>2, <2>3, <2>4 DEF One
<1>5. /\ opening \in Nat /\ opening' \in Nat
      /\ opening' + One(p \in {"unlocked", "left"} /\ nSignalsWasLeft[t] = 1)
           = opening + One(q \in {"unlocked", "left"} /\ nSignalsWasLeft'[t] = 1)
  <2> DEFINE A == Opening
             B == Opening'
  <2>1. A \in SUBSET THREADS /\ B \in SUBSET THREADS /\ \A u \in THREADS \ {t} : u \in A <=> u \in B
    BY <1>1 DEF Opening, LastSignalled, Moves
  <2>2. /\ t \in A <=> p \in {"unlocked", "left"} /\ nSignalsWasLeft[t] = 1
        /\ t \in B <=> q \in {"unlocked", "left"} /\ nSignalsWasLeft'[t] = 1
    BY <1>1 DEF Opening, LastSignalled
  <2>3. opening = Cardinality(A) /\ opening' = Cardinality(B)
    BY DEF opening
  <2> HIDE DEF A, B
  <2>4. /\ Cardinality(A) \in Nat /\ Cardinality(B) \in Nat
        /\ Cardinality(B) + One(t \in A) = Cardinality(A) + One(t \in B)
    BY <1>1, <2>1, OneMoves
  <2> QED
    BY <2>2, <2>3, <2>4 DEF One
<1> QED
  BY <1>2, <1>3, <1>4, <1>5

\* The numbers of a state in which no thread moves.
LEMMA GrantedType ==
  ASSUME CondAssumption, nSignalsToIssue \in [THREADS -> Nat], semBlockQueue \in Nat
  PROVE  Granted \in Nat
BY UnpostedFinite, SMT DEF Granted, CondAssumption

\* The sums of the invariant in these numbers.
Sums ==
  /\ nWaitersBlocked + nWaitersToUnblock - nWaitersGone = inside
  /\ nWaitersToUnblock <= Granted + leaving
  /\ semBlockLock + gating + opening + One(nWaitersToUnblock > 0) + One(destroyed) = 1

LEMMA SumsHold ==
  /\ CountersAgree /\ WakeUpsSuffice /\ GateIsOne <=> Sums
  /\ (CountersAgree /\ WakeUpsSuffice /\ GateIsOne)' <=> Sums'
BY DEF CountersAgree, WakeUpsSuffice, GateIsOne, LastSignalled, Sums, inside, leaving, gating,
       opening, AtGate, Opening, One

-----------------------------------------------------------------------------
(* The actions. *)

LEMMA LockOK ==
  ASSUME CondAssumption, WaitersInv, NEW t \in THREADS, Lock(t)
  PROVE  WaitersInv'
<1>1. TypeOK /\ LocksAreHeld /\ DestroysAlone /\ OnlyEventsAreLeft /\ Sums
  BY SumsHold DEF WaitersInv
<1>2. Moves(t, "out", "critical") /\ at \in [THREADS -> Places] /\ "critical" \in Places
  BY <1>1 DEF Lock, Moves, locks, locals, counters, TypeOK, Places
<1>3. TypeOK'
  BY <1>1, <1>2, SMT DEF TypeOK, Lock, Go, locks, locals, counters
<1>4. LocksAreHeld'
  BY <1>1, <1>2, SMT DEF TypeOK, LocksAreHeld, CondAssumption, Lock, Go, locks,
                         locals, counters
<1>5. DestroysAlone' /\ OnlyEventsAreLeft'
  BY <1>1, <1>2, SMT DEF TypeOK, DestroysAlone, OnlyEventsAreLeft, LastSignalled,
                         Inside, Lock, Go, locks,
                         locals, counters
<1>6. Sums'
  <2>1. Granted' = Granted /\ Granted \in Nat
    BY <1>1, GrantedType DEF TypeOK, Granted, Lock, locks, locals, counters
  <2>2. /\ inside' = inside /\ leaving' = leaving /\ gating' = gating /\ opening' = opening
        /\ inside \in Nat /\ leaving \in Nat /\ gating \in Nat /\ opening \in Nat
    BY <1>1, <1>2, CountsMove, SMT DEF TypeOK, One, Lock, locals
  <2> QED
    BY <1>1, <2>1, <2>2, SMT DEF TypeOK, Sums, One, Lock, locks, locals, counters
<1> QED
  BY <1>3, <1>4, <1>5, <1>6, SumsHold DEF WaitersInv

LEMMA UnlockOK ==
  ASSUME CondAssumption, WaitersInv, NEW t \in THREADS, Unlock(t)
  PROVE  WaitersInv'
<1>1. TypeOK /\ LocksAreHeld /\ DestroysAlone /\ OnlyEventsAreLeft /\ Sums
  BY SumsHold DEF WaitersInv
<1>2. Moves(t, "critical", "out") /\ at \in [THREADS -> Places] /\ "out" \in Places
  BY <1>1 DEF Unlock, Moves, locks, locals, counters, TypeOK, Places
<1>3. TypeOK'
  BY <1>1, <1>2, SMT DEF TypeOK, Unlock, Go, locks, locals, counters
<1>4. LocksAreHeld'
  BY <1>1, <1>2, SMT DEF TypeOK, LocksAreHeld, CondAssumption, Unlock, Go, locks,
                         locals, counters
<1>5. DestroysAlone' /\ OnlyEventsAreLeft'
  BY <1>1, <1>2, SMT DEF TypeOK, DestroysAlone, OnlyEventsAreLeft, LastSignalled,
                         Inside, Unlock, Go, locks,
                         locals, counters
<1>6. Sums'
  <2>1. Granted' = Granted /\ Granted \in Nat
    BY <1>1, GrantedType DEF TypeOK, Granted, Unlock, locks, locals, counters
  <2>2. /\ inside' = inside /\ leaving' = leaving /\ gating' = gating /\ opening' = opening
        /\ inside \in Nat /\ leaving \in Nat /\ gating \in Nat /\ opening \in Nat
    BY <1>1, <1>2, CountsMove, SMT DEF TypeOK, One, Unlock, locals
  <2> QED
    BY <1>1, <2>1, <2>2, SMT DEF TypeOK, Sums, One, Unlock, locks, locals, counters
<1> QED
  BY <1>3, <1>4, <1>5, <1>6, SumsHold DEF WaitersInv

LEMMA WaitOK ==
  ASSUME CondAssumption, WaitersInv, NEW t \in THREADS, pthread_cond_wait(t)
  PROVE  WaitersInv'
<1>1. TypeOK /\ LocksAreHeld /\ DestroysAlone /\ OnlyEventsAreLeft /\ Sums
  BY SumsHold DEF WaitersInv
<1>2. Moves(t, "critical", "enters") /\ at \in [THREADS -> Places] /\ "enters" \in Places
  BY <1>1 DEF pthread_cond_wait, Moves, locks, locals, counters, TypeOK, Places
<1>3. TypeOK'
  BY <1>1, <1>2, SMT DEF TypeOK, pthread_cond_wait, Go, locks, locals, counters
<1>4. LocksAreHeld'
  BY <1>1, <1>2, SMT DEF TypeOK, LocksAreHeld, CondAssumption, pthread_cond_wait, Go, locks,
                         locals, counters
<1>5. DestroysAlone' /\ OnlyEventsAreLeft'
  BY <1>1, <1>2, SMT DEF TypeOK, DestroysAlone, OnlyEventsAreLeft, LastSignalled,
                         Inside, pthread_cond_wait, Go, locks,
                         locals, counters
<1>6. Sums'
  <2>1. Granted' = Granted /\ Granted \in Nat
    BY <1>1, GrantedType DEF TypeOK, Granted, pthread_cond_wait, locks, locals, counters
  <2>2. /\ inside' = inside /\ leaving' = leaving /\ gating' = gating /\ opening' = opening
        /\ inside \in Nat /\ leaving \in Nat /\ gating \in Nat /\ opening \in Nat
    BY <1>1, <1>2, CountsMove, SMT DEF TypeOK, One, pthread_cond_wait, locals
  <2> QED
    BY <1>1, <2>1, <2>2, SMT DEF TypeOK, Sums, One, pthread_cond_wait, locks, locals, counters
<1> QED
  BY <1>3, <1>4, <1>5, <1>6, SumsHold DEF WaitersInv

LEMMA EnterGateOK ==
  ASSUME CondAssumption, WaitersInv, NEW t \in THREADS, EnterGate(t)
  PROVE  WaitersInv'
<1>1. TypeOK /\ LocksAreHeld /\ DestroysAlone /\ OnlyEventsAreLeft /\ Sums
  BY SumsHold DEF WaitersInv
<1>2. Moves(t, "enters", "counts") /\ at \in [THREADS -> Places] /\ "counts" \in Places
  BY <1>1 DEF EnterGate, Moves, locks, locals, counters, TypeOK, Places
<1>3. TypeOK'
  BY <1>1, <1>2, SMT DEF TypeOK, EnterGate, Go, locks, locals, counters
<1>4. LocksAreHeld'
  BY <1>1, <1>2, SMT DEF TypeOK, LocksAreHeld, CondAssumption, EnterGate, Go, locks,
                         locals, counters
<1>5. DestroysAlone' /\ OnlyEventsAreLeft'
  BY <1>1, <1>2, SMT DEF TypeOK, DestroysAlone, OnlyEventsAreLeft, LastSignalled,
                         Inside, EnterGate, Go, locks,
                         locals, counters
<1>6. Sums'
  <2>1. Granted' = Granted /\ Granted \in Nat
    BY <1>1, GrantedType DEF TypeOK, Granted, EnterGate, locks, locals, counters
  <2>2. /\ inside' = inside /\ leaving' = leaving /\ gating' = gating + 1 /\ opening' = opening
        /\ inside \in Nat /\ leaving \in Nat /\ gating \in Nat /\ opening \in Nat
    BY <1>1, <1>2, CountsMove, SMT DEF TypeOK, One, EnterGate, locals
  <2> QED
    BY <1>1, <2>1, <2>2, SMT DEF TypeOK, Sums, One, EnterGate, locks, locals, counters
<1> QED
  BY <1>3, <1>4, <1>5, <1>6, SumsHold DEF WaitersInv

LEMMA CountBlockedOK ==
  ASSUME CondAssumption, WaitersInv, NEW t \in THREADS, CountBlocked(t)
  PROVE  WaitersInv'
<1>1. TypeOK /\ LocksAreHeld /\ DestroysAlone /\ OnlyEventsAreLeft /\ Sums
  BY SumsHold DEF WaitersInv
<1>2. Moves(t, "counts", "blocked") /\ at \in [THREADS -> Places] /\ "blocked" \in Places
  BY <1>1 DEF CountBlocked, Moves, locks, locals, counters, TypeOK, Places
<1>3. TypeOK'
  BY <1>1, <1>2, SMT DEF TypeOK, CountBlocked, Go, locks, locals, counters
<1>4. LocksAreHeld'
  BY <1>1, <1>2, SMT DEF TypeOK, LocksAreHeld, CondAssumption, CountBlocked, Go, locks,
                         locals, counters
<1>5. DestroysAlone' /\ OnlyEventsAreLeft'
  BY <1>1, <1>2, SMT DEF TypeOK, DestroysAlone, OnlyEventsAreLeft, LastSignalled,
                         Inside, CountBlocked, Go, locks,
                         locals, counters
<1>6. Sums'
  <2>1. Granted' = Granted /\ Granted \in Nat
    BY <1>1, GrantedType DEF TypeOK, Granted, CountBlocked, locks, locals, counters
  <2>2. /\ inside' = inside + 1 /\ leaving' = leaving /\ gating' = gating - 1 /\ opening' = opening
        /\ inside \in Nat /\ leaving \in Nat /\ gating \in Nat /\ opening \in Nat
    BY <1>1, <1>2, CountsMove, SMT DEF TypeOK, One, CountBlocked, locals
  <2> QED
    BY <1>1, <2>1, <2>2, SMT DEF TypeOK, Sums, One, CountBlocked, locks, locals, counters
<1> QED
  BY <1>3, <1>4, <1>5, <1>6, SumsHold DEF WaitersInv

LEMMA ReleaseMutexOK ==
  ASSUME CondAssumption, WaitersInv, NEW t \in THREADS, ReleaseMutex(t)
  PROVE  WaitersInv'
<1>1. TypeOK /\ LocksAreHeld /\ DestroysAlone /\ OnlyEventsAreLeft /\ Sums
  BY SumsHold DEF WaitersInv
<1>2. Moves(t, "blocked", "sleeps") /\ at \in [THREADS -> Places] /\ "sleeps" \in Places
  BY <1>1 DEF ReleaseMutex, Moves, locks, locals, counters, TypeOK, Places
<1>3. TypeOK'
  BY <1>1, <1>2, SMT DEF TypeOK, ReleaseMutex, Go, locks, locals, counters
<1>4. LocksAreHeld'
  BY <1>1, <1>2, SMT DEF TypeOK, LocksAreHeld, CondAssumption, ReleaseMutex, Go, locks,
                         locals, counters
<1>5. DestroysAlone' /\ OnlyEventsAreLeft'
  BY <1>1, <1>2, SMT DEF TypeOK, DestroysAlone, OnlyEventsAreLeft, LastSignalled,
                         Inside, ReleaseMutex, Go, locks,
                         locals, counters
<1>6. Sums'
  <2>1. Granted' = Granted /\ Granted \in Nat
    BY <1>1, GrantedType DEF TypeOK, Granted, ReleaseMutex, locks, locals, counters
  <2>2. /\ inside' = inside /\ leaving' = leaving /\ gating' = gating /\ opening' = opening
        /\ inside \in Nat /\ leaving \in Nat /\ gating \in Nat /\ opening \in Nat
    BY <1>1, <1>2, CountsMove, SMT DEF TypeOK, One, ReleaseMutex, locals
  <2> QED
    BY <1>1, <2>1, <2>2, SMT DEF TypeOK, Sums, One, ReleaseMutex, locks, locals, counters
<1> QED
  BY <1>3, <1>4, <1>5, <1>6, SumsHold DEF WaitersInv

LEMMA TimeOutOK ==
  ASSUME CondAssumption, WaitersInv, NEW t \in THREADS, TimeOut(t)
  PROVE  WaitersInv'
<1>1. TypeOK /\ LocksAreHeld /\ DestroysAlone /\ OnlyEventsAreLeft /\ Sums
  BY SumsHold DEF WaitersInv
<1>2. Moves(t, "sleeps", "cleans_up") /\ at \in [THREADS -> Places] /\ "cleans_up" \in Places
  BY <1>1 DEF TimeOut, Moves, locks, locals, counters, TypeOK, Places
<1>3. TypeOK'
  BY <1>1, <1>2, SMT DEF TypeOK, TimeOut, Go, locks, locals, counters
<1>4. LocksAreHeld'
  BY <1>1, <1>2, SMT DEF TypeOK, LocksAreHeld, CondAssumption, TimeOut, Go, locks,
                         locals, counters
<1>5. DestroysAlone' /\ OnlyEventsAreLeft'
  BY <1>1, <1>2, SMT DEF TypeOK, DestroysAlone, OnlyEventsAreLeft, LastSignalled,
                         Inside, TimeOut, Go, locks,
                         locals, counters
<1>6. Sums'
  <2>1. Granted' = Granted /\ Granted \in Nat
    BY <1>1, GrantedType DEF TypeOK, Granted, TimeOut, locks, locals, counters
  <2>2. /\ inside' = inside /\ leaving' = leaving + 1 /\ gating' = gating /\ opening' = opening
        /\ inside \in Nat /\ leaving \in Nat /\ gating \in Nat /\ opening \in Nat
    BY <1>1, <1>2, CountsMove, SMT DEF TypeOK, One, TimeOut, locals
  <2> QED
    BY <1>1, <2>1, <2>2, SMT DEF TypeOK, Sums, One, TimeOut, locks, locals, counters
<1> QED
  BY <1>3, <1>4, <1>5, <1>6, SumsHold DEF WaitersInv

LEMMA CleanUpOK ==
  ASSUME CondAssumption, WaitersInv, NEW t \in THREADS, LockUnblock(t, "cleans_up", "leaves")
  PROVE  WaitersInv'
<1>1. TypeOK /\ LocksAreHeld /\ DestroysAlone /\ OnlyEventsAreLeft /\ Sums
  BY SumsHold DEF WaitersInv
<1>2. Moves(t, "cleans_up", "leaves") /\ at \in [THREADS -> Places] /\ "leaves" \in Places
  BY <1>1 DEF LockUnblock, Moves, locks, locals, counters, TypeOK, Places
<1>3. TypeOK'
  BY <1>1, <1>2, SMT DEF TypeOK, LockUnblock, Go, locks, locals, counters
<1>4. LocksAreHeld'
  BY <1>1, <1>2, SMT DEF TypeOK, LocksAreHeld, CondAssumption, LockUnblock, Go, locks,
                         locals, counters
<1>5. DestroysAlone' /\ OnlyEventsAreLeft'
  BY <1>1, <1>2, SMT DEF TypeOK, DestroysAlone, OnlyEventsAreLeft, LastSignalled,
                         Inside, LockUnblock, Go, locks,
                         locals, counters
<1>6. Sums'
  <2>1. Granted' = Granted /\ Granted \in Nat
    BY <1>1, GrantedType DEF TypeOK, Granted, LockUnblock, locks, locals, counters
  <2>2. /\ inside' = inside /\ leaving' = leaving /\ gating' = gating /\ opening' = opening
        /\ inside \in Nat /\ leaving \in Nat /\ gating \in Nat /\ opening \in Nat
    BY <1>1, <1>2, CountsMove, SMT DEF TypeOK, One, LockUnblock, locals
  <2> QED
    BY <1>1, <2>1, <2>2, SMT DEF TypeOK, Sums, One, LockUnblock, locks, locals, counters
<1> QED
  BY <1>3, <1>4, <1>5, <1>6, SumsHold DEF WaitersInv

LEMMA CloseForGoneOK ==
  ASSUME CondAssumption, WaitersInv, NEW t \in THREADS, CloseForGone(t)
  PROVE  WaitersInv'
<1>1. TypeOK /\ LocksAreHeld /\ DestroysAlone /\ OnlyEventsAreLeft /\ Sums
  BY SumsHold DEF WaitersInv
<1>2. Moves(t, "waits_gate", "forgets") /\ at \in [THREADS -> Places] /\ "forgets" \in Places
  BY <1>1 DEF CloseForGone, Moves, locks, locals, counters, TypeOK, Places
<1>3. TypeOK'
  BY <1>1, <1>2, SMT DEF TypeOK, CloseForGone, Go, locks, locals, counters
<1>4. LocksAreHeld'
  BY <1>1, <1>2, SMT DEF TypeOK, LocksAreHeld, CondAssumption, CloseForGone, Go, locks,
                         locals, counters
<1>5. DestroysAlone' /\ OnlyEventsAreLeft'
  BY <1>1, <1>2, SMT DEF TypeOK, DestroysAlone, OnlyEventsAreLeft, LastSignalled,
                         Inside, CloseForGone, Go, locks,
                         locals, counters
<1>6. Sums'
  <2>1. Granted' = Granted /\ Granted \in Nat
    BY <1>1, GrantedType DEF TypeOK, Granted, CloseForGone, locks, locals, counters
  <2>2. /\ inside' = inside /\ leaving' = leaving /\ gating' = gating + 1 /\ opening' = opening
        /\ inside \in Nat /\ leaving \in Nat /\ gating \in Nat /\ opening \in Nat
    BY <1>1, <1>2, CountsMove, SMT DEF TypeOK, One, CloseForGone, locals
  <2> QED
    BY <1>1, <2>1, <2>2, SMT DEF TypeOK, Sums, One, CloseForGone, locks, locals, counters
<1> QED
  BY <1>3, <1>4, <1>5, <1>6, SumsHold DEF WaitersInv

LEMMA RelockOK ==
  ASSUME CondAssumption, WaitersInv, NEW t \in THREADS, Relock(t)
  PROVE  WaitersInv'
<1>1. TypeOK /\ LocksAreHeld /\ DestroysAlone /\ OnlyEventsAreLeft /\ Sums
  BY SumsHold DEF WaitersInv
<1>2. Moves(t, "relocks", "critical") /\ at \in [THREADS -> Places] /\ "critical" \in Places
  BY <1>1 DEF Relock, Moves, locks, locals, counters, TypeOK, Places
<1>3. TypeOK'
  BY <1>1, <1>2, SMT DEF TypeOK, Relock, Go, locks, locals, counters
<1>4. LocksAreHeld'
  BY <1>1, <1>2, SMT DEF TypeOK, LocksAreHeld, CondAssumption, Relock, Go, locks,
                         locals, counters
<1>5. DestroysAlone' /\ OnlyEventsAreLeft'
  BY <1>1, <1>2, SMT DEF TypeOK, DestroysAlone, OnlyEventsAreLeft, LastSignalled,
                         Inside, Relock, Go, locks,
                         locals, counters
<1>6. Sums'
  <2>1. Granted' = Granted /\ Granted \in Nat
    BY <1>1, GrantedType DEF TypeOK, Granted, Relock, locks, locals, counters
  <2>2. /\ inside' = inside /\ leaving' = leaving /\ gating' = gating /\ opening' = opening
        /\ inside \in Nat /\ leaving \in Nat /\ gating \in Nat /\ opening \in Nat
    BY <1>1, <1>2, CountsMove, SMT DEF TypeOK, One, Relock, locals
  <2> QED
    BY <1>1, <2>1, <2>2, SMT DEF TypeOK, Sums, One, Relock, locks, locals, counters
<1> QED
  BY <1>3, <1>4, <1>5, <1>6, SumsHold DEF WaitersInv

LEMMA EnterSignalOK ==
  ASSUME CondAssumption, WaitersInv, NEW t \in THREADS, LockUnblock(t, "signals", "decides")
  PROVE  WaitersInv'
<1>1. TypeOK /\ LocksAreHeld /\ DestroysAlone /\ OnlyEventsAreLeft /\ Sums
  BY SumsHold DEF WaitersInv
<1>2. Moves(t, "signals", "decides") /\ at \in [THREADS -> Places] /\ "decides" \in Places
  BY <1>1 DEF LockUnblock, Moves, locks, locals, counters, TypeOK, Places
<1>3. TypeOK'
  BY <1>1, <1>2, SMT DEF TypeOK, LockUnblock, Go, locks, locals, counters
<1>4. LocksAreHeld'
  BY <1>1, <1>2, SMT DEF TypeOK, LocksAreHeld, CondAssumption, LockUnblock, Go, locks,
                         locals, counters
<1>5. DestroysAlone' /\ OnlyEventsAreLeft'
  BY <1>1, <1>2, SMT DEF TypeOK, DestroysAlone, OnlyEventsAreLeft, LastSignalled,
                         Inside, LockUnblock, Go, locks,
                         locals, counters
<1>6. Sums'
  <2>1. Granted' = Granted /\ Granted \in Nat
    BY <1>1, GrantedType DEF TypeOK, Granted, LockUnblock, locks, locals, counters
  <2>2. /\ inside' = inside /\ leaving' = leaving /\ gating' = gating /\ opening' = opening
        /\ inside \in Nat /\ leaving \in Nat /\ gating \in Nat /\ opening \in Nat
    BY <1>1, <1>2, CountsMove, SMT DEF TypeOK, One, LockUnblock, locals
  <2> QED
    BY <1>1, <2>1, <2>2, SMT DEF TypeOK, Sums, One, LockUnblock, locks, locals, counters
<1> QED
  BY <1>3, <1>4, <1>5, <1>6, SumsHold DEF WaitersInv

LEMMA CloseForEverOK ==
  ASSUME CondAssumption, WaitersInv, NEW t \in THREADS, CloseForEver(t)
  PROVE  WaitersInv'
<1>1. TypeOK /\ LocksAreHeld /\ DestroysAlone /\ OnlyEventsAreLeft /\ Sums
  BY SumsHold DEF WaitersInv
<1>2. Moves(t, "destroys", "checks") /\ at \in [THREADS -> Places] /\ "checks" \in Places
  BY <1>1 DEF CloseForEver, Moves, locks, locals, counters, TypeOK, Places
<1>3. TypeOK'
  BY <1>1, <1>2, SMT DEF TypeOK, CloseForEver, Go, locks, locals, counters
<1>4. LocksAreHeld'
  BY <1>1, <1>2, SMT DEF TypeOK, LocksAreHeld, CondAssumption, CloseForEver, Go, locks,
                         locals, counters
<1>5. DestroysAlone' /\ OnlyEventsAreLeft'
  BY <1>1, <1>2, SMT DEF TypeOK, DestroysAlone, OnlyEventsAreLeft, LastSignalled,
                         Inside, CloseForEver, Go, locks,
                         locals, counters
<1>6. Sums'
  <2>1. Granted' = Granted /\ Granted \in Nat
    BY <1>1, GrantedType DEF TypeOK, Granted, CloseForEver, locks, locals, counters
  <2>2. /\ inside' = inside /\ leaving' = leaving /\ gating' = gating + 1 /\ opening' = opening
        /\ inside \in Nat /\ leaving \in Nat /\ gating \in Nat /\ opening \in Nat
    BY <1>1, <1>2, CountsMove, SMT DEF TypeOK, One, CloseForEver, locals
  <2> QED
    BY <1>1, <2>1, <2>2, SMT DEF TypeOK, Sums, One, CloseForEver, locks, locals, counters
<1> QED
  BY <1>3, <1>4, <1>5, <1>6, SumsHold DEF WaitersInv

LEMMA EnterSignalCallOK ==
  ASSUME CondAssumption, WaitersInv, NEW t \in THREADS, pthread_cond_signal(t)
  PROVE  WaitersInv'
<1>1. TypeOK /\ LocksAreHeld /\ DestroysAlone /\ OnlyEventsAreLeft /\ Sums
  BY SumsHold DEF WaitersInv
<1>2. /\ Moves(t, at[t], "signals") /\ at \in [THREADS -> Places] /\ "signals" \in Places
      /\ at[t] \in {"out", "critical"}
  BY <1>1 DEF pthread_cond_signal, Moves, locks, locals, counters, TypeOK, Places
<1>3. TypeOK'
  BY <1>1, <1>2, SMT DEF TypeOK, pthread_cond_signal, Go, locks, locals, counters
<1>4. LocksAreHeld'
  BY <1>1, <1>2, SMT DEF TypeOK, LocksAreHeld, pthread_cond_signal, Go, locks, locals, counters
<1>5. DestroysAlone' /\ OnlyEventsAreLeft'
  BY <1>1, <1>2, SMT DEF TypeOK, DestroysAlone, OnlyEventsAreLeft, LastSignalled,
                         Inside, pthread_cond_signal,
                         Go, locks, locals, counters
<1>6. Sums'
  <2>1. Granted' = Granted /\ Granted \in Nat
    BY <1>1, GrantedType DEF TypeOK, Granted, pthread_cond_signal, locks, locals, counters
  <2>2. /\ inside' = inside /\ leaving' = leaving /\ gating' = gating /\ opening' = opening
        /\ inside \in Nat /\ leaving \in Nat /\ gating \in Nat /\ opening \in Nat
    BY <1>1, <1>2, CountsMove, SMT DEF TypeOK, One
  <2> QED
    BY <1>1, <2>1, <2>2, SMT DEF TypeOK, Sums, One, pthread_cond_signal, locks, locals, counters
<1> QED
  BY <1>3, <1>4, <1>5, <1>6, SumsHold DEF WaitersInv

\* Taking a wake-up.
LEMMA WakeUpTakes ==
  ASSUME CondAssumption, TypeOK, NEW t \in THREADS, WakeUp(t)
  PROVE  Granted' = Granted - 1 /\ Granted \in Nat /\ Granted > 0
<1>1. Cardinality(Unposted(nSignalsToIssue)) \in Nat /\ semBlockQueue \in Nat
  BY UnpostedFinite DEF TypeOK, CondAssumption
<1>2. semBlockQueue' = semBlockQueue - 1 /\ nSignalsToIssue' = nSignalsToIssue /\ semBlockQueue > 0
  BY DEF WakeUp, locals
<1> QED
  BY <1>1, <1>2, SMT DEF Granted

LEMMA WakeUpOK ==
  ASSUME CondAssumption, WaitersInv, NEW t \in THREADS, WakeUp(t)
  PROVE  WaitersInv'
<1>1. TypeOK /\ LocksAreHeld /\ DestroysAlone /\ OnlyEventsAreLeft /\ Sums
  BY SumsHold DEF WaitersInv
<1>2. Moves(t, "sleeps", "cleans_up") /\ at \in [THREADS -> Places] /\ "cleans_up" \in Places
  BY <1>1 DEF WakeUp, Moves, locals, TypeOK, Places
<1>3. TypeOK'
  BY <1>1, <1>2, SMT DEF TypeOK, WakeUp, Go, locals, counters
<1>4. LocksAreHeld'
  BY <1>1, <1>2, SMT DEF TypeOK, LocksAreHeld, WakeUp, Go, locals, counters
<1>5. DestroysAlone' /\ OnlyEventsAreLeft'
  BY <1>1, <1>2, SMT DEF TypeOK, DestroysAlone, OnlyEventsAreLeft, LastSignalled,
                         Inside, WakeUp, Go, locals
<1>6. Sums'
  <2>1. Granted' = Granted - 1 /\ Granted \in Nat
    BY <1>1, WakeUpTakes
  <2>2. /\ inside' = inside /\ leaving' = leaving + 1 /\ gating' = gating /\ opening' = opening
        /\ inside \in Nat /\ leaving \in Nat /\ gating \in Nat /\ opening \in Nat
    BY <1>1, <1>2, CountsMove, SMT DEF TypeOK, One, WakeUp, locals
  <2> QED
    BY <1>1, <2>1, <2>2, SMT DEF TypeOK, Sums, One, WakeUp, locals, counters
<1> QED
  BY <1>3, <1>4, <1>5, <1>6, SumsHold DEF WaitersInv

\* The waiter that finds one signal left keeps the token of the gate.
LEMMA LeaveOK ==
  ASSUME CondAssumption, WaitersInv, NEW t \in THREADS, Leave(t)
  PROVE  WaitersInv'
<1>1. TypeOK /\ LocksAreHeld /\ DestroysAlone /\ OnlyEventsAreLeft /\ Sums
  BY SumsHold DEF WaitersInv
<1>2. /\ nSignalsWasLeft' = [nSignalsWasLeft EXCEPT ![t] = nWaitersToUnblock]
      /\ UNCHANGED << mutex, semBlockLock, semBlockQueue, nWaitersBlocked, nSignalsToIssue,
                      destroying, destroyed, kept >>
      /\ at[t] = "leaves" /\ at \in [THREADS -> Places] /\ nWaitersToUnblock \in Nat
      /\ nSignalsWasLeft \in [THREADS -> Nat] /\ mtxUnblockLock = t
  BY <1>1 DEF Leave, TypeOK, LocksAreHeld
<1>3. Granted' = Granted /\ Granted \in Nat
  BY <1>1, <1>2, GrantedType DEF TypeOK, Granted
<1>4. CASE /\ nWaitersToUnblock # 0
           /\ nWaitersToUnblock' = nWaitersToUnblock - 1 /\ UNCHANGED nWaitersGone
           /\ UnlockUnblock(t)
  <2>. PICK q \in {"unlocked", "left"} : mtxUnblockLock' = None /\ Go(t, q)
    BY <1>4 DEF UnlockUnblock
  <2>1. Moves(t, "leaves", q) /\ q \in Places /\ nSignalsWasLeft'[t] = nWaitersToUnblock
    BY <1>2, <1>4 DEF Moves, Places
  <2>2. TypeOK'
    BY <1>1, <1>2, <1>4, <2>1, SMT DEF TypeOK, Go
  <2>3. LocksAreHeld'
    BY <1>1, <1>2, <1>4, SMT DEF TypeOK, LocksAreHeld, CondAssumption, Go
  <2>4. DestroysAlone' /\ OnlyEventsAreLeft'
    BY <1>1, <1>2, <1>4, SMT DEF TypeOK, DestroysAlone, OnlyEventsAreLeft, LastSignalled,
                                 Inside, Go
  <2>5. Sums'
    <3>1. /\ inside' = inside - 1 /\ leaving' = leaving - 1 /\ gating' = gating
          /\ opening' = opening + One(nWaitersToUnblock = 1)
          /\ inside \in Nat /\ leaving \in Nat /\ gating \in Nat /\ opening \in Nat
      BY <1>2, <2>1, CountsMove, SMT DEF One
    <3> QED
      BY <1>1, <1>2, <1>3, <1>4, <3>1, SMT DEF TypeOK, Sums, One
  <2> QED
    BY <2>2, <2>3, <2>4, <2>5, SumsHold DEF WaitersInv
<1>5. CASE /\ nWaitersToUnblock = 0
           /\ nWaitersGone' = nWaitersGone + 1 /\ UNCHANGED nWaitersToUnblock
           /\ IF nWaitersGone' = GONE_MAX THEN Go(t, "waits_gate") /\ UNCHANGED mtxUnblockLock
              ELSE UnlockUnblock(t)
  <2>1. PICK q \in {"waits_gate", "unlocked", "left"} :
          /\ Go(t, q)
          /\ q = "waits_gate" => mtxUnblockLock' = mtxUnblockLock
          /\ q # "waits_gate" => mtxUnblockLock' = None
    BY <1>5 DEF UnlockUnblock
  <2>2. Moves(t, "leaves", q) /\ q \in Places /\ nSignalsWasLeft'[t] = 0
    BY <1>2, <1>5, <2>1 DEF Moves, Places
  <2>3. TypeOK'
    BY <1>1, <1>2, <1>5, <2>1, <2>2, SMT DEF TypeOK, Go
  <2>4. LocksAreHeld'
    BY <1>1, <1>2, <1>5, <2>1, SMT DEF TypeOK, LocksAreHeld, CondAssumption, Go
  <2>5. DestroysAlone' /\ OnlyEventsAreLeft'
    BY <1>1, <1>2, <1>5, <2>1, SMT DEF TypeOK, DestroysAlone, OnlyEventsAreLeft, LastSignalled,
                                       Inside, Go
  <2>6. Sums'
    <3>1. /\ inside' = inside - 1 /\ leaving' = leaving - 1 /\ gating' = gating
          /\ opening' = opening
          /\ inside \in Nat /\ leaving \in Nat /\ gating \in Nat /\ opening \in Nat
      BY <1>2, <2>1, <2>2, CountsMove, SMT DEF One
    <3>2. leaving' \in Nat
      BY <1>2, <2>1, <2>2, CountsMove
    <3> QED
      BY <1>1, <1>2, <1>3, <1>5, <3>1, <3>2, SMT DEF TypeOK, Sums, One
  <2> QED
    BY <2>3, <2>4, <2>5, <2>6, SumsHold DEF WaitersInv
<1> QED
  BY <1>4, <1>5 DEF Leave

LEMMA ForgetGoneOK ==
  ASSUME CondAssumption, WaitersInv, NEW t \in THREADS, ForgetGone(t)
  PROVE  WaitersInv'
<1>1. TypeOK /\ LocksAreHeld /\ DestroysAlone /\ OnlyEventsAreLeft /\ Sums
  BY SumsHold DEF WaitersInv
<1> PICK q \in {"unlocked", "left"} : mtxUnblockLock' = None /\ Go(t, q)
  BY DEF ForgetGone, UnlockUnblock
<1>2. /\ Moves(t, "forgets", q) /\ at \in [THREADS -> Places] /\ q \in Places
      /\ nSignalsWasLeft[t] = 0 /\ nSignalsWasLeft'[t] = 0 /\ nWaitersToUnblock = 0
      /\ mtxUnblockLock = t
  BY <1>1 DEF ForgetGone, Moves, locals, TypeOK, Places, LocksAreHeld
<1>3. /\ inside' = inside /\ leaving' = leaving /\ gating' = gating - 1 /\ opening' = opening
      /\ inside \in Nat /\ leaving \in Nat /\ gating \in Nat /\ opening \in Nat
  BY <1>2, CountsMove, SMT DEF One
<1>4. nWaitersBlocked' = inside /\ nWaitersGone' = 0
  BY <1>1, <1>2, <1>3, SMT DEF TypeOK, Sums, ForgetGone
<1>5. TypeOK'
  BY <1>1, <1>2, <1>3, <1>4, SMT DEF TypeOK, ForgetGone, Go, locals
<1>6. LocksAreHeld'
  BY <1>1, <1>2, SMT DEF TypeOK, LocksAreHeld, CondAssumption, ForgetGone, Go, locals
<1>7. DestroysAlone' /\ OnlyEventsAreLeft'
  BY <1>1, <1>2, SMT DEF TypeOK, DestroysAlone, OnlyEventsAreLeft, LastSignalled,
                         Inside, ForgetGone, Go, locals
<1>8. Sums'
  <2>1. Granted' = Granted /\ Granted \in Nat
    BY <1>1, GrantedType DEF TypeOK, Granted, ForgetGone, locals
  <2> QED
    BY <1>1, <1>2, <1>3, <1>4, <2>1, SMT DEF TypeOK, Sums, One, ForgetGone, locals
<1> QED
  BY <1>5, <1>6, <1>7, <1>8, SumsHold DEF WaitersInv

LEMMA SetUnblockEventOK ==
  ASSUME CondAssumption, WaitersInv, NEW t \in THREADS, SetUnblockEvent(t)
  PROVE  WaitersInv'
<1>1. TypeOK /\ LocksAreHeld /\ DestroysAlone /\ OnlyEventsAreLeft /\ Sums
  BY SumsHold DEF WaitersInv
<1>2. Moves(t, "unlocked", "left") /\ at \in [THREADS -> Places] /\ "left" \in Places
  BY <1>1 DEF SetUnblockEvent, Moves, locals, TypeOK, Places
<1>3. TypeOK'
  BY <1>1, <1>2, SMT DEF TypeOK, SetUnblockEvent, Go, locks, locals, counters
<1>4. LocksAreHeld'
  BY <1>1, <1>2, SMT DEF TypeOK, LocksAreHeld, SetUnblockEvent, Go, locks, locals, counters
<1>5. DestroysAlone' /\ OnlyEventsAreLeft'
  BY <1>1, <1>2, SMT DEF TypeOK, DestroysAlone, OnlyEventsAreLeft, LastSignalled,
                         Inside, SetUnblockEvent,
                         Go, locks, locals, counters
<1>6. Sums'
  <2>1. Granted' = Granted
    BY DEF Granted, SetUnblockEvent, locks, locals
  <2>2. inside' = inside /\ leaving' = leaving /\ gating' = gating /\ opening' = opening
    BY <1>1, <1>2, CountsMove, SMT DEF One, SetUnblockEvent, locals
  <2> QED
    BY <1>1, <2>1, <2>2 DEF Sums, One, SetUnblockEvent, locks, counters
<1> QED
  BY <1>3, <1>4, <1>5, <1>6, SumsHold DEF WaitersInv

LEMMA OpenGateOK ==
  ASSUME CondAssumption, WaitersInv, NEW t \in THREADS, OpenGate(t)
  PROVE  WaitersInv'
<1>1. TypeOK /\ LocksAreHeld /\ DestroysAlone /\ OnlyEventsAreLeft /\ Sums
  BY SumsHold DEF WaitersInv
<1> PICK q \in {"posted", "relocks"} : Go(t, q) /\ (q = "posted" => LastSignalled(t))
  BY DEF OpenGate
<1>2. Moves(t, "left", q) /\ at \in [THREADS -> Places] /\ q \in Places
  BY <1>1 DEF OpenGate, Moves, TypeOK, Places
<1>3. TypeOK'
  BY <1>1, <1>2, SMT DEF TypeOK, OpenGate, Go, counters
<1>4. LocksAreHeld'
  BY <1>1, <1>2, SMT DEF TypeOK, LocksAreHeld, OpenGate, Go, counters
<1>5. DestroysAlone' /\ OnlyEventsAreLeft'
  BY <1>1, <1>2, SMT DEF TypeOK, DestroysAlone, OnlyEventsAreLeft, LastSignalled,
                         Inside, OpenGate, Go, counters
<1>6. Sums'
  <2>1. Granted' = Granted /\ Granted \in Nat
    BY <1>1, GrantedType DEF TypeOK, Granted, OpenGate
  <2>2. /\ inside' = inside /\ leaving' = leaving /\ gating' = gating
        /\ opening' + One(nSignalsWasLeft[t] = 1) = opening
        /\ inside \in Nat /\ leaving \in Nat /\ gating \in Nat /\ opening \in Nat
        /\ opening' \in Nat
    BY <1>1, <1>2, CountsMove, SMT DEF TypeOK, One
  <2>3. semBlockLock' = semBlockLock + One(nSignalsWasLeft[t] = 1) /\ semBlockLock \in Nat
    BY <1>1, SMT DEF OpenGate, LastSignalled, One, TypeOK
  <2>4. /\ UNCHANGED <<nWaitersBlocked, nWaitersToUnblock, nWaitersGone, destroyed>>
        /\ One(nSignalsWasLeft[t] = 1) \in Nat
    BY DEF OpenGate, counters, One
  <2>5. One(nWaitersToUnblock > 0) \in Nat /\ One(destroyed) \in Nat
    BY DEF One
  <2> DEFINE last == One(nSignalsWasLeft[t] = 1)
  <2> HIDE DEF last
  <2> QED
    BY <1>1, <2>1, <2>2, <2>3, <2>4, <2>5, SMT DEF TypeOK, Sums
<1> QED
  BY <1>3, <1>4, <1>5, <1>6, SumsHold DEF WaitersInv

LEMMA UnlockGateOK ==
  ASSUME CondAssumption, WaitersInv, NEW t \in THREADS, UnlockGate(t)
  PROVE  WaitersInv'
<1>1. TypeOK /\ LocksAreHeld /\ DestroysAlone /\ OnlyEventsAreLeft /\ Sums
  BY SumsHold DEF WaitersInv
<1>2. Moves(t, "posted", "relocks") /\ at \in [THREADS -> Places] /\ "relocks" \in Places
  BY <1>1 DEF UnlockGate, Moves, locals, TypeOK, Places
<1>3. TypeOK'
  BY <1>1, <1>2, SMT DEF TypeOK, UnlockGate, Go, locks, locals, counters
<1>4. LocksAreHeld'
  BY <1>1, <1>2, SMT DEF TypeOK, LocksAreHeld, UnlockGate, Go, locks, locals, counters
<1>5. DestroysAlone' /\ OnlyEventsAreLeft'
  BY <1>1, <1>2, SMT DEF TypeOK, DestroysAlone, OnlyEventsAreLeft, LastSignalled,
                         Inside, UnlockGate,
                         Go, locks, locals, counters
<1>6. Sums'
  <2>1. Granted' = Granted
    BY DEF Granted, UnlockGate, locks, locals
  <2>2. inside' = inside /\ leaving' = leaving /\ gating' = gating /\ opening' = opening
    BY <1>1, <1>2, CountsMove, SMT DEF One, UnlockGate, locals
  <2> QED
    BY <1>1, <2>1, <2>2 DEF Sums, One, UnlockGate, locks, counters
<1> QED
  BY <1>3, <1>4, <1>5, <1>6, SumsHold DEF WaitersInv

\* Issuing n wake-ups.
LEMMA IssueGrants ==
  ASSUME CondAssumption, TypeOK, LocksAreHeld, NEW t \in THREADS, at[t] # "posts",
         NEW n \in Nat, nSignalsToIssue' = [nSignalsToIssue EXCEPT ![t] = n],
         semBlockQueue' = semBlockQueue
  PROVE  Granted' = Granted + n /\ Granted \in Nat
<1>1. nSignalsToIssue[t] = 0 /\ nSignalsToIssue \in [THREADS -> Nat] /\ semBlockQueue \in Nat
  BY DEF TypeOK, LocksAreHeld
<1>2. Cardinality(Unposted(nSignalsToIssue)) \in Nat
  BY <1>1, UnpostedFinite DEF CondAssumption
<1>3. Cardinality(Unposted(nSignalsToIssue')) = Cardinality(Unposted(nSignalsToIssue)) + n
  BY <1>1, UnpostedAdds DEF CondAssumption
<1>4. Granted' = semBlockQueue' + Cardinality(Unposted(nSignalsToIssue'))
  BY DEF Granted, Unposted
<1> QED
  BY <1>1, <1>2, <1>3, <1>4, SMT DEF Granted

LEMMA DecideOK ==
  ASSUME CondAssumption, WaitersInv, NEW t \in THREADS, Decide(t)
  PROVE  WaitersInv'
<1>1. TypeOK /\ LocksAreHeld /\ DestroysAlone /\ OnlyEventsAreLeft /\ Sums
  BY SumsHold DEF WaitersInv
<1>2. /\ at[t] = "decides" /\ at \in [THREADS -> Places] /\ mtxUnblockLock = t
      /\ UNCHANGED << mutex, semBlockLock, semBlockQueue, nWaitersGone, nSignalsWasLeft,
                      destroying, destroyed, kept >>
  BY <1>1 DEF Decide, TypeOK, LocksAreHeld
<1>3. ASSUME nWaitersToUnblock # 0, nWaitersBlocked # 0, NEW n \in Signals(nWaitersBlocked),
             Issue(t, n, nWaitersBlocked)
      PROVE  WaitersInv'
  <2>1. n \in Nat /\ 1 <= n /\ n <= nWaitersBlocked
    BY <1>1, <1>3, SMT DEF Signals, TypeOK
  <2>2. /\ Moves(t, "decides", "posts") /\ "posts" \in Places
    BY <1>2, <1>3 DEF Moves, Issue, Places
  <2>3. TypeOK'
    BY <1>1, <1>2, <1>3, <2>1, <2>2, SMT DEF TypeOK, Issue, Go
  <2>4. LocksAreHeld'
    BY <1>1, <1>2, <1>3, SMT DEF TypeOK, LocksAreHeld, CondAssumption, Issue, Go
  <2>5. DestroysAlone' /\ OnlyEventsAreLeft'
    BY <1>1, <1>2, <1>3, SMT DEF TypeOK, DestroysAlone, OnlyEventsAreLeft, LastSignalled,
                                 Inside, Issue, Go
  <2>6. Sums'
    <3>1. Granted' = Granted + n /\ Granted \in Nat
      BY <1>1, <1>2, <1>3, <2>1, IssueGrants DEF Issue
    <3>2. /\ inside' = inside /\ leaving' = leaving /\ gating' = gating /\ opening' = opening
          /\ inside \in Nat /\ leaving \in Nat /\ gating \in Nat /\ opening \in Nat
      BY <1>2, <2>2, CountsMove, SMT DEF One
    <3> QED
      BY <1>1, <1>2, <1>3, <2>1, <3>1, <3>2, SMT DEF TypeOK, Sums, One, Issue
  <2> QED
    BY <2>3, <2>4, <2>5, <2>6, SumsHold DEF WaitersInv
<1>4. CASE /\ nWaitersToUnblock = 0 /\ nWaitersBlocked > nWaitersGone
           /\ Go(t, "closes")
           /\ UNCHANGED << mtxUnblockLock, nSignalsToIssue, nWaitersToUnblock, nWaitersBlocked >>
  <2>1. Moves(t, "decides", "closes") /\ "closes" \in Places
    BY <1>2, <1>4 DEF Moves, Places
  <2>2. TypeOK'
    BY <1>1, <1>2, <1>4, <2>1, SMT DEF TypeOK, Go
  <2>3. LocksAreHeld'
    BY <1>1, <1>2, <1>4, SMT DEF TypeOK, LocksAreHeld, Go
  <2>4. DestroysAlone' /\ OnlyEventsAreLeft'
    BY <1>1, <1>2, <1>4, SMT DEF TypeOK, DestroysAlone, OnlyEventsAreLeft, LastSignalled,
                                 Inside, Go
  <2>5. Sums'
    <3>1. Granted' = Granted
      BY <1>2, <1>4 DEF Granted
    <3>2. inside' = inside /\ leaving' = leaving /\ gating' = gating /\ opening' = opening
      BY <1>2, <2>1, CountsMove, SMT DEF One
    <3> QED
      BY <1>1, <1>2, <1>4, <3>1, <3>2 DEF Sums, One
  <2> QED
    BY <2>2, <2>3, <2>4, <2>5, SumsHold DEF WaitersInv
<1>5. CASE /\ mtxUnblockLock' = None /\ Go(t, Return(t))
           /\ UNCHANGED << nSignalsToIssue, nWaitersToUnblock, nWaitersBlocked >>
  <2>1. /\ Moves(t, "decides", Return(t)) /\ Return(t) \in Places /\ Return(t) \in {"out", "critical"}
        /\ Return(t) = "critical" => mutex = t
    BY <1>2, <1>5 DEF Moves, Places, Return
  <2>2. TypeOK'
    BY <1>1, <1>2, <1>5, <2>1, SMT DEF TypeOK, Go
  <2>3. LocksAreHeld'
    BY <1>1, <1>2, <1>5, <2>1, SMT DEF TypeOK, LocksAreHeld, CondAssumption, Go
  <2>4. DestroysAlone' /\ OnlyEventsAreLeft'
    BY <1>1, <1>2, <1>5, <2>1, SMT DEF TypeOK, DestroysAlone, OnlyEventsAreLeft, LastSignalled,
                                       Inside, Go
  <2>5. Sums'
    <3>1. Granted' = Granted
      BY <1>2, <1>5 DEF Granted
    <3>2. inside' = inside /\ leaving' = leaving /\ gating' = gating /\ opening' = opening
      BY <1>2, <2>1, CountsMove, SMT DEF One
    <3> QED
      BY <1>1, <1>2, <1>5, <3>1, <3>2 DEF Sums, One
  <2> QED
    BY <2>2, <2>3, <2>4, <2>5, SumsHold DEF WaitersInv
<1> QED
  BY <1>3, <1>4, <1>5 DEF Decide

\* The token of the gate goes to the waiters that are to be unblocked.
LEMMA CloseGateOK ==
  ASSUME CondAssumption, WaitersInv, NEW t \in THREADS, CloseGate(t)
  PROVE  WaitersInv'
<1>1. TypeOK /\ LocksAreHeld /\ DestroysAlone /\ OnlyEventsAreLeft /\ Sums
  BY SumsHold DEF WaitersInv
<1>2. /\ at[t] = "closes" /\ at \in [THREADS -> Places] /\ mtxUnblockLock = t
      /\ nWaitersToUnblock = 0 /\ nWaitersBlocked > nWaitersGone
      /\ semBlockLock > 0 /\ semBlockLock' = semBlockLock - 1 /\ nWaitersGone' = 0
      /\ UNCHANGED << mutex, semBlockQueue, nSignalsWasLeft, destroying, destroyed, kept >>
  BY <1>1 DEF CloseGate, TypeOK, LocksAreHeld
<1>3. PICK n \in Signals(StillBlocked) : Issue(t, n, StillBlocked)
  BY DEF CloseGate
<1>4. /\ n \in Nat /\ 1 <= n /\ n <= StillBlocked /\ StillBlocked \in Nat
      /\ StillBlocked = nWaitersBlocked - nWaitersGone
  BY <1>1, <1>2, <1>3, SMT DEF Signals, StillBlocked, TypeOK
<1>5. Moves(t, "closes", "posts") /\ "posts" \in Places
  BY <1>2, <1>3 DEF Moves, Issue, Places
<1>6. TypeOK'
  BY <1>1, <1>2, <1>3, <1>4, <1>5, SMT DEF TypeOK, Issue, Go
<1>7. LocksAreHeld'
  BY <1>1, <1>2, <1>3, SMT DEF TypeOK, LocksAreHeld, CondAssumption, Issue, Go
<1>8. DestroysAlone' /\ OnlyEventsAreLeft'
  BY <1>1, <1>2, <1>3, SMT DEF TypeOK, DestroysAlone, OnlyEventsAreLeft, LastSignalled,
                               Inside, Issue, Go
<1>9. Sums'
  <2>1. Granted' = Granted + n /\ Granted \in Nat
    BY <1>1, <1>2, <1>3, <1>4, IssueGrants DEF Issue
  <2>2. /\ inside' = inside /\ leaving' = leaving /\ gating' = gating /\ opening' = opening
        /\ inside \in Nat /\ leaving \in Nat /\ gating \in Nat /\ opening \in Nat
    BY <1>2, <1>5, CountsMove, SMT DEF One
  <2>3. nWaitersToUnblock' = n /\ nWaitersBlocked' = StillBlocked - n
    BY <1>2, <1>3, <1>4 DEF Issue
  <2>4. nWaitersBlocked' + nWaitersToUnblock' - nWaitersGone' = inside'
    BY <1>1, <1>2, <1>4, <2>2, <2>3 DEF TypeOK, Sums
  <2>5. nWaitersToUnblock' <= Granted' + leaving'
    BY <1>4, <2>1, <2>2, <2>3
  <2>6. One(nWaitersToUnblock > 0) = 0 /\ One(nWaitersToUnblock > 0)' = 1
        /\ One(destroyed)' = One(destroyed) /\ One(destroyed) \in {0, 1}
    BY <1>2, <1>4, <2>3 DEF One
  <2>7. semBlockLock' + gating' + opening' + One(nWaitersToUnblock > 0)' + One(destroyed)' = 1
    BY <1>1, <1>2, <2>2, <2>6 DEF TypeOK, Sums
  <2> QED
    BY <2>4, <2>5, <2>7 DEF Sums
<1> QED
  BY <1>6, <1>7, <1>8, <1>9, SumsHold DEF WaitersInv

\* Posting what was issued.
LEMMA PostGrants ==
  ASSUME CondAssumption, TypeOK, NEW t \in THREADS, Post(t)
  PROVE  Granted' = Granted /\ Granted \in Nat
<1> DEFINE n == nSignalsToIssue[t]
           f == [nSignalsToIssue EXCEPT ![t] = 0]
<1>1. /\ n \in Nat /\ f \in [THREADS -> Nat] /\ f[t] = 0 /\ [f EXCEPT ![t] = n] = nSignalsToIssue
      /\ semBlockQueue \in Nat
  BY DEF TypeOK
<1>2. nSignalsToIssue' = f /\ semBlockQueue' = semBlockQueue + n
  BY DEF Post, WakeUps
<1> HIDE DEF n, f
<1>3. Cardinality(Unposted(nSignalsToIssue)) = Cardinality(Unposted(f)) + n
  BY <1>1, UnpostedAdds DEF CondAssumption
<1>4. Cardinality(Unposted(f)) \in Nat
  BY <1>1, UnpostedFinite DEF CondAssumption
<1>5. Granted' = semBlockQueue' + Cardinality(Unposted(nSignalsToIssue'))
  BY DEF Granted, Unposted
<1> QED
  BY <1>1, <1>2, <1>3, <1>4, <1>5, SMT DEF Granted

LEMMA PostOK ==
  ASSUME CondAssumption, WaitersInv, NEW t \in THREADS, Post(t)
  PROVE  WaitersInv'
<1>1. TypeOK /\ LocksAreHeld /\ DestroysAlone /\ OnlyEventsAreLeft /\ Sums
  BY SumsHold DEF WaitersInv
<1>2. /\ Moves(t, "posts", Return(t)) /\ at \in [THREADS -> Places]
      /\ Return(t) \in Places /\ Return(t) \in {"out", "critical"}
      /\ Return(t) = "critical" => mutex = t
  BY <1>1 DEF Post, Moves, TypeOK, Places, Return
<1>3. TypeOK'
  BY <1>1, <1>2, SMT DEF TypeOK, Post, WakeUps, Go, counters
<1>4. LocksAreHeld'
  BY <1>1, <1>2, SMT DEF TypeOK, LocksAreHeld, Post, Go, counters
<1>5. DestroysAlone' /\ OnlyEventsAreLeft'
  BY <1>1, <1>2, SMT DEF TypeOK, DestroysAlone, OnlyEventsAreLeft, LastSignalled,
                         Inside, Post, Go, counters
<1>6. Granted' = Granted /\ Granted \in Nat
  BY <1>1, PostGrants
<1>7. Sums'
  <2>1. inside' = inside /\ leaving' = leaving /\ gating' = gating /\ opening' = opening
    BY <1>2, CountsMove, SMT DEF One
  <2> QED
    BY <1>1, <1>6, <2>1 DEF Sums, One, Post, counters
<1> QED
  BY <1>3, <1>4, <1>5, <1>7, SumsHold DEF WaitersInv

LEMMA DestroyOK ==
  ASSUME CondAssumption, WaitersInv, NEW t \in THREADS, pthread_cond_destroy(t)
  PROVE  WaitersInv'
<1>1. TypeOK /\ LocksAreHeld /\ DestroysAlone /\ OnlyEventsAreLeft /\ Sums
  BY SumsHold DEF WaitersInv
<1>2. Moves(t, "out", "destroys") /\ at \in [THREADS -> Places] /\ "destroys" \in Places
  BY <1>1 DEF pthread_cond_destroy, Moves, locals, TypeOK, Places
<1>3. TypeOK'
  BY <1>1, <1>2, SMT DEF TypeOK, pthread_cond_destroy, Go, locks, locals, counters
<1>4. LocksAreHeld'
  BY <1>1, <1>2, SMT DEF TypeOK, LocksAreHeld, pthread_cond_destroy, Go, locks, locals, counters
<1>5. DestroysAlone' /\ OnlyEventsAreLeft'
  BY <1>1, <1>2, SMT DEF TypeOK, DestroysAlone, OnlyEventsAreLeft, LastSignalled,
                         Inside, pthread_cond_destroy,
                         Go, locks, locals, counters
<1>6. Sums'
  <2>1. Granted' = Granted
    BY DEF Granted, pthread_cond_destroy, locks, locals
  <2>2. inside' = inside /\ leaving' = leaving /\ gating' = gating /\ opening' = opening
    BY <1>1, <1>2, CountsMove, SMT DEF One
  <2> QED
    BY <1>1, <2>1, <2>2 DEF Sums, One, pthread_cond_destroy, locks, counters
<1> QED
  BY <1>3, <1>4, <1>5, <1>6, SumsHold DEF WaitersInv

\* The condition variable is freed only when no thread needs it any more.
LEMMA CheckBusyOK ==
  ASSUME CondAssumption, WaitersInv, NEW t \in THREADS, CheckBusy(t)
  PROVE  WaitersInv'
<1>1. TypeOK /\ LocksAreHeld /\ DestroysAlone /\ OnlyEventsAreLeft /\ Sums
  BY SumsHold DEF WaitersInv
<1>2. /\ Moves(t, "checks", "out") /\ at \in [THREADS -> Places] /\ "out" \in Places
      /\ destroying /\ ~destroyed
      /\ UNCHANGED << mutex, mtxUnblockLock, semBlockQueue, counters, locals >>
  BY <1>1 DEF CheckBusy, Moves, locals, TypeOK, Places, DestroysAlone
<1>3. /\ inside' = inside /\ leaving' = leaving /\ gating' = gating - 1 /\ opening' = opening
      /\ inside \in Nat /\ leaving \in Nat /\ gating' \in Nat /\ gating \in Nat /\ opening \in Nat
  BY <1>1, <1>2, CountsMove, SMT DEF One
<1>4. Granted' = Granted /\ Granted \in Nat
  BY <1>1, <1>2, GrantedType DEF TypeOK, Granted, locals
<1>5. TypeOK'
  <2>1. at' \in [THREADS -> Places]
    BY <1>2 DEF Moves, Go
  <2>2. ASSUME destroying' = FALSE, semBlockLock' = semBlockLock + 1, UNCHANGED <<destroyed, kept>>
        PROVE  /\ semBlockLock' \in Nat
               /\ destroying' \in BOOLEAN /\ destroyed' \in BOOLEAN /\ kept' \in BOOLEAN
    <3>1. semBlockLock \in Nat /\ destroyed \in BOOLEAN /\ kept \in BOOLEAN
      BY <1>1 DEF TypeOK
    <3>2. semBlockLock' \in Nat
      BY <2>2, <3>1, SMT
    <3> QED
      BY <2>2, <3>1, <3>2
  <2>3. ASSUME destroyed' = TRUE, kept' = GateIsLocked,
               UNCHANGED <<destroying, semBlockLock>>
        PROVE  /\ semBlockLock' \in Nat
               /\ destroying' \in BOOLEAN /\ destroyed' \in BOOLEAN /\ kept' \in BOOLEAN
    BY <1>1, <2>3 DEF TypeOK, GateIsLocked
  <2>4. /\ semBlockLock' \in Nat
        /\ destroying' \in BOOLEAN /\ destroyed' \in BOOLEAN /\ kept' \in BOOLEAN
    BY <2>2, <2>3 DEF CheckBusy
  <2> QED
    BY <1>1, <1>2, <2>1, <2>4 DEF TypeOK, locals, counters
<1>6. LocksAreHeld'
  BY <1>1, <1>2, SMT DEF TypeOK, LocksAreHeld, CheckBusy, Go, locals, counters
<1>7. DestroysAlone'
  <2>1. at[t] \in {"destroys", "checks"}
    BY <1>2 DEF Moves
  <2>2. ASSUME NEW u \in THREADS PROVE at'[u] \notin {"destroys", "checks"} /\ at'[u] \notin Inside
    <3>1. CASE u = t
      BY <1>2, <3>1 DEF Moves, Go, Inside
    <3>2. CASE u # t
      <4>1. at'[u] = at[u]
        BY <1>2, <3>2 DEF Moves, Go
      <4>2. at[u] \in {"destroys", "checks"} => u = t
        BY <1>1, <2>1 DEF DestroysAlone
      <4>3. at[u] \notin Inside
        BY <1>1, <1>2 DEF DestroysAlone
      <4> QED
        BY <3>2, <4>1, <4>2, <4>3
    <3> QED
      BY <3>1, <3>2
  <2>3. destroyed' => destroying'
    BY <1>2 DEF CheckBusy
  <2> QED
    BY <2>2, <2>3 DEF DestroysAlone
<1>8. CASE mtxUnblockLock # None \/ Busy
  <2>1. destroying' = FALSE /\ semBlockLock' = semBlockLock + 1 /\ UNCHANGED destroyed
    BY <1>8 DEF CheckBusy
  <2>2. OnlyEventsAreLeft'
    BY <1>2, <2>1 DEF OnlyEventsAreLeft
  <2>3. Sums'
    BY <1>1, <1>2, <1>3, <1>4, <2>1, SMT DEF TypeOK, Sums, One, counters
  <2> QED
    BY <1>5, <1>6, <1>7, <2>2, <2>3, SumsHold DEF WaitersInv
<1>9. CASE ~(mtxUnblockLock # None \/ Busy)
  <2>1. /\ destroyed' = TRUE /\ semBlockLock' = semBlockLock /\ destroying' = destroying
        /\ kept' = GateIsLocked
    BY <1>9 DEF CheckBusy
  <2>2. /\ gating' = 0 /\ opening = 0 /\ inside = 0 /\ semBlockLock = 0 /\ nWaitersToUnblock = 0
    BY <1>1, <1>2, <1>3, <1>9, SMT DEF TypeOK, Sums, One, Busy
  <2>3. Sums'
    BY <1>1, <1>2, <1>3, <1>4, <2>1, <2>2, SMT DEF TypeOK, Sums, One, counters
  <2>4. Blocked \cup Leaving = {} /\ Opening = {} /\ AtGate' = {}
    <3>1. /\ IsFiniteSet(Blocked \cup Leaving) /\ IsFiniteSet(Opening) /\ IsFiniteSet(AtGate')
      <4>1. /\ Blocked \cup Leaving \in SUBSET THREADS /\ Opening \in SUBSET THREADS
            /\ AtGate' \in SUBSET THREADS
        BY DEF Blocked, Leaving, Opening, AtGate
      <4> QED
        BY <4>1, FS_Subset DEF CondAssumption
    <3> QED
      BY <2>2, <1>3, <3>1, FS_EmptySet DEF inside, opening, gating
  <2>5. ASSUME NEW u \in THREADS
        PROVE  \/ at'[u] \in {"out", "critical", "relocks"}
               \/ at'[u] \in {"unlocked", "left"} /\ nSignalsWasLeft'[u] # 1
               \/ at'[u] = "posted" /\ kept'
    <3>1. CASE u = t
      BY <1>2, <3>1 DEF Moves, Go
    <3>2. CASE u # t
      <4>1. at'[u] = at[u] /\ nSignalsWasLeft'[u] = nSignalsWasLeft[u] /\ at[u] \in Places
        BY <1>2, <3>2 DEF Moves, Go
      <4>2. at[u] \notin {"blocked", "sleeps", "cleans_up", "leaves"}
        BY <2>4 DEF Blocked, Leaving
      <4>3. ~(at[u] \in {"unlocked", "left"} /\ nSignalsWasLeft[u] = 1)
        BY <2>4 DEF Opening, LastSignalled
      <4>4. at[u] \notin {"counts", "forgets", "checks"}
        BY <2>4, <4>1 DEF AtGate
      <4>5. mtxUnblockLock # u
        BY <1>9 DEF CondAssumption
      <4>6. at[u] \notin {"waits_gate", "decides", "closes"}
        BY <1>1, <4>5 DEF LocksAreHeld
      <4>7. at[u] \notin Inside /\ at[u] # "destroys"
        <5>1. at[t] \in {"destroys", "checks"}
          BY <1>2 DEF Moves
        <5>2. at[u] \in {"destroys", "checks"} => u = t
          BY <1>1, <5>1 DEF DestroysAlone
        <5> QED
          BY <1>1, <1>2, <3>2, <5>2 DEF DestroysAlone
      <4>8. at[u] = "posted" => kept'
        BY <2>1 DEF GateIsLocked
      <4> QED
        BY <4>1, <4>2, <4>3, <4>4, <4>6, <4>7, <4>8 DEF Places, Inside
    <3> QED
      BY <3>1, <3>2
  <2>6. OnlyEventsAreLeft'
    BY <2>5 DEF OnlyEventsAreLeft, LastSignalled
  <2> QED
    BY <1>5, <1>6, <1>7, <2>3, <2>6, SumsHold DEF WaitersInv
<1> QED
  BY <1>8, <1>9

-----------------------------------------------------------------------------
(* The invariant. *)

LEMMA InitOK ==
  ASSUME CondAssumption, Init
  PROVE  WaitersInv
<1>1. /\ at = [t \in THREADS |-> "out"] /\ nSignalsToIssue = [t \in THREADS |-> 0]
      /\ nSignalsWasLeft = [t \in THREADS |-> 0]
  BY DEF Init
<1>2. TypeOK /\ LocksAreHeld
  <2>1. /\ at \in [THREADS -> Places] /\ nSignalsToIssue \in [THREADS -> Nat]
        /\ nSignalsWasLeft \in [THREADS -> Nat]
    BY <1>1, SMT DEF Places
  <2>2. /\ semBlockLock \in Nat /\ semBlockQueue \in Nat
        /\ nWaitersBlocked \in Nat /\ nWaitersToUnblock \in Nat /\ nWaitersGone \in Nat
    BY SMT DEF Init
  <2>3. TypeOK
    BY <2>1, <2>2 DEF Init, TypeOK
  <2>4. LocksAreHeld
    BY <1>1 DEF LocksAreHeld
  <2> QED
    BY <2>3, <2>4
<1>3. DestroysAlone /\ OnlyEventsAreLeft
  BY <1>1 DEF Init, DestroysAlone, OnlyEventsAreLeft, LastSignalled, Inside
<1>4. inside = 0 /\ leaving = 0 /\ gating = 0 /\ opening = 0
  <2>1. Blocked \cup Leaving = {} /\ Leaving = {} /\ AtGate = {} /\ Opening = {}
    BY <1>1 DEF Blocked, Leaving, AtGate, Opening
  <2> QED
    BY <2>1, FS_EmptySet DEF inside, leaving, gating, opening
<1>5. Granted \in Nat
  BY <1>2, GrantedType DEF TypeOK
<1>6. Sums
  BY <1>4, <1>5, SMT DEF Init, Sums, One
<1> QED
  BY <1>2, <1>3, <1>6, SumsHold DEF WaitersInv

LEMMA StutterOK ==
  ASSUME WaitersInv, UNCHANGED vars
  PROVE  WaitersInv'
BY DEF WaitersInv, vars, locks, counters, locals, TypeOK, LocksAreHeld, DestroysAlone, Inside,
       CountersAgree, WakeUpsSuffice, GateIsOne, OnlyEventsAreLeft, LastSignalled,
       Blocked, Leaving, Granted,
       Unposted

\* The invariant of the condition variable: the locks are held where the code
\* relies on them, the counters count the waiters, the wake-ups suffice for
\* those that are to be unblocked, and there is one token for the gate.
THEOREM WaitersInvariant ==
  CondAssumption => (Spec => []WaitersInv)
<1> SUFFICES ASSUME CondAssumption PROVE Spec => []WaitersInv
  OBVIOUS
<1>1. Init => WaitersInv
  BY InitOK
<1>2. WaitersInv /\ [Next]_vars => WaitersInv'
  <2> SUFFICES ASSUME WaitersInv, [Next]_vars PROVE WaitersInv'
    OBVIOUS
  <2>1. CASE UNCHANGED vars
    BY <2>1, StutterOK
  <2>2. ASSUME NEW t \in THREADS,
               \/ Lock(t) \/ Unlock(t) \/ pthread_cond_wait(t) \/ WakeUp(t) \/ TimeOut(t)
               \/ Relock(t) \/ pthread_cond_signal(t) \/ pthread_cond_destroy(t)
        PROVE  WaitersInv'
    BY <2>2, LockOK, UnlockOK, WaitOK, WakeUpOK, TimeOutOK, RelockOK, EnterSignalCallOK, DestroyOK
  <2>3. ASSUME NEW t \in THREADS, WaitStep(t) PROVE WaitersInv'
    BY <2>3, EnterGateOK, CountBlockedOK, ReleaseMutexOK, CleanUpOK, LeaveOK, CloseForGoneOK,
       ForgetGoneOK, SetUnblockEventOK, OpenGateOK, UnlockGateOK DEF WaitStep
  <2>4. ASSUME NEW t \in THREADS, SignalStep(t) PROVE WaitersInv'
    BY <2>4, EnterSignalOK, DecideOK, CloseGateOK, PostOK DEF SignalStep
  <2>5. ASSUME NEW t \in THREADS, DestroyStep(t) PROVE WaitersInv'
    BY <2>5, CloseForEverOK, CheckBusyOK DEF DestroyStep
  <2> QED
    BY <2>1, <2>2, <2>3, <2>4, <2>5 DEF Next, Step
<1> QED
  BY <1>1, <1>2, PTL DEF Spec

\* A signal that finds nobody to release finds wake-ups for all that sleep.
LEMMA SleepersAreCovered ==
  ASSUME CondAssumption, WaitersInv
  PROVE  NoSignalIsLost /\ sleeping = inside - leaving /\ Granted \in Nat
         /\ sleeping \in Nat /\ inside \in Nat /\ leaving \in Nat
<1>1. TypeOK /\ Sums
  BY SumsHold DEF WaitersInv
<1>2. IsFiniteSet(Blocked) /\ IsFiniteSet(Leaving)
  <2>1. Blocked \in SUBSET THREADS /\ Leaving \in SUBSET THREADS
    BY DEF Blocked, Leaving
  <2> QED
    BY <2>1, FS_Subset DEF CondAssumption
<1>3. Blocked \cap Leaving = {}
  BY DEF Blocked, Leaving
<1>4. /\ sleeping \in Nat /\ leaving \in Nat
      /\ inside = sleeping + leaving - Cardinality(Blocked \cap Leaving)
  BY <1>2, FS_CardinalityType, FS_Union DEF sleeping, leaving, inside
<1>5. Cardinality(Blocked \cap Leaving) = 0
  BY <1>3, FS_EmptySet
<1>6. inside = sleeping + leaving
  BY <1>4, <1>5, SMT
<1>7. Granted \in Nat
  BY <1>1, GrantedType DEF TypeOK
<1>8. NoSignalIsLost
  <2> SUFFICES ASSUME nWaitersBlocked <= nWaitersGone PROVE sleeping <= Granted
    BY DEF NoSignalIsLost, sleeping
  <2> QED
    BY <1>1, <1>4, <1>6, <1>7, SMT DEF TypeOK, Sums
<1> QED
  BY <1>4, <1>6, <1>7, <1>8, SMT

\* Timeouts, late waiters and destruction never cost a waiter its wake-up, the
\* gate its token or a thread the counters and locks it has still to work on,
\* for every finite number of threads.
THEOREM CondInvariant ==
  CondAssumption => (Spec => []CondInv)
<1> SUFFICES ASSUME CondAssumption PROVE Spec => []CondInv
  OBVIOUS
<1>1. WaitersInv => CondInv
  BY SleepersAreCovered DEF WaitersInv, CondInv
<1> QED
  BY <1>1, WaitersInvariant, PTL
-----------------------------------------------------------------------------
(* The refinement: every step is one of the abstract condition variable.   *)

\* A thread that goes from p to q waits afterwards if q is a place to wait at.
LEMMA BlockedMoves ==
  ASSUME at \in [THREADS -> Places], NEW t \in THREADS, NEW q, Go(t, q)
  PROVE  /\ q \in {"blocked", "sleeps"} => Blocked' = Blocked \cup {t}
         /\ q \notin {"blocked", "sleeps"} => Blocked' = Blocked \ {t}
         /\ t \in Blocked <=> at[t] \in {"blocked", "sleeps"}
BY DEF Blocked, Go

\* The steps that neither the waiters nor the wake-ups notice.
LEMMA MutexStepRefines ==
  ASSUME TypeOK, NEW t \in THREADS, Lock(t) \/ Relock(t) \/ Unlock(t) \/ ReleaseMutex(t)
  PROVE  Abstract!Next
<1>1. Granted' = Granted
  BY DEF Lock, Relock, Unlock, ReleaseMutex, locals, Granted
<1>2. at \in [THREADS -> Places]
  BY DEF TypeOK
<1>3. CASE Lock(t) \/ Relock(t)
  <2>1. Blocked' = Blocked
    BY <1>2, <1>3, BlockedMoves DEF Lock, Relock
  <2>2. Abstract!Acquire(t)
    BY <1>1, <1>3, <2>1 DEF Abstract!Acquire, Lock, Relock, None
  <2> QED
    BY <2>2 DEF Abstract!Next
<1>4. CASE Unlock(t) \/ ReleaseMutex(t)
  <2>1. Blocked' = Blocked
    BY <1>2, <1>4, BlockedMoves DEF Unlock, ReleaseMutex
  <2>2. Abstract!Release
    BY <1>1, <1>4, <2>1 DEF Abstract!Release, Unlock, ReleaseMutex, None
  <2> QED
    BY <2>2 DEF Abstract!Next
<1> QED
  BY <1>3, <1>4

\* A waiter counts itself, and wakes up.
LEMMA WaiterStepRefines ==
  ASSUME CondAssumption, WaitersInv, NEW t \in THREADS, CountBlocked(t) \/ WakeUp(t) \/ TimeOut(t)
  PROVE  Abstract!Next
<1>1. TypeOK /\ LocksAreHeld /\ at \in [THREADS -> Places]
  BY DEF WaitersInv, TypeOK
<1>2. CASE CountBlocked(t)
  <2>1. mutex = t /\ t \notin Blocked /\ Blocked' = Blocked \cup {t}
    BY <1>1, <1>2, BlockedMoves DEF CountBlocked, LocksAreHeld
  <2>2. Granted' = Granted /\ mutex' = mutex
    BY <1>2 DEF CountBlocked, locals, Granted
  <2>3. Abstract!Await(t)
    BY <2>1, <2>2 DEF Abstract!Await
  <2> QED
    BY <2>3 DEF Abstract!Next
<1>3. CASE WakeUp(t)
  <2>1. t \in Blocked /\ Blocked' = Blocked \ {t}
    BY <1>1, <1>3, BlockedMoves DEF WakeUp
  <2>2. Granted' = Granted - 1 /\ Granted > 0 /\ mutex' = mutex
    BY <1>1, <1>3, WakeUpTakes DEF WakeUp
  <2>3. Abstract!Wake(t)
    BY <2>1, <2>2 DEF Abstract!Wake
  <2> QED
    BY <2>3 DEF Abstract!Next
<1>4. CASE TimeOut(t)
  <2>1. t \in Blocked /\ Blocked' = Blocked \ {t}
    BY <1>1, <1>4, BlockedMoves DEF TimeOut
  <2>2. Granted' = Granted /\ mutex' = mutex
    BY <1>4 DEF TimeOut, locks, locals, Granted
  <2>3. Abstract!TimeOut(t)
    BY <2>1, <2>2 DEF Abstract!TimeOut
  <2> QED
    BY <2>3 DEF Abstract!Next
<1> QED
  BY <1>2, <1>3, <1>4

\* What is issued wakes one more waiter, or all that sleep.
LEMMA IssueRefines ==
  ASSUME CondAssumption, WaitersInv, NEW t \in THREADS, NEW b \in Nat, NEW n \in Signals(b),
         at[t] \in {"decides", "closes"}, Issue(t, n, b), 0 < b,
         b = nWaitersBlocked \/ (b = StillBlocked /\ nWaitersToUnblock = 0),
         UNCHANGED <<mutex, semBlockQueue>>
  PROVE  Abstract!Next
<1>1. TypeOK /\ LocksAreHeld /\ Sums /\ at \in [THREADS -> Places]
  BY SumsHold DEF WaitersInv, TypeOK
<1>2. n \in Nat
  BY SMT DEF Signals
<1>3. Granted' = Granted + n /\ Granted \in Nat
  BY <1>1, <1>2, IssueGrants DEF Issue
<1>4. Blocked' = Blocked
  <2>1. Go(t, "posts")
    BY DEF Issue
  <2>2. "posts" \notin {"blocked", "sleeps"} /\ t \notin Blocked
    BY <1>1, <2>1, BlockedMoves
  <2>3. Blocked' = Blocked \ {t}
    BY <1>1, <2>1, <2>2, BlockedMoves
  <2> QED
    BY <2>2, <2>3
<1>5. CASE n = 1
  <2>1. Abstract!Signal
    BY <1>3, <1>4, <1>5 DEF Abstract!Signal
  <2> QED
    BY <2>1 DEF Abstract!Next
<1>6. CASE n = b
  <2>1. /\ sleeping = inside - leaving
        /\ sleeping \in Nat /\ inside \in Nat /\ leaving \in Nat
    BY SleepersAreCovered
  <2>2. sleeping <= Granted + b
    BY <1>1, <1>3, <2>1, SMT DEF TypeOK, Sums, StillBlocked
  <2>3. Granted' >= Granted /\ Granted' >= sleeping
    BY <1>3, <1>6, <2>1, <2>2, SMT
  <2>4. Abstract!Broadcast
    BY <1>4, <2>3 DEF Abstract!Broadcast, Abstract!Cardinality, sleeping, Cardinality
  <2> QED
    BY <2>4 DEF Abstract!Next
<1> QED
  BY <1>5, <1>6 DEF Signals

LEMMA SignalStepRefines ==
  ASSUME CondAssumption, WaitersInv, NEW t \in THREADS, SignalStep(t)
  PROVE  Abstract!Next \/ UNCHANGED Abstract!condVars
<1>1. TypeOK /\ at \in [THREADS -> Places]
  BY DEF WaitersInv, TypeOK
<1>2. CASE LockUnblock(t, "signals", "decides")
  <2>1. Blocked' = Blocked
    BY <1>1, <1>2, BlockedMoves DEF LockUnblock
  <2>2. Granted' = Granted /\ mutex' = mutex
    BY <1>2 DEF LockUnblock, locals, Granted
  <2> QED
    BY <2>1, <2>2 DEF Abstract!condVars
<1>3. CASE Decide(t)
  <2>1. ASSUME nWaitersToUnblock # 0, nWaitersBlocked # 0,
               NEW n \in Signals(nWaitersBlocked), Issue(t, n, nWaitersBlocked)
        PROVE  Abstract!Next
    <3>1. nWaitersBlocked \in Nat /\ 0 < nWaitersBlocked
      BY <1>1, <2>1, SMT DEF TypeOK
    <3> QED
      BY <1>3, <2>1, <3>1, IssueRefines DEF Decide
  <2>2. ASSUME NEW q \in {"closes", "out", "critical"}, Go(t, q), UNCHANGED nSignalsToIssue
        PROVE  UNCHANGED Abstract!condVars
    <3>1. Blocked' = Blocked
      BY <1>1, <1>3, <2>2, BlockedMoves DEF Decide
    <3>2. Granted' = Granted /\ mutex' = mutex
      BY <1>3, <2>2 DEF Decide, Granted
    <3> QED
      BY <3>1, <3>2 DEF Abstract!condVars
  <2> QED
    BY <1>3, <2>1, <2>2 DEF Decide, Return
<1>4. CASE CloseGate(t)
  <2>1. /\ at[t] = "closes" /\ nWaitersToUnblock = 0 /\ nWaitersBlocked > nWaitersGone
    BY <1>4 DEF CloseGate, WaitersInv, LocksAreHeld
  <2>2. StillBlocked \in Nat /\ 0 < StillBlocked
    BY <1>1, <2>1, SMT DEF TypeOK, StillBlocked
  <2> QED
    BY <1>4, <2>1, <2>2, IssueRefines DEF CloseGate
<1>5. CASE Post(t)
  <2>1. Blocked' = Blocked
    <3>1. /\ Go(t, Return(t)) /\ at[t] = "posts"
          /\ Return(t) \notin {"blocked", "sleeps"}
      BY <1>5 DEF Post, Return
    <3>2. t \notin Blocked
      BY <1>1, <3>1, BlockedMoves
    <3>3. Blocked' = Blocked \ {t}
      BY <1>1, <3>1, BlockedMoves
    <3> QED
      BY <3>2, <3>3
  <2>2. Granted' = Granted /\ mutex' = mutex
    BY <1>1, <1>5, PostGrants DEF Post
  <2> QED
    BY <2>1, <2>2 DEF Abstract!condVars
<1> QED
  BY <1>2, <1>3, <1>4, <1>5 DEF SignalStep

\* Everything else happens behind the interface.
LEMMA InnerStepRefines ==
  ASSUME TypeOK, NEW t \in THREADS,
         \/ pthread_cond_wait(t) \/ pthread_cond_signal(t) \/ pthread_cond_destroy(t)
         \/ EnterGate(t) \/ LockUnblock(t, "cleans_up", "leaves") \/ Leave(t)
         \/ CloseForGone(t) \/ ForgetGone(t) \/ SetUnblockEvent(t) \/ OpenGate(t) \/ UnlockGate(t)
         \/ CloseForEver(t) \/ CheckBusy(t)
  PROVE  UNCHANGED Abstract!condVars
<1>1. at \in [THREADS -> Places]
  BY DEF TypeOK
<1>2. /\ at[t] \notin {"blocked", "sleeps"}
      /\ \E q \in Places \ {"blocked", "sleeps"} : Go(t, q)
  BY DEF pthread_cond_wait, pthread_cond_signal, pthread_cond_destroy, EnterGate, LockUnblock,
         Leave, CloseForGone, ForgetGone, UnlockUnblock, SetUnblockEvent, OpenGate, UnlockGate,
         CloseForEver, CheckBusy, Places
<1>3. Blocked' = Blocked
  BY <1>1, <1>2, BlockedMoves
<1>4. UNCHANGED <<semBlockQueue, nSignalsToIssue, mutex>>
  BY DEF pthread_cond_wait, pthread_cond_signal, pthread_cond_destroy, EnterGate, LockUnblock,
         Leave, CloseForGone, ForgetGone, UnlockUnblock, SetUnblockEvent, OpenGate, UnlockGate,
         CloseForEver, CheckBusy, locks, locals
<1> QED
  BY <1>3, <1>4 DEF Abstract!condVars, Granted

\* Waiting, signalling, broadcasting and destroying are steps of a condition
\* variable, for every finite number of threads: whoever signals grants a
\* wake-up or finds that all who wait have one, a broadcast covers all who
\* wait, and only a granted wake-up or a timeout ends a wait.
THEOREM CondVariableRefined ==
  CondAssumption => (Spec => CondSteps)
<1> SUFFICES ASSUME CondAssumption PROVE Spec => CondSteps
  OBVIOUS
<1>1. Init => Abstract!Init
  <2> SUFFICES ASSUME Init PROVE Abstract!Init
    OBVIOUS
  <2>1. Blocked = {} /\ mutex = "none"
    BY DEF Init, Blocked, None
  <2>2. Granted = 0
    <3>1. /\ nSignalsToIssue = [t \in THREADS |-> 0] /\ semBlockQueue = 0
      BY DEF Init
    <3>2. 1 .. 0 = {}
      BY SMT
    <3>3. Unposted(nSignalsToIssue) = {}
      BY <3>1, <3>2 DEF Unposted
    <3>4. Cardinality(Unposted(nSignalsToIssue)) = 0
      BY <3>3, FS_EmptySet
    <3> QED
      BY <3>1, <3>4, SMT DEF Granted
  <2> QED
    BY <2>1, <2>2 DEF Abstract!Init
<1>2. WaitersInv /\ [Next]_vars => [Abstract!Next]_(Abstract!condVars)
  <2> SUFFICES ASSUME WaitersInv, [Next]_vars
               PROVE  Abstract!Next \/ UNCHANGED Abstract!condVars
    OBVIOUS
  <2>1. TypeOK
    BY DEF WaitersInv
  <2>2. CASE UNCHANGED vars
    BY <2>2 DEF vars, locks, locals, Abstract!condVars, Blocked, Granted
  <2>3. CASE Next
    <3>1. PICK t \in THREADS :
            \/ Lock(t) \/ Unlock(t) \/ pthread_cond_wait(t) \/ WakeUp(t) \/ TimeOut(t) \/ Relock(t)
            \/ pthread_cond_signal(t) \/ pthread_cond_destroy(t)
            \/ Step(t)
      BY <2>3 DEF Next
    <3> QED
      BY <2>1, <3>1, MutexStepRefines, WaiterStepRefines, SignalStepRefines, InnerStepRefines
         DEF Step, WaitStep, DestroyStep
  <2> QED
    BY <2>2, <2>3
<1> QED
  BY <1>1, <1>2, WaitersInvariant, PTL DEF Spec, CondSteps, Abstract!SafeSpec
-----------------------------------------------------------------------------
(* The mutex. *)

Holders == {t \in THREADS : mutex_at[t] = "holds"}
Wanting == {t \in THREADS : mutex_at[t] \in {"contends", "waits"}}

LEMMA MutexRefines ==
  ASSUME Mutex!HoldersInv, NEW t \in THREADS, NEW q \in {"out", "contends", "waits", "holds", "unlocked"},
         mutex_at' = [mutex_at EXCEPT ![t] = q],
         \/ mutex_at[t] \in {"out", "contends"} /\ lock_idx = 0 /\ lock_idx' \in {-1, 1} /\ q = "holds"
         \/ mutex_at[t] = "out" /\ lock_idx # 0 /\ lock_idx' \in {-1, 1} /\ q = "contends"
         \/ mutex_at[t] = "contends" /\ lock_idx # 0 /\ lock_idx' \in {-1, 1} /\ q = "waits"
         \/ mutex_at[t] = "waits" /\ lock_idx' = lock_idx /\ q \in {"contends", "out"}
         \/ mutex_at[t] = "holds" /\ lock_idx' = 0 /\ q \in {"unlocked", "out"}
         \/ mutex_at[t] = "unlocked" /\ lock_idx' = lock_idx /\ q = "out"
  PROVE  /\ Mutex!HoldersInv'
         /\ Mutex!Abstract!Next \/ UNCHANGED <<Holders, Wanting>>
<1>1. /\ mutex_at \in [THREADS -> {"out", "contends", "waits", "holds", "unlocked"}]
      /\ mutex_at'[t] = q /\ \A u \in THREADS \ {t} : mutex_at'[u] = mutex_at[u]
  BY DEF Mutex!HoldersInv
<1>2. mutex_at' \in [THREADS -> {"out", "contends", "waits", "holds", "unlocked"}]
  BY <1>1
<1>3. lock_idx = 0 => Holders = {}
  BY DEF Holders, Mutex!HoldersInv
<1>4. lock_idx # 0 => \E u \in THREADS : mutex_at[u] = "holds"
  BY DEF Mutex!HoldersInv
<1>5. lock_idx' \in {-1, 0, 1}
  BY DEF Mutex!HoldersInv
<1>6. /\ \A u \in THREADS : mutex_at'[u] = "holds" => lock_idx' # 0
      /\ \A u, v \in THREADS : mutex_at'[u] = "holds" /\ mutex_at'[v] = "holds" => u = v
  BY <1>1, SMT DEF Mutex!HoldersInv
<1>7. lock_idx' # 0 => \E u \in THREADS : mutex_at'[u] = "holds"
  BY <1>1, <1>4, SMT DEF Mutex!HoldersInv
<1>8. Mutex!HoldersInv'
  BY <1>2, <1>5, <1>6, <1>7 DEF Mutex!HoldersInv
<1>9. CASE mutex_at[t] \in {"out", "contends"} /\ lock_idx = 0 /\ q = "holds"
  <2>1. Holders = {} /\ Holders' = {t} /\ Wanting' = Wanting \ {t}
    BY <1>1, <1>3, <1>9 DEF Holders, Wanting
  <2>2. Mutex!Abstract!Acquire(t)
    BY <2>1 DEF Mutex!Abstract!Acquire, Holders, Wanting
  <2> QED
    BY <1>8, <2>2 DEF Mutex!Abstract!Next
<1>10. CASE mutex_at[t] = "out" /\ lock_idx # 0 /\ q = "contends"
  <2>1. Holders' = Holders /\ Wanting' = Wanting \cup {t} /\ t \notin Holders \cup Wanting
    BY <1>1, <1>10 DEF Holders, Wanting
  <2>2. Mutex!Abstract!Want(t)
    BY <2>1 DEF Mutex!Abstract!Want, Holders, Wanting
  <2> QED
    BY <1>8, <2>2 DEF Mutex!Abstract!Next
<1>11. CASE \/ mutex_at[t] = "contends" /\ q = "waits"
            \/ mutex_at[t] = "waits" /\ q = "contends"
            \/ mutex_at[t] = "unlocked" /\ q = "out"
  <2>1. Holders' = Holders /\ Wanting' = Wanting
    BY <1>1, <1>11 DEF Holders, Wanting
  <2> QED
    BY <1>8, <2>1
<1>12. CASE mutex_at[t] = "waits" /\ q = "out"
  <2>1. Holders' = Holders /\ Wanting' = Wanting \ {t} /\ t \in Wanting
    BY <1>1, <1>12 DEF Holders, Wanting
  <2>2. Mutex!Abstract!GiveUp(t)
    BY <2>1 DEF Mutex!Abstract!GiveUp, Holders, Wanting
  <2> QED
    BY <1>8, <2>2 DEF Mutex!Abstract!Next
<1>13. CASE mutex_at[t] = "holds" /\ q \in {"unlocked", "out"}
  <2>1. Wanting' = Wanting /\ Holders' = Holders \ {t} /\ t \in Holders
    BY <1>1, <1>13 DEF Holders, Wanting
  <2>2. Mutex!Abstract!Release(t)
    BY <2>1 DEF Mutex!Abstract!Release, Holders, Wanting
  <2> QED
    BY <1>8, <2>2 DEF Mutex!Abstract!Next
<1> QED
  BY <1>9, <1>10, <1>11, <1>12, <1>13

LEMMA MutexStepOK ==
  ASSUME Mutex!HoldersInv, [Mutex!Next]_(Mutex!vars)
  PROVE  /\ Mutex!HoldersInv'
         /\ Mutex!Abstract!Next \/ UNCHANGED <<Holders, Wanting>>
<1>1. CASE UNCHANGED <<mutex_at, lock_idx>>
  BY <1>1 DEF Mutex!HoldersInv, Holders, Wanting
<1>2. ASSUME NEW t \in THREADS, NEW abstime \in BOOLEAN, Mutex!Lock(t, abstime)
      PROVE  /\ Mutex!HoldersInv'
             /\ Mutex!Abstract!Next \/ UNCHANGED <<Holders, Wanting>>
  <2>1. lock_idx' \in {-1, 1}
    BY <1>2 DEF Mutex!Lock, Mutex!HoldersInv
  <2> QED
    BY <1>2, <2>1, MutexRefines DEF Mutex!Lock, Mutex!Take, Mutex!Go
<1>3. ASSUME NEW t \in THREADS, Mutex!Contend(t)
      PROVE  /\ Mutex!HoldersInv'
             /\ Mutex!Abstract!Next \/ UNCHANGED <<Holders, Wanting>>
  BY <1>3, MutexRefines DEF Mutex!Contend, Mutex!Mark, Mutex!Take, Mutex!Go
<1>4. ASSUME NEW t \in THREADS,
             \/ Mutex!Wake(t) \/ Mutex!TimeOut(t) \/ Mutex!SetEvent(t)
             \/ Mutex!pthread_mutex_trylock(t) \/ Mutex!Unlock(t)
      PROVE  /\ Mutex!HoldersInv'
             /\ Mutex!Abstract!Next \/ UNCHANGED <<Holders, Wanting>>
  <2>1. CASE Mutex!Wake(t)
    BY <2>1, MutexRefines DEF Mutex!Wake, Mutex!Go
  <2>2. CASE Mutex!TimeOut(t)
    BY <2>2, MutexRefines DEF Mutex!TimeOut, Mutex!Go
  <2>3. CASE Mutex!SetEvent(t)
    BY <2>3, MutexRefines DEF Mutex!SetEvent, Mutex!Go
  <2>4. CASE Mutex!pthread_mutex_trylock(t)
    BY <2>4, MutexRefines DEF Mutex!pthread_mutex_trylock, Mutex!Take, Mutex!Go
  <2>5. CASE Mutex!Unlock(t)
    BY <2>5, MutexRefines DEF Mutex!Unlock, Mutex!Go
  <2> QED
    BY <1>4, <2>1, <2>2, <2>3, <2>4, <2>5
<1>5. ASSUME NEW t \in THREADS, Mutex!LockAgain(t) \/ Mutex!UnlockInner(t)
      PROVE  UNCHANGED <<mutex_at, lock_idx>>
  BY <1>5 DEF Mutex!LockAgain, Mutex!UnlockInner
<1>6. UNCHANGED Mutex!vars => UNCHANGED <<mutex_at, lock_idx>>
  BY DEF Mutex!vars
<1> QED
  BY <1>1, <1>2, <1>3, <1>4, <1>5, <1>6 DEF Mutex!Next, Mutex!Step

\* The interlocked word, the mark of the waiters and the event are steps of a
\* mutex: nobody takes it while someone holds it, for normal, error checking
\* and recursive mutexes and any number of threads.
THEOREM MutexRefined ==
  Mutex!Spec => []Mutex!HoldersInv /\ Mutex!MutexSteps
<1>1. Mutex!Init => Mutex!HoldersInv /\ Mutex!Abstract!Init
  BY DEF Mutex!Init, Mutex!HoldersInv, Mutex!Abstract!Init
<1>2. Mutex!HoldersInv /\ [Mutex!Next]_(Mutex!vars) => Mutex!HoldersInv'
  BY MutexStepOK
<1>3. Mutex!HoldersInv /\ [Mutex!Next]_(Mutex!vars)
        => [Mutex!Abstract!Next]_(Mutex!Abstract!lockVars)
  BY MutexStepOK DEF Mutex!Abstract!lockVars, Holders, Wanting
<1> QED
  BY <1>1, <1>2, <1>3, PTL DEF Mutex!Spec, Mutex!MutexSteps, Mutex!Abstract!SafeSpec
-----------------------------------------------------------------------------
(* The semaphore.                                                          *)

Negative(v) == IF v < 0 THEN -v ELSE 0
Positive(v) == IF v > 0 THEN v ELSE 0

waiters == Cardinality(Semaphore!Waiting)

\* How the number of waiters changes when a thread goes to q.
LEMMA WaitersMove ==
  ASSUME IsFiniteSet(THREADS), place \in [THREADS -> {"out", "waits", "gives_up"}],
         NEW t \in THREADS, NEW q, place' = [place EXCEPT ![t] = q]
  PROVE  /\ waiters \in Nat /\ waiters' \in Nat
         /\ waiters' + One(place[t] # "out") = waiters + One(q # "out")
<1> DEFINE A == Semaphore!Waiting
           B == Semaphore!Waiting'
<1>1. A \in SUBSET THREADS /\ B \in SUBSET THREADS /\ \A u \in THREADS \ {t} : u \in A <=> u \in B
  BY DEF Semaphore!Waiting
<1>2. /\ t \in A <=> place[t] # "out"
      /\ t \in B <=> q # "out"
  BY DEF Semaphore!Waiting
<1>3. waiters = Cardinality(A) /\ waiters' = Cardinality(B)
  BY DEF waiters
<1> HIDE DEF A, B
<1>4. /\ Cardinality(A) \in Nat /\ Cardinality(B) \in Nat
      /\ Cardinality(B) + One(t \in A) = Cardinality(A) + One(t \in B)
  BY <1>1, OneMoves
<1> QED
  BY <1>2, <1>3, <1>4 DEF One

\* The numbers that the invariant relates.
Counted ==
  /\ place \in [THREADS -> {"out", "waits", "gives_up"}]
  /\ value \in Int /\ w32 \in Nat
  /\ waiters = w32 + Negative(value)

LEMMA CountedIsInv ==
  Semaphore!WaitersCounted <=> Counted
BY DEF Semaphore!WaitersCounted, Counted, Negative, waiters, Semaphore!Cardinality, Cardinality

LEMMA WaitRefines ==
  ASSUME IsFiniteSet(THREADS), Counted, NEW t \in THREADS, Semaphore!sem_wait(t)
  PROVE  Counted' /\ Semaphore!Abstract!Next
<1> DEFINE q == IF value' < 0 THEN "waits" ELSE "out"
<1>1. /\ place[t] = "out" /\ value' = value - 1 /\ w32' = w32 /\ value \in Int /\ w32 \in Nat
      /\ place' = [place EXCEPT ![t] = q] /\ place \in [THREADS -> {"out", "waits", "gives_up"}]
      /\ waiters = w32 + Negative(value)
  BY DEF Semaphore!sem_wait, Semaphore!Go, Counted
<1>2. waiters \in Nat /\ waiters' \in Nat /\ waiters' = waiters + One(value' < 0)
  <2>1. /\ waiters \in Nat /\ waiters' \in Nat
        /\ waiters' + One(place[t] # "out") = waiters + One(q # "out")
    BY <1>1, WaitersMove
  <2> QED
    BY <1>1, <2>1, SMT DEF One
<1>3. Counted'
  <2>1. place' \in [THREADS -> {"out", "waits", "gives_up"}]
    BY <1>1
  <2>2. value' \in Int /\ w32' \in Nat /\ waiters' = w32' + Negative(value')
    BY <1>1, <1>2, SMT DEF One, Negative
  <2> QED
    BY <2>1, <2>2 DEF Counted
<1>4. CASE value > 0
  <2>1. q = "out" /\ Semaphore!Waiting' = Semaphore!Waiting \ {t}
    BY <1>1, <1>4, SMT DEF Semaphore!Waiting
  <2>2. Semaphore!Tokens > 0 /\ Semaphore!Tokens' = Semaphore!Tokens - 1
    BY <1>1, <1>4, SMT DEF Semaphore!Tokens
  <2>3. Semaphore!Abstract!Pass(t)
    BY <2>1, <2>2 DEF Semaphore!Abstract!Pass
  <2> QED
    BY <1>3, <2>3 DEF Semaphore!Abstract!Next
<1>5. CASE ~(value > 0)
  <2>1. q = "waits"
    BY <1>1, <1>5, SMT
  <2>2. t \notin Semaphore!Waiting /\ Semaphore!Waiting' = Semaphore!Waiting \cup {t}
    BY <1>1, <2>1 DEF Semaphore!Waiting
  <2>3. Semaphore!Tokens' = Semaphore!Tokens
    BY <1>1, <1>5, SMT DEF Semaphore!Tokens
  <2>4. Semaphore!Abstract!Await(t)
    BY <2>2, <2>3 DEF Semaphore!Abstract!Await
  <2> QED
    BY <1>3, <2>4 DEF Semaphore!Abstract!Next
<1> QED
  BY <1>4, <1>5

LEMMA TryRefines ==
  ASSUME Counted, NEW t \in THREADS, Semaphore!sem_trywait(t)
  PROVE  Counted' /\ Semaphore!Abstract!Next
<1>1. /\ place[t] = "out" /\ value > 0 /\ value' = value - 1 /\ w32' = w32 /\ place' = place
      /\ value \in Int /\ w32 \in Nat
  BY DEF Semaphore!sem_trywait, Counted
<1>2. Semaphore!Waiting' = Semaphore!Waiting /\ waiters' = waiters /\ t \notin Semaphore!Waiting
  BY <1>1 DEF Semaphore!Waiting, waiters
<1>3. value' \in Int /\ Negative(value') = Negative(value)
  BY <1>1, SMT DEF Negative
<1>4. Counted'
  BY <1>1, <1>2, <1>3 DEF Counted
<1>5. Semaphore!Tokens > 0 /\ Semaphore!Tokens' = Semaphore!Tokens - 1
  BY <1>1, SMT DEF Semaphore!Tokens
<1>6. Semaphore!Abstract!Pass(t)
  BY <1>2, <1>5 DEF Semaphore!Abstract!Pass
<1> QED
  BY <1>4, <1>6 DEF Semaphore!Abstract!Next

\* A post that waits in the semaphore of the system is taken, in time or late.
LEMMA TakeRefines ==
  ASSUME IsFiniteSet(THREADS), Counted, NEW t \in THREADS, place[t] # "out", w32 > 0,
         w32' = w32 - 1, value' = value, Semaphore!Go(t, "out")
  PROVE  Counted' /\ Semaphore!Abstract!Next
<1>1. /\ value \in Int /\ w32 \in Nat /\ place \in [THREADS -> {"out", "waits", "gives_up"}]
      /\ place' = [place EXCEPT ![t] = "out"] /\ waiters = w32 + Negative(value)
  BY DEF Semaphore!Go, Counted
<1>2. waiters \in Nat /\ waiters' \in Nat /\ waiters' = waiters - 1
  <2>1. /\ waiters \in Nat /\ waiters' \in Nat
        /\ waiters' + One(place[t] # "out") = waiters + One("out" # "out")
    BY <1>1, WaitersMove
  <2>2. One(place[t] # "out") = 1 /\ One("out" # "out") = 0
    BY DEF One
  <2> QED
    BY <2>1, <2>2, SMT
<1>3. Counted'
  <2>1. place' \in [THREADS -> {"out", "waits", "gives_up"}]
    BY <1>1
  <2>2. w32' \in Nat /\ waiters' = w32' + Negative(value')
    BY <1>1, <1>2, SMT DEF Negative
  <2> QED
    BY <1>1, <2>1, <2>2 DEF Counted
<1>4. Semaphore!Waiting' = Semaphore!Waiting \ {t}
  BY <1>1 DEF Semaphore!Waiting
<1>5. Semaphore!Tokens > 0 /\ Semaphore!Tokens' = Semaphore!Tokens - 1
  BY <1>1, SMT DEF Semaphore!Tokens
<1>6. Semaphore!Abstract!Pass(t)
  BY <1>4, <1>5 DEF Semaphore!Abstract!Pass
<1> QED
  BY <1>3, <1>6 DEF Semaphore!Abstract!Next

\* Who gives up and finds no late post is still counted, and counts itself out.
LEMMA GiveUpRefines ==
  ASSUME IsFiniteSet(THREADS), Counted, NEW t \in THREADS, place[t] = "gives_up", ~(w32 > 0),
         value' = value + 1, w32' = w32, Semaphore!Go(t, "out")
  PROVE  Counted' /\ Semaphore!Abstract!Next
<1>1. /\ value \in Int /\ w32 \in Nat /\ place \in [THREADS -> {"out", "waits", "gives_up"}]
      /\ place' = [place EXCEPT ![t] = "out"] /\ waiters = w32 + Negative(value)
  BY DEF Semaphore!Go, Counted
<1>2. waiters \in Nat /\ waiters' \in Nat /\ waiters' = waiters - 1
  <2>1. /\ waiters \in Nat /\ waiters' \in Nat
        /\ waiters' + One(place[t] # "out") = waiters + One("out" # "out")
    BY <1>1, WaitersMove
  <2>2. One(place[t] # "out") = 1 /\ One("out" # "out") = 0
    BY DEF One
  <2> QED
    BY <2>1, <2>2, SMT
<1>3. value < 0
  BY <1>1, <1>2, SMT DEF Negative
<1>4. Counted'
  <2>1. place' \in [THREADS -> {"out", "waits", "gives_up"}]
    BY <1>1
  <2>2. value' \in Int /\ waiters' = w32' + Negative(value')
    BY <1>1, <1>2, <1>3, SMT DEF Negative
  <2> QED
    BY <1>1, <2>1, <2>2 DEF Counted
<1>5. Semaphore!Waiting' = Semaphore!Waiting \ {t} /\ t \in Semaphore!Waiting
  BY <1>1 DEF Semaphore!Waiting
<1>6. Semaphore!Tokens' = Semaphore!Tokens
  BY <1>1, <1>3, SMT DEF Semaphore!Tokens
<1>7. Semaphore!Abstract!GiveUp(t)
  BY <1>5, <1>6 DEF Semaphore!Abstract!GiveUp
<1> QED
  BY <1>4, <1>7 DEF Semaphore!Abstract!Next

LEMMA PostRefines ==
  ASSUME Counted, NEW count \in 1 .. VALUE_MAX, VALUE_MAX \in Nat,
         Semaphore!sem_post_multiple(count)
  PROVE  Counted' /\ Semaphore!Abstract!Next
<1>1. /\ value \in Int /\ w32 \in Nat /\ count \in Nat /\ count >= 1
      /\ value' = value + count /\ place' = place
      /\ w32' = IF value < 0 THEN w32 + Semaphore!min(-value, count) ELSE w32
      /\ waiters = w32 + Negative(value)
  BY DEF Semaphore!sem_post_multiple, Counted
<1>2. waiters' = waiters /\ Semaphore!Waiting' = Semaphore!Waiting
  BY <1>1 DEF waiters, Semaphore!Waiting
<1>3. /\ value' \in Int /\ w32' \in Nat
      /\ w32' + Negative(value') = w32 + Negative(value)
  BY <1>1, SMT DEF Negative, Semaphore!min
<1>4. Counted'
  BY <1>1, <1>2, <1>3 DEF Counted
<1>5. Semaphore!Tokens' > Semaphore!Tokens
  BY <1>1, SMT DEF Semaphore!Tokens, Semaphore!min
<1>6. Semaphore!Abstract!Post
  BY <1>2, <1>5 DEF Semaphore!Abstract!Post
<1> QED
  BY <1>4, <1>6 DEF Semaphore!Abstract!Next

LEMMA SemaphoreStepOK ==
  ASSUME IsFiniteSet(THREADS), VALUE_MAX \in Nat, Counted, [Semaphore!Next]_(Semaphore!vars)
  PROVE  Counted' /\ (Semaphore!Abstract!Next \/ UNCHANGED Semaphore!Abstract!semVars)
<1>1. CASE UNCHANGED Semaphore!vars
  BY <1>1 DEF Semaphore!vars, Counted, waiters, Semaphore!Waiting, Semaphore!Tokens,
              Semaphore!Abstract!semVars
<1>2. ASSUME NEW t \in THREADS, Semaphore!TimeOut(t)
      PROVE  Counted' /\ UNCHANGED Semaphore!Abstract!semVars
  <2>1. Semaphore!Waiting' = Semaphore!Waiting /\ waiters' = waiters
    BY <1>2 DEF Semaphore!TimeOut, Semaphore!Go, Semaphore!Waiting, waiters, Counted
  <2>2. place' \in [THREADS -> {"out", "waits", "gives_up"}] /\ UNCHANGED <<value, w32>>
    BY <1>2 DEF Semaphore!TimeOut, Semaphore!Go, Counted
  <2> QED
    BY <2>1, <2>2 DEF Counted, Semaphore!Abstract!semVars, Semaphore!Tokens
<1>3. ASSUME NEW t \in THREADS, Semaphore!Wake(t) \/ Semaphore!Cleanup(t)
      PROVE  Counted' /\ Semaphore!Abstract!Next
  BY <1>3, TakeRefines, GiveUpRefines
     DEF Semaphore!Wake, Semaphore!Cleanup, Semaphore!PostedMeanwhile
<1> QED
  BY <1>1, <1>2, <1>3, WaitRefines, TryRefines, PostRefines DEF Semaphore!Next

\* The count and the semaphore of the system are steps of a counting semaphore:
\* every thread that passes takes a post of its own, and no post is lost to a
\* waiter that gives up just then, for every finite number of threads.
THEOREM SemaphoreRefined ==
  IsFiniteSet(THREADS) /\ VALUE_MAX \in Nat
    => (Semaphore!Spec => []Semaphore!WaitersCounted /\ Semaphore!SemaphoreSteps)
<1> SUFFICES ASSUME IsFiniteSet(THREADS), VALUE_MAX \in Nat
             PROVE  Semaphore!Spec => []Semaphore!WaitersCounted /\ Semaphore!SemaphoreSteps
  OBVIOUS
<1>1. Semaphore!Init => Counted /\ Semaphore!Abstract!Init
  <2> SUFFICES ASSUME Semaphore!Init PROVE Counted /\ Semaphore!Abstract!Init
    OBVIOUS
  <2>1. /\ value = 0 /\ w32 = 0 /\ place = [t \in THREADS |-> "out"]
        /\ Semaphore!Waiting = {}
    BY DEF Semaphore!Init, Semaphore!Waiting
  <2>2. waiters = 0
    BY <2>1, FS_EmptySet DEF waiters
  <2>3. value \in Int /\ w32 \in Nat /\ waiters = w32 + Negative(value) /\ Semaphore!Tokens = 0
    BY <2>1, <2>2, SMT DEF Negative, Semaphore!Tokens
  <2>4. place \in [THREADS -> {"out", "waits", "gives_up"}]
    BY <2>1
  <2> QED
    BY <2>1, <2>3, <2>4 DEF Counted, Semaphore!Abstract!Init
<1>2. Counted /\ [Semaphore!Next]_(Semaphore!vars) => Counted'
  BY SemaphoreStepOK
<1>3. Counted /\ [Semaphore!Next]_(Semaphore!vars)
        => [Semaphore!Abstract!Next]_(Semaphore!Abstract!semVars)
  BY SemaphoreStepOK
<1>4. Counted => Semaphore!WaitersCounted
  BY CountedIsInv
<1> QED
  BY <1>1, <1>2, <1>3, <1>4, PTL
     DEF Semaphore!Spec, Semaphore!SemaphoreSteps, Semaphore!Abstract!SafeSpec
=============================================================================
