---------------------------- MODULE CondVariable ----------------------------
(***************************************************************************)
(* What a condition variable promises its waiters: a signal wakes one of   *)
(* those that wait when it is made, a broadcast all of them, and whoever   *)
(* wakes holds the mutex again before it returns.  Wake-ups that nobody    *)
(* waits for any more, because of a timeout, may wake a later waiter.      *)
(***************************************************************************)
EXTENDS Naturals, FiniteSets

CONSTANT THREADS

VARIABLES mutex,    \* the thread that holds it, or "none"
          waiting,  \* the threads that wait for the condition
          granted   \* wake-ups granted and not used

condVars == <<mutex, waiting, granted>>

Init == mutex = "none" /\ waiting = {} /\ granted = 0

Acquire(t) == mutex = "none" /\ mutex' = t /\ UNCHANGED <<waiting, granted>>
Release    == mutex' = "none" /\ UNCHANGED <<waiting, granted>>

\* A waiter counts before it gives up the mutex.
Await(t) ==
  /\ mutex = t /\ t \notin waiting
  /\ waiting' = waiting \cup {t}
  /\ UNCHANGED <<mutex, granted>>

Wake(t) ==
  /\ t \in waiting /\ granted > 0
  /\ waiting' = waiting \ {t} /\ granted' = granted - 1
  /\ UNCHANGED mutex

TimeOut(t) ==
  /\ t \in waiting
  /\ waiting' = waiting \ {t}
  /\ UNCHANGED <<mutex, granted>>

\* What is granted after a signal or a broadcast covers one more waiter, or
\* all of them.
Signal ==
  /\ \/ granted' = granted + 1
     \/ granted' = granted /\ Cardinality(waiting) <= granted
  /\ UNCHANGED <<mutex, waiting>>

Broadcast ==
  /\ granted' >= granted /\ granted' >= Cardinality(waiting)
  /\ UNCHANGED <<mutex, waiting>>

Next ==
  \/ \E t \in THREADS : Acquire(t) \/ Await(t) \/ Wake(t) \/ TimeOut(t)
  \/ Release \/ Signal \/ Broadcast

SafeSpec == Init /\ [][Next]_condVars

Spec ==
  /\ SafeSpec
  /\ WF_condVars(\E t \in THREADS : Wake(t))
=============================================================================
