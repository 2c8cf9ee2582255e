------------------------- MODULE CountingSemaphore -------------------------
(***************************************************************************)
(* What a counting semaphore promises: as many threads pass as there were  *)
(* posts, and a post that someone waits for is taken.                      *)
(***************************************************************************)
EXTENDS Naturals

CONSTANT THREADS

VARIABLES tokens,  \* posts that nobody has taken
          waiting  \* the threads that wait for one

semVars == <<tokens, waiting>>

Init == tokens = 0 /\ waiting = {}

Post ==
  /\ tokens' > tokens
  /\ UNCHANGED waiting

Await(t) ==
  /\ t \notin waiting
  /\ waiting' = waiting \cup {t}
  /\ UNCHANGED tokens

Pass(t) ==
  /\ tokens > 0
  /\ tokens' = tokens - 1 /\ waiting' = waiting \ {t}

GiveUp(t) ==
  /\ t \in waiting
  /\ waiting' = waiting \ {t}
  /\ UNCHANGED tokens

Next == Post \/ \E t \in THREADS : Await(t) \/ Pass(t) \/ GiveUp(t)

SafeSpec == Init /\ [][Next]_semVars

Spec ==
  /\ SafeSpec
  /\ WF_semVars(waiting # {} /\ \E t \in THREADS : Pass(t))
=============================================================================
