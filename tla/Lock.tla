-------------------------------- MODULE Lock --------------------------------
(***************************************************************************)
(* What a mutex promises: at most one thread holds it, and a mutex that is *)
(* free and wanted is taken by someone.                                    *)
(***************************************************************************)
CONSTANT THREADS

VARIABLES holders,  \* the threads that hold the mutex
          wanting   \* the threads that wait for it

lockVars == <<holders, wanting>>

Init == holders = {} /\ wanting = {}

Want(t) ==
  /\ t \notin holders \cup wanting
  /\ wanting' = wanting \cup {t}
  /\ UNCHANGED holders

Acquire(t) ==
  /\ holders = {}
  /\ holders' = {t} /\ wanting' = wanting \ {t}

\* The time of a timed lock is over.
GiveUp(t) ==
  /\ t \in wanting
  /\ wanting' = wanting \ {t}
  /\ UNCHANGED holders

Release(t) ==
  /\ t \in holders
  /\ holders' = holders \ {t}
  /\ UNCHANGED wanting

Next == \E t \in THREADS : Want(t) \/ Acquire(t) \/ GiveUp(t) \/ Release(t)

SafeSpec == Init /\ [][Next]_lockVars

Spec ==
  /\ SafeSpec
  /\ WF_lockVars(wanting # {} /\ \E t \in THREADS : Acquire(t))
=============================================================================
