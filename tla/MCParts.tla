------------------------------ MODULE MCParts ------------------------------
(***************************************************************************)
(* Instances for TLC of the components that share no state with each other *)
(* in their modules.  A behaviour of this module is one of a single        *)
(* component, which the first state chooses; the others stay as they are.  *)
(*                                                                         *)
(* BlockFiles, RateControl, Pacing and PthreadCond are extended, with their*)
(* constants in the configuration; the others are instantiated.            *)
(***************************************************************************)
EXTENDS BlockFiles, RateControl, Pacing, PthreadCond

CONSTANTS PARTS, CLIENTS

VARIABLES
  part,
  \* PthreadMutex
  kind, lock_idx, event, ownerThread, recursive_count, mutexAt, timed,
  \* PthreadSemaphore
  value, w32, place,
  \* Listener
  server, backlog, client_fd, step, holders, child, session_id, signal, reaping

Mutex == INSTANCE PthreadMutex WITH
           KINDS <- {"normal", "errorcheck", "recursive"}, DEPTH <- 2, at <- mutexAt

Semaphore == INSTANCE PthreadSemaphore WITH VALUE_MAX <- 3

Main == INSTANCE Listener WITH SERVERS <- {"forks", "single"}

ASSUME FilesAssumption
ASSUME RateAssumption
ASSUME PacingAssumption
ASSUME CondAssumption

PartsInit ==
  /\ part \in PARTS
  /\ FilesInit /\ RateInit /\ PaceInit /\ Init
  /\ Mutex!Init /\ Semaphore!Init /\ Main!Init
  /\ part # "files" => sender = CHOOSE s \in SENDERS : TRUE
  /\ part # "rate" => program = "server" /\ ipd_time = 1
  /\ part # "pace" => delay = CHOOSE ipd \in IPDS : TRUE
  /\ part # "mutex" => kind = "normal"
  /\ part # "main" => server = "forks"

condVars  == vars
mutexVars == <<kind, lock_idx, event, ownerThread, recursive_count, mutexAt, timed>>
semVars   == <<value, w32, place>>
mainVars  == <<server, backlog, client_fd, step, holders, child, session_id, signal, reaping>>

partsVars == <<part, filesVars, rateVars, paceVars, condVars, mutexVars, semVars, mainVars>>

OnlyFiles == part = "files" /\ UNCHANGED <<part, rateVars, paceVars, condVars, mutexVars, semVars, mainVars>>
OnlyRate  == part = "rate" /\ UNCHANGED <<part, filesVars, paceVars, condVars, mutexVars, semVars, mainVars>>
OnlyPace  == part = "pace" /\ UNCHANGED <<part, filesVars, rateVars, condVars, mutexVars, semVars, mainVars>>
OnlyCond  == part = "cond" /\ UNCHANGED <<part, filesVars, rateVars, paceVars, mutexVars, semVars, mainVars>>
OnlyMutex == part = "mutex" /\ UNCHANGED <<part, filesVars, rateVars, paceVars, condVars, semVars, mainVars>>
OnlySem   == part = "semaphore" /\ UNCHANGED <<part, filesVars, rateVars, paceVars, condVars, mutexVars, mainVars>>
OnlyMain  == part = "main" /\ UNCHANGED <<part, filesVars, rateVars, paceVars, condVars, mutexVars, semVars>>

PartsNext ==
  \/ OnlyFiles /\ FilesNext
  \/ OnlyRate /\ RateNext
  \/ OnlyPace /\ PaceNext
  \/ OnlyCond /\ Next
  \/ OnlyMutex /\ Mutex!Next
  \/ OnlySem /\ Semaphore!Next
  \/ OnlyMain /\ Main!Next

\* The fairness that the components' modules state, each for its own
\* behaviours: weak but for the wake-ups of the condition variable.
Goes ==
  \/ OnlyRate /\ ttp_update_stats
  \/ OnlyMutex /\ \E t \in THREADS : Mutex!Wake(t)
  \/ OnlySem /\ \E t \in THREADS : Semaphore!Wake(t)
  \/ OnlyMain /\ Main!MainLoop

Answers ==
  \/ OnlyRate /\ ttp_accept_retransmit
  \/ OnlyMain /\ Main!reap

Runs(t) ==
  \/ OnlyMutex /\ Mutex!Step(t)
  \/ OnlySem /\ Semaphore!Cleanup(t)
  \/ OnlyCond /\ Step(t)

PartsFairness ==
  /\ WF_partsVars(Goes) /\ WF_partsVars(Answers) /\ \A t \in THREADS : WF_partsVars(Runs(t))
  /\ SF_partsVars(OnlyCond /\ \E t \in THREADS : WakeUp(t))

PartsSpec == PartsInit /\ [][PartsNext]_partsVars /\ PartsFairness

-----------------------------------------------------------------------------
(* The properties, as the component's modules state them; those of the     *)
(* extended modules need no name of their own.                             *)

RateConverges     == part = "rate" => RateAdapts
MutexSpec         == Mutex!MutexSpec
SemaphoreSpec     == Semaphore!SemaphoreSpec
SessionIsReleased == Main!SessionIsReleased
=============================================================================
