------------------------------- MODULE Pacing -------------------------------
(***************************************************************************)
(* How the file server and the real-time server keep the delay between two *)
(* blocks (client_handler in server/main.c and rtserver/main.c).  A pass   *)
(* sends a block and then sleeps; what the passes took too long is made up *)
(* for, a stall is not, and some passes end without their sleep.           *)
(*                                                                         *)
(* The delay is a double, the times are whole microseconds, and so is the  *)
(* correction of the sleep: its fraction is dropped, in every pass anew.   *)
(* The delay is counted here in parts of a microsecond.                    *)
(*                                                                         *)
(* The rate control (module RateControl) changes the delay at any time.    *)
(***************************************************************************)
EXTENDS Integers

CONSTANTS
  SCALE,      \* parts of a microsecond
  IPDS,       \* the values of xfer->ipd_current, in parts
  LONGEST,    \* none is longer, in microseconds
  WORK,       \* times that sending, and waking up late, may take
  SKIPS,      \* model bound: passes without sleep, one after the other
  LAG         \* model bound: how far the server may get from either rate

PacingAssumption ==
  /\ SCALE \in Nat \ {0}
  /\ IPDS \subseteq Nat /\ LONGEST \in Nat /\ \A i \in IPDS : i <= SCALE * LONGEST
  /\ WORK \subseteq Nat /\ SKIPS \in Nat /\ LAG \in Nat

VARIABLES
  delay,         \* xfer->ipd_current, the delay asked for, in parts
  sleep,         \* ipd_time, the sleep due after this pass, if positive
  sleep_max,     \* ipd_time_max
  slept,         \* how long the last pass has slept
  rested,        \* whether the last pass ended with its sleep
  skipped,       \* passes without sleep, one after the other, before this one
  ahead,         \* history: the delays asked for, each without its fraction,
                 \* minus the time gone by
  spare,         \* history: the same with each delay rounded up
  stalled        \* history: a pass took longer than its delay, or the end of
                 \* the file was reached

paceVars == <<delay, sleep, sleep_max, slept, rested, skipped, ahead, spare, stalled>>

Down(parts) == parts \div SCALE
Up(parts)   == (parts + (SCALE - 1)) \div SCALE

\* The conversion of a double to an integer.
Truncated(parts) == IF parts >= 0 THEN Down(parts) ELSE -Down(-parts)

\* The delay less tv_diff_usec from the start of the last pass to that of this
\* one, as an int64_t.
ipd_usleep_diff(work) == Truncated(delay - SCALE * (slept + work))

\* Mutant: only a pass that was too short changes the sleep.
OnlyLonger(diff) == IF diff > 0 THEN sleep + diff ELSE sleep

\* A late pass is made up for as long as there is a sleep to shorten.
Corrected(diff) == IF diff > 0 \/ sleep > 0 THEN sleep + diff ELSE sleep

Sleep(usec) == IF usec > 0 THEN usec ELSE 0

\* The times at the head of a pass.
StartPass(work) ==
  /\ sleep' = Corrected(ipd_usleep_diff(work))
  /\ sleep_max' = IF sleep' > sleep_max THEN sleep' ELSE sleep_max
  /\ skipped' = IF rested THEN 0 ELSE skipped + 1
  /\ ahead' = ahead + (Down(delay) - (slept + work)) /\ ahead' >= -LAG
  /\ spare' = spare + (Up(delay) - (slept + work)) /\ spare' <= LAG
  /\ UNCHANGED delay

TooLong(work) == SCALE * work > delay

\* A block of the file, or one the client asked for.
PassWithSleep ==
  \E work \in WORK :
    /\ StartPass(work)
    /\ slept' = Sleep(sleep') /\ rested' = TRUE
    /\ stalled' = (stalled \/ TooLong(work))

\* The last block, which is sent until the client asks for something else.
PassAtEnd ==
  \E work \in WORK :
    /\ StartPass(work)
    /\ slept' = 10 * sleep_max' + Sleep(sleep') /\ rested' = TRUE
    /\ stalled' = TRUE

\* sendto has failed, or it is too early for the next heartbeat report.
PassWithoutSleep ==
  \E work \in WORK :
    /\ StartPass(work) /\ skipped' < SKIPS
    /\ slept' = 0 /\ rested' = FALSE
    /\ stalled' = (stalled \/ TooLong(work))

RateChanges ==
  /\ delay' \in IPDS
  /\ UNCHANGED <<sleep, sleep_max, slept, rested, skipped, ahead, spare, stalled>>

PaceInit ==
  /\ delay \in IPDS /\ sleep = 0 /\ sleep_max = 0
  /\ slept = 0 /\ rested = TRUE /\ skipped = 0 /\ ahead = 0 /\ spare = 0 /\ stalled = FALSE

PaceNext == PassWithSleep \/ PassAtEnd \/ PassWithoutSleep \/ RateChanges

PaceSpec == PaceInit /\ [][PaceNext]_paceVars

-----------------------------------------------------------------------------
(* Properties. *)

PaceTypeOK ==
  /\ delay \in IPDS /\ sleep \in Int /\ sleep_max \in Nat
  /\ slept \in Nat /\ rested \in BOOLEAN /\ skipped \in Nat
  /\ ahead \in Int /\ spare \in Int /\ stalled \in BOOLEAN

\* Whatever stalls, late wake-ups and changes of the rate there were: over the
\* whole transfer the server is never more ahead of the delays asked for, their
\* fractions dropped, than one delay for each pass that has not slept yet.  Of
\* the delays themselves it may lose up to a microsecond in each pass.
RateIsKept == ahead <= (skipped + 1) * LONGEST

\* Before the end of the file, and while no single pass takes longer than its
\* delay, it is not behind the delays rounded up either: lost time is made up for.
NothingIsLost == ~stalled => 0 <= sleep /\ sleep <= spare

\* What makes it so: the sleep due covers what the server is ahead, and was
\* slept unless the pass was cut short.
SleepCovers ==
  /\ ahead <= sleep
  /\ sleep <= (skipped + 1) * LONGEST
  /\ rested => Sleep(sleep) <= slept
  /\ ~stalled => slept = IF rested THEN Sleep(sleep) ELSE 0

PaceInv == PaceTypeOK /\ RateIsKept /\ NothingIsLost /\ SleepCovers
=============================================================================
