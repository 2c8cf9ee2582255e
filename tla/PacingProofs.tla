---------------------------- MODULE PacingProofs ----------------------------
(***************************************************************************)
(* Proof that the pacing keeps the rate, for all delays and working times. *)
(***************************************************************************)
EXTENDS Pacing, TLAPS

\* Division rounds down.
LEMMA DownRounds ==
  ASSUME PacingAssumption, NEW n \in Nat
  PROVE  /\ Down(n) \in Nat
         /\ SCALE * Down(n) <= n /\ n < SCALE * Down(n) + SCALE
<1>1. SCALE \in Nat /\ SCALE > 0
  BY SMT DEF PacingAssumption
<1>2. n \div SCALE \in Nat /\ SCALE * (n \div SCALE) <= n /\ n < SCALE * (n \div SCALE) + SCALE
  BY <1>1, SMT
<1>3. QED BY <1>2 DEF Down

\* Multiples of the scale are in the order of their factors.
LEMMA FactorsInOrder ==
  ASSUME PacingAssumption, NEW a \in Int, NEW b \in Int, SCALE * a < SCALE * b + SCALE
  PROVE  a <= b
<1>1. SCALE \in Nat /\ SCALE > 0
  BY SMT DEF PacingAssumption
<1>2. SUFFICES ASSUME b + 1 <= a PROVE FALSE
  BY SMT
<1>3. SCALE * (b + 1) = SCALE * b + SCALE
  BY <1>1, SMT
<1>4. SCALE * (b + 1) <= SCALE * a
  BY <1>1, <1>2, SMT
<1>5. SCALE * a \in Int /\ SCALE * b \in Int
  BY <1>1, SMT
<1>6. QED BY <1>1, <1>3, <1>4, <1>5, SMT

\* Rounding up a delay that is no longer than the longest keeps it so.
LEMMA UpRounds ==
  ASSUME PacingAssumption, NEW n \in Nat
  PROVE  /\ Up(n) \in Nat
         /\ n <= SCALE * Up(n) /\ SCALE * Up(n) < n + SCALE
<1>1. SCALE \in Nat /\ SCALE > 0 /\ n + (SCALE - 1) \in Nat
  BY SMT DEF PacingAssumption
<1>2. Up(n) = Down(n + (SCALE - 1))
  BY DEF Up, Down
<1> DEFINE u == Down(n + (SCALE - 1))
<1>3. /\ u \in Nat /\ SCALE * u <= n + (SCALE - 1)
      /\ n + (SCALE - 1) < SCALE * u + SCALE
  BY <1>1, DownRounds
<1>4. SCALE * u \in Int
  BY <1>1, <1>3, SMT
<1> HIDE DEF u
<1>5. n <= SCALE * u /\ SCALE * u < n + SCALE
  BY <1>1, <1>3, <1>4, SMT
<1>6. QED BY <1>2, <1>3, <1>5 DEF u

\* The conversion to an integer drops a fraction: the correction lies between
\* those of the delay rounded down and rounded up, and a pass that leaves time to
\* spare shortens no sleep by more than was slept.
LEMMA FractionDropped ==
  ASSUME PacingAssumption, NEW d \in Nat, NEW t \in Nat
  PROVE  LET diff == Truncated(d - SCALE * t) IN
         /\ diff \in Int
         /\ Down(d) - t <= diff /\ diff <= Up(d) - t
         /\ \A s \in Nat, w \in Nat : t = s + w /\ ~(SCALE * w > d) => -s <= diff
         /\ d <= SCALE * LONGEST => diff <= LONGEST - t
<1> DEFINE diff == Truncated(d - SCALE * t)
           x == d - SCALE * t
<1>1. SCALE \in Nat /\ SCALE > 0 /\ LONGEST \in Nat
  BY SMT DEF PacingAssumption
<1>2. SCALE * t \in Nat /\ x \in Int
  BY <1>1, SMT
<1>3. /\ Down(d) \in Nat /\ SCALE * Down(d) <= d /\ d < SCALE * Down(d) + SCALE
      /\ Up(d) \in Nat /\ d <= SCALE * Up(d) /\ SCALE * Up(d) < d + SCALE
  BY DownRounds, UpRounds
<1>4. diff = IF x >= 0 THEN Down(x) ELSE -Down(-x)
  BY DEF Truncated
<1>5. /\ diff \in Int
      /\ x >= 0 => SCALE * diff <= x /\ x < SCALE * diff + SCALE /\ diff >= 0
      /\ x < 0 => x <= SCALE * diff /\ SCALE * diff < x + SCALE
  <2>1. CASE x >= 0
    <3>1. x \in Nat
      BY <1>2, <2>1, SMT
    <3>2. Down(x) \in Nat /\ SCALE * Down(x) <= x /\ x < SCALE * Down(x) + SCALE
      BY <3>1, DownRounds
    <3>3. diff = Down(x)
      BY <1>4, <2>1
    <3> HIDE DEF diff, x
    <3>4. QED BY <2>1, <3>1, <3>2, <3>3, SMT
  <2>2. CASE ~(x >= 0)
    <3>1. -x \in Nat
      BY <1>2, <2>2, SMT
    <3> DEFINE q == Down(-x)
    <3>2. q \in Nat /\ SCALE * q <= -x /\ -x < SCALE * q + SCALE
      BY <3>1, DownRounds
    <3>3. diff = -q
      BY <1>4, <2>2
    <3> HIDE DEF diff, x, q
    <3>4. SCALE * diff = -(SCALE * q) /\ SCALE * q \in Int /\ diff \in Int
      BY <1>1, <3>2, <3>3, SMT
    <3>5. QED BY <1>1, <1>2, <2>2, <3>2, <3>4, SMT
  <2>3. QED BY <2>1, <2>2
<1> HIDE DEF diff
<1>6. /\ SCALE * (Down(d) - t) = SCALE * Down(d) - SCALE * t
      /\ SCALE * (Up(d) - t) = SCALE * Up(d) - SCALE * t
      /\ SCALE * (LONGEST - t) = SCALE * LONGEST - SCALE * t
      /\ SCALE * Down(d) \in Int /\ SCALE * Up(d) \in Int /\ SCALE * LONGEST \in Int
      /\ SCALE * diff \in Int
  BY <1>1, <1>3, <1>5, SMT
<1>7. Down(d) - t <= diff
  <2>1. SCALE * (Down(d) - t) < SCALE * diff + SCALE
    BY <1>1, <1>2, <1>3, <1>5, <1>6, SMT
  <2>2. Down(d) - t \in Int
    BY <1>3, SMT
  <2>3. QED BY <1>5, <2>1, <2>2, FactorsInOrder
<1>8. diff <= Up(d) - t
  <2>1. SCALE * diff < SCALE * (Up(d) - t) + SCALE
    BY <1>1, <1>2, <1>3, <1>5, <1>6, SMT
  <2>2. Up(d) - t \in Int
    BY <1>3, SMT
  <2>3. QED BY <1>5, <2>1, <2>2, FactorsInOrder
<1>9. ASSUME NEW s \in Nat, NEW w \in Nat, t = s + w, ~(SCALE * w > d) PROVE -s <= diff
  <2>1. SCALE * t = SCALE * s + SCALE * w /\ SCALE * s \in Int /\ SCALE * w \in Int
    BY <1>1, <1>9, SMT
  <2>2. SCALE * (-s) = -(SCALE * s)
    BY <1>1, SMT
  <2>3. SCALE * (-s) <= x
    BY <1>9, <2>1, <2>2, SMT
  <2>4. SCALE * (-s) < SCALE * diff + SCALE
    BY <1>1, <1>2, <1>5, <1>6, <2>1, <2>2, <2>3, SMT
  <2>5. -s \in Int
    BY SMT
  <2>6. QED BY <1>5, <2>4, <2>5, FactorsInOrder
<1>10. ASSUME d <= SCALE * LONGEST PROVE diff <= LONGEST - t
  <2>1. SCALE * diff < SCALE * (LONGEST - t) + SCALE
    BY <1>1, <1>2, <1>5, <1>6, <1>10, SMT
  <2>2. LONGEST - t \in Int
    BY <1>1, SMT
  <2>3. QED BY <1>5, <2>1, <2>2, FactorsInOrder
<1>11. QED BY <1>5, <1>7, <1>8, <1>9, <1>10 DEF diff

\* What the head of a pass establishes from the pacing invariant, whether the
\* pass then sleeps or not.
LEMMA StartKeepsPace ==
  ASSUME PacingAssumption, PaceInv, NEW work \in WORK, StartPass(work)
  PROVE  /\ delay' \in IPDS /\ sleep' \in Int /\ sleep_max' \in Nat
         /\ skipped' \in Nat /\ ahead' \in Int /\ spare' \in Int
         /\ ahead' <= sleep'
         /\ sleep' <= (skipped' + 1) * LONGEST
         /\ ~stalled /\ ~TooLong(work) => 0 <= sleep' /\ sleep' <= spare'
<1> DEFINE diff == ipd_usleep_diff(work)
           down == Down(delay) - (slept + work)
           up   == Up(delay) - (slept + work)
<1>1. /\ delay \in Nat /\ delay <= SCALE * LONGEST /\ work \in Nat
      /\ LONGEST \in Nat
  BY DEF PacingAssumption, PaceInv, PaceTypeOK
<1>2. /\ sleep \in Int /\ sleep_max \in Nat /\ slept \in Nat
      /\ rested \in BOOLEAN /\ skipped \in Nat /\ ahead \in Int /\ spare \in Int
  BY DEF PaceInv, PaceTypeOK
<1>3. /\ diff \in Int /\ down <= diff /\ diff <= up
      /\ ~TooLong(work) => -slept <= diff
      /\ diff <= LONGEST - (slept + work)
  <2>1. slept + work \in Nat
    BY <1>1, <1>2, SMT
  <2>2. QED BY <1>1, <1>2, <2>1, FractionDropped DEF ipd_usleep_diff, TooLong
<1>0. down \in Int /\ up \in Int
  <2>1. Down(delay) \in Nat /\ Up(delay) \in Nat
    BY <1>1, DownRounds, UpRounds
  <2>2. QED BY <1>1, <1>2, <2>1, SMT
<1>4. /\ sleep' = (IF diff > 0 \/ sleep > 0 THEN sleep + diff ELSE sleep)
      /\ sleep_max' = (IF sleep' > sleep_max THEN sleep' ELSE sleep_max)
      /\ skipped' = (IF rested THEN 0 ELSE skipped + 1)
      /\ ahead' = ahead + down
      /\ spare' = spare + up
      /\ delay' = delay
  BY DEF StartPass, Corrected
<1> HIDE DEF diff, down, up
<1>5. /\ ahead <= sleep
      /\ sleep <= (skipped + 1) * LONGEST
      /\ rested => Sleep(sleep) <= slept
      /\ ~stalled => slept = (IF rested THEN Sleep(sleep) ELSE 0)
      /\ ~stalled => 0 <= sleep /\ sleep <= spare
  BY DEF PaceInv, SleepCovers, NothingIsLost
<1>6. /\ delay' \in IPDS /\ sleep' \in Int /\ sleep_max' \in Nat
      /\ skipped' \in Nat /\ ahead' \in Int /\ spare' \in Int
  BY <1>0, <1>2, <1>3, <1>4, SMT DEF PaceInv, PaceTypeOK
<1>7. ahead' <= sleep'
  BY <1>0, <1>2, <1>3, <1>4, <1>5, SMT
<1>8. sleep' <= (skipped' + 1) * LONGEST
  <2>1. CASE rested
    <3>1. (skipped' + 1) * LONGEST = LONGEST
      BY <1>1, <1>4, <2>1, SMT
    <3>2. sleep' <= LONGEST
      BY <1>1, <1>2, <1>3, <1>4, <1>5, <2>1, SMT DEF Sleep
    <3> QED
      BY <3>1, <3>2
  <2>2. CASE ~rested
    <3>1. (skipped' + 1) * LONGEST = (skipped + 1) * LONGEST + LONGEST
      BY <1>1, <1>2, <1>4, <2>2, SMT
    <3>2. (skipped + 1) * LONGEST \in Int
      BY <1>1, <1>2, SMT
    <3>3. diff <= LONGEST
      BY <1>1, <1>2, <1>3, SMT
    <3> QED
      BY <1>1, <1>2, <1>3, <1>4, <1>5, <3>1, <3>2, <3>3, SMT
  <2> QED
    BY <2>1, <2>2
<1>9. ASSUME ~stalled, ~TooLong(work) PROVE 0 <= sleep' /\ sleep' <= spare'
  <2>1. -slept <= diff /\ 0 <= sleep /\ sleep <= spare /\ slept <= sleep
    BY <1>2, <1>3, <1>5, <1>9, SMT DEF Sleep
  <2>2. ~(diff > 0 \/ sleep > 0) => diff = 0 /\ sleep = 0
    BY <1>2, <1>3, <2>1, SMT
  <2>3. QED BY <1>0, <1>2, <1>3, <1>4, <2>1, <2>2, SMT
<1> QED
  BY <1>6, <1>7, <1>8, <1>9

\* The pacing invariant, and with it the rate, are kept by every step.
THEOREM PaceInvariant ==
  ASSUME PacingAssumption
  PROVE  PaceSpec => []PaceInv
<1> USE DEF PaceInv, RateIsKept, NothingIsLost, SleepCovers
<1>1. PaceInit => PaceInv
  <2> SUFFICES ASSUME PaceInit PROVE PaceInv
    OBVIOUS
  <2>1. (skipped + 1) * LONGEST = LONGEST /\ LONGEST \in Nat
    BY SMT DEF PaceInit, PacingAssumption
  <2>2. PaceTypeOK
    <3>1. 0 \in Nat /\ 0 \in Int
      BY SMT
    <3> QED
      BY <3>1 DEF PaceInit, PaceTypeOK
  <2>3. 0 <= 0 /\ Sleep(0) = 0 /\ 0 <= LONGEST
    BY <2>1, SMT DEF Sleep
  <2> QED
    BY <2>1, <2>2, <2>3 DEF PaceInit
<1>2. PaceInv /\ [PaceNext]_paceVars => PaceInv'
  <2> SUFFICES ASSUME PaceInv, [PaceNext]_paceVars PROVE PaceInv'
    OBVIOUS
  <2>0. LONGEST \in Nat /\ IPDS \subseteq Nat /\ WORK \subseteq Nat
    BY DEF PacingAssumption
  <2>1. ASSUME NEW work \in WORK, StartPass(work), slept' \in Nat, rested' \in BOOLEAN,
               stalled' \in BOOLEAN,
               rested' => Sleep(sleep') <= slept',
               ~stalled' => /\ ~stalled /\ ~TooLong(work)
                            /\ slept' = IF rested' THEN Sleep(sleep') ELSE 0
        PROVE  PaceInv'
    <3>1. /\ delay' \in IPDS /\ sleep' \in Int /\ sleep_max' \in Nat
          /\ skipped' \in Nat /\ ahead' \in Int /\ spare' \in Int
          /\ ahead' <= sleep'
          /\ sleep' <= (skipped' + 1) * LONGEST
          /\ ~stalled /\ ~TooLong(work) => 0 <= sleep' /\ sleep' <= spare'
      BY <2>1, StartKeepsPace
    <3>2. PaceTypeOK'
      BY <2>1, <3>1 DEF PaceTypeOK
    <3>3. ahead' <= (skipped' + 1) * LONGEST
      <4>1. (skipped' + 1) * LONGEST \in Int
        BY <2>0, <3>1, SMT
      <4> QED
        BY <3>1, <4>1, SMT
    <3> QED
      BY <2>1, <3>1, <3>2, <3>3 DEF Sleep
  <2>3. CASE PassWithSleep
    <3>1. PICK work \in WORK :
            /\ StartPass(work)
            /\ slept' = Sleep(sleep') /\ rested' = TRUE
            /\ stalled' = (stalled \/ TooLong(work))
      BY <2>3 DEF PassWithSleep
    <3>2. sleep' \in Int
      BY <3>1, StartKeepsPace
    <3>3. slept' \in Nat /\ Sleep(sleep') <= slept'
      BY <3>1, <3>2, SMT DEF Sleep
    <3>4. stalled' \in BOOLEAN /\ (~stalled' => ~stalled /\ ~TooLong(work))
      BY <3>1, Zenon
    <3> QED
      BY <2>1, <3>1, <3>3, <3>4
  <2>4. CASE PassAtEnd
    <3>1. PICK work \in WORK :
            /\ StartPass(work)
            /\ slept' = 10 * sleep_max' + Sleep(sleep') /\ rested' = TRUE
            /\ stalled' = TRUE
      BY <2>4 DEF PassAtEnd
    <3>2. sleep' \in Int /\ sleep_max' \in Nat
      BY <3>1, StartKeepsPace
    <3>3. Sleep(sleep') \in Nat
      BY <3>2, SMT DEF Sleep
    <3>4. slept' \in Nat /\ Sleep(sleep') <= slept'
      BY <3>1, <3>2, <3>3, SMT
    <3> QED
      BY <2>1, <3>1, <3>4
  <2>5. CASE PassWithoutSleep
    <3>1. PICK work \in WORK :
            /\ StartPass(work)
            /\ slept' = 0 /\ rested' = FALSE
            /\ stalled' = (stalled \/ TooLong(work))
      BY <2>5 DEF PassWithoutSleep
    <3>2. stalled' \in BOOLEAN /\ (~stalled' => ~stalled /\ ~TooLong(work))
      BY <3>1, Zenon
    <3> QED
      BY <2>1, <3>1, <3>2
  <2>6. CASE RateChanges
    BY <2>6 DEF RateChanges, PaceTypeOK, Sleep
  <2>7. CASE UNCHANGED paceVars
    BY <2>7 DEF paceVars, PaceTypeOK, Sleep
  <2> QED
    BY <2>3, <2>4, <2>5, <2>6, <2>7 DEF PaceNext
<1> QED
  BY <1>1, <1>2, PTL DEF PaceSpec
=============================================================================
