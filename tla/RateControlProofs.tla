------------------------- MODULE RateControlProofs -------------------------
(***************************************************************************)
(* Proof that the rate control stays within its limits, for every setting  *)
(* that makes "slower" no faster and "faster" no slower.                   *)
(***************************************************************************)
EXTENDS RateControl, TLAPS

-----------------------------------------------------------------------------
(* Division. *)

\* A quotient is bounded by every number whose product with the divisor
\* bounds the dividend.
LEMMA QuotientBound ==
  ASSUME NEW a \in Nat, NEW b \in Nat \ {0}, NEW c \in Nat, a <= b * c
  PROVE  a \div b \in 0 .. c
<1> DEFINE q == a \div b
<1>1. q \in Nat /\ b * q <= a
  BY SMT
<1>2. b * q <= b * c
  BY <1>1, SMT
<1>3. q <= c
  <2> SUFFICES ASSUME q > c PROVE FALSE
    BY <1>1, SMT
  <2>1. q >= c + 1
    BY <1>1, SMT
  <2>2. b * q >= b * (c + 1)
    BY <1>1, <2>1, SMT
  <2> QED
    BY <1>1, <1>2, <2>2, SMT
<1> QED
  BY <1>1, <1>3, SMT

\* A quotient of natural numbers is one.
LEMMA QuotientNat ==
  ASSUME NEW a \in Nat, NEW b \in Nat \ {0}
  PROVE  a \div b \in Nat
BY SMT

\* So is a product.
LEMMA ProductNat ==
  ASSUME NEW a \in Nat, NEW b \in Nat
  PROVE  a * b \in Nat
BY SMT

\* The delay a transfer starts with.
LEMMA Triple ==
  ASSUME NEW u \in Nat, NEW x \in Nat
  PROVE  /\ u * x \in Nat
         /\ 3 * u * x = 3 * (u * x)
         /\ 3 * u * x \in Nat
         /\ u * x <= 3 * u * x
<1>1. u * x \in Nat
  BY ProductNat
<1>2. 3 * u * x = 3 * (u * x)
  BY SMT
<1> QED
  BY <1>1, <1>2, SMT

\* The first report and the rest are reports.
LEMMA HeadAndTail ==
  ASSUME NEW S, NEW q \in Seq(S), q # <<>>
  PROVE  Head(q) \in S /\ Tail(q) \in Seq(S)
BY SMT

-----------------------------------------------------------------------------
(* The client's filter. *)

\* Less than half of a report comes from the retransmissions.
LEMMA FractionBound ==
  ASSUME RateAssumption, NEW r \in Nat, NEW blocks \in Nat
  PROVE  retransmits_fraction(r, blocks) \in 0 .. FULL \div 2
<1> DEFINE half == FULL \div 2
<1>1. half \in Nat
  BY SMT DEF RateAssumption
<1>2. r * half <= (1 + r + blocks) * half
  <2>1. (1 + blocks) * half \in Nat
    BY <1>1, ProductNat, SMT
  <2>2. (1 + r + blocks) * half = r * half + (1 + blocks) * half
    BY <1>1, SMT
  <2> QED
    BY <1>1, <2>1, <2>2, ProductNat, SMT
<1>3. half * r = r * half
  BY <1>1, SMT
<1>4. half * r \in Nat /\ 1 + r + blocks \in Nat \ {0}
  BY <1>1, ProductNat, SMT
<1> HIDE DEF half
<1>5. (half * r) \div (1 + r + blocks) \in 0 .. half
  BY <1>1, <1>2, <1>3, <1>4, QuotientBound
<1> QED
  BY <1>5 DEF half, retransmits_fraction

\* A whole interval counts for at most FULL.
LEMMA IntervalBound ==
  ASSUME RateAssumption, NEW i \in Interval
  PROVE  retransmits_fraction(i.retransmits, i.blocks) + ringfill_fraction(i.is_full) \in 0 .. FULL
<1>1. i.retransmits \in Nat /\ i.blocks \in Nat
  <2>1. COUNTS \subseteq Nat
    BY DEF RateAssumption
  <2>2. CASE i \in [retransmits : {0}, blocks : COUNTS, is_full : {FALSE}]
    <3>1. PICK r \in {0}, b \in COUNTS, f \in {FALSE} :
            i = [retransmits |-> r, blocks |-> b, is_full |-> f]
      BY <2>2, Zenon
    <3> QED
      BY <2>1, <3>1, SMT
  <2>3. CASE i \in [retransmits : COUNTS, blocks : COUNTS, is_full : BOOLEAN]
    BY <2>1, <2>3
  <2> QED
    BY <2>2, <2>3 DEF Interval
<1>2. retransmits_fraction(i.retransmits, i.blocks) \in 0 .. FULL \div 2
  BY <1>1, FractionBound
<1>3. ringfill_fraction(i.is_full) \in 0 .. FULL \div 2
  BY SMT DEF ringfill_fraction, RateAssumption
<1> HIDE DEF retransmits_fraction
<1> QED
  BY <1>2, <1>3, SMT DEF RateAssumption

\* The weighted mean of two values stays between the limits of both.
LEMMA FilterBound ==
  ASSUME RateAssumption, NEW old \in 0 .. FULL, NEW new \in 0 .. FULL
  PROVE  Filter(old, new) \in 0 .. FULL
<1> DEFINE h == HISTORY
           k == 100 - HISTORY
           sum == h * old + k * new
<1>1. h \in Nat /\ k \in Nat /\ h + k = 100 /\ FULL \in Nat /\ old \in Nat /\ new \in Nat
  BY SMT DEF RateAssumption
<1> HIDE DEF h, k
<1>2. h * old <= h * FULL /\ k * new <= k * FULL
  BY <1>1, SMT
<1>3. h * FULL + k * FULL = 100 * FULL
  <2>1. h * FULL + k * FULL = (h + k) * FULL
    BY <1>1, SMT
  <2> QED
    BY <1>1, <2>1
<1>4. h * old \in Nat /\ k * new \in Nat /\ h * FULL \in Nat /\ k * FULL \in Nat
  BY <1>1, ProductNat
<1>5. sum \in Nat /\ sum <= 100 * FULL
  BY <1>1, <1>2, <1>3, <1>4, SMT
<1> HIDE DEF sum
<1>6. sum \div 100 \in 0 .. FULL
  BY <1>1, <1>5, QuotientBound
<1> QED
  BY <1>6 DEF sum, h, k, Filter

-----------------------------------------------------------------------------
(* The server's interval. *)

\* Whatever a report asks for, the interval is brought into its limits.
LEMMA InRangeBound ==
  ASSUME RateAssumption, RateTypeOK, NEW ipd \in Int
  PROVE  /\ InRange(ipd) \in Nat
         /\ UNIT * ipd_time <= InRange(ipd)
         /\ InRange(ipd) <= UNIT * max(CEILING, ipd_time)
<1>1. ipd_time \in Nat /\ UNIT \in Nat /\ CEILING \in Nat
  BY DEF RateTypeOK, RateAssumption
<1>2. UNIT * ipd_time \in Nat /\ UNIT * CEILING \in Nat
  BY <1>1, ProductNat
<1>3. CASE CEILING > ipd_time
  <2>1. UNIT * ipd_time <= UNIT * CEILING
    BY <1>1, <1>3, SMT
  <2> QED
    BY <1>1, <1>2, <1>3, <2>1, SMT DEF InRange, max, min
<1>4. CASE ~(CEILING > ipd_time)
  <2>1. UNIT * CEILING <= UNIT * ipd_time
    BY <1>1, <1>4, SMT
  <2> QED
    BY <1>1, <1>2, <1>4, <2>1, SMT DEF InRange, max, min
<1> QED
  BY <1>3, <1>4

\* The new interval before that is a whole number of units.
LEMMA AdjustedBound ==
  ASSUME RateAssumption, RateTypeOK, NEW rate \in 0 .. FULL
  PROVE  /\ Adjusted(rate) \in Nat
         /\ UNIT * ipd_time <= Adjusted(rate)
         /\ Adjusted(rate) <= UNIT * max(CEILING, ipd_time)
<1>1. ipd_current \in Nat /\ FULL \in Nat /\ THRESHOLD \in Nat
  BY DEF RateTypeOK, RateAssumption
<1>2. CASE rate > THRESHOLD
  <2> DEFINE a == ipd_current * (SLOWER_NUM - SLOWER_DEN) * (1 + rate - THRESHOLD)
             b == SLOWER_DEN * (FULL - THRESHOLD)
  <2>1. SLOWER_NUM - SLOWER_DEN \in Nat /\ 1 + rate - THRESHOLD \in Nat
    BY <1>1, <1>2, SMT DEF RateAssumption
  <2>2. a \in Nat
    BY <1>1, <2>1, ProductNat
  <2>3. SLOWER_DEN \in Nat \ {0} /\ FULL - THRESHOLD \in Nat \ {0}
    BY SMT DEF RateAssumption
  <2>4. b \in Nat \ {0}
    BY <2>3, SMT
  <2> HIDE DEF a, b
  <2>5. (a + b - 1) \div b \in Nat
    <3>1. a + b - 1 \in Nat
      BY <2>2, <2>4, SMT
    <3> QED
      BY <2>4, <3>1, QuotientNat
  <2>6. Slower(rate) \in Int
    BY <1>1, <2>5, SMT DEF a, b, Slower, DividedUp
  <2> QED
    BY <1>2, <2>6, InRangeBound DEF Adjusted
<1>3. CASE ~(rate > THRESHOLD)
  <2>1. ipd_current * FASTER_NUM \in Nat /\ FASTER_DEN \in Nat \ {0} /\ UNIT \in Nat \ {0}
    BY <1>1, ProductNat DEF RateAssumption
  <2> DEFINE shorter == (ipd_current * FASTER_NUM) \div FASTER_DEN
  <2>2. shorter \in Nat
    BY <2>1, QuotientNat
  <2> HIDE DEF shorter
  <2>3. shorter - (shorter % UNIT) \in Int
    BY <2>1, <2>2, SMT
  <2>4. Faster \in Int
    BY <2>2, <2>3, SMT DEF shorter, Faster
  <2> QED
    BY <1>3, <2>4, InRangeBound DEF Adjusted
<1> QED
  BY <1>2, <1>3

-----------------------------------------------------------------------------
(* The limits of the rate. *)

\* Every step keeps the types, the ranges of reports and error rate, and the
\* limits of the interval.
THEOREM RateInvariant ==
  ASSUME RateAssumption
  PROVE  RateSpec => []RateInv
<1>1. RateInit => RateInv
  <2> SUFFICES ASSUME RateInit PROVE RateInv
    OBVIOUS
  <2>1. ipd_time \in Nat /\ UNIT \in Nat /\ FULL \in Nat
    BY DEF RateInit, RateAssumption
  <2>2. UNIT * ipd_time <= 3 * UNIT * ipd_time /\ 3 * UNIT * ipd_time \in Nat
    BY <2>1, Triple
  <2>3. RateTypeOK
    <3>1. 0 \in 0 .. FULL /\ <<>> \in Seq(0 .. FULL)
      BY <2>1, SMT
    <3> QED
      BY <2>2, <3>1 DEF RateInit, RateTypeOK
  <2>4. NeverTooFast
    BY <2>2 DEF RateInit, NeverTooFast
  <2> QED
    BY <2>3, <2>4 DEF RateInit, RateInv, NeverTooSlow
<1>2. RateInv /\ [RateNext]_rateVars => RateInv'
  <2> SUFFICES ASSUME RateInv, [RateNext]_rateVars PROVE RateInv'
    OBVIOUS
  <2> USE DEF RateInv
  <2>0. FULL \in Nat /\ UNIT \in Nat /\ IPD_TIMES \subseteq Nat
    BY DEF RateAssumption
  <2>1. CASE ttp_update_stats
    <3>1. PICK i \in Interval :
            error_rate' = Filter(error_rate, retransmits_fraction(i.retransmits, i.blocks)
                                             + ringfill_fraction(i.is_full))
      BY <2>1 DEF ttp_update_stats
    <3>2. error_rate' \in 0 .. FULL
      BY <3>1, IntervalBound, FilterBound DEF RateTypeOK
    <3>3. reports' \in Seq(0 .. FULL)
      BY <2>1, <3>2, SMT DEF RateTypeOK, ttp_update_stats
    <3>4. RateTypeOK'
      BY <2>1, <3>2, <3>3 DEF RateTypeOK, ttp_update_stats
    <3> QED
      BY <2>1, <3>4 DEF ttp_update_stats, NeverTooFast, NeverTooSlow
  <2>2. CASE ttp_accept_retransmit
    <3>1. Head(reports) \in 0 .. FULL /\ reports' \in Seq(0 .. FULL)
      BY <2>2, HeadAndTail DEF RateTypeOK, ttp_accept_retransmit
    <3>2. /\ ipd_current' \in Nat
          /\ UNIT * ipd_time <= ipd_current'
          /\ ipd_current' <= UNIT * max(CEILING, ipd_time)
      BY <2>2, <3>1, AdjustedBound DEF ttp_accept_retransmit
    <3>3. RateTypeOK'
      BY <2>2, <3>1, <3>2 DEF RateTypeOK, ttp_accept_retransmit
    <3> QED
      BY <2>2, <3>2, <3>3 DEF ttp_accept_retransmit, NeverTooFast, NeverTooSlow, max
  <2>3. CASE LostHeartbeat
    <3>1. /\ ipd_current' \in Nat
          /\ UNIT * ipd_time <= ipd_current'
          /\ ipd_current' <= UNIT * max(CEILING, ipd_time)
      <4>1. FULL \in 0 .. FULL
        BY <2>0, SMT
      <4> QED
        BY <2>3, <4>1, AdjustedBound DEF LostHeartbeat
    <3>2. RateTypeOK'
      BY <2>3, <3>1 DEF RateTypeOK, LostHeartbeat
    <3> QED
      BY <2>3, <3>1, <3>2 DEF LostHeartbeat, NeverTooFast, NeverTooSlow, max
  <2>4. CASE ttp_open_transfer
    <3>1. ipd_time' \in Nat
      BY <2>0, <2>4 DEF ttp_open_transfer
    <3>2. UNIT * ipd_time' <= 3 * UNIT * ipd_time' /\ 3 * UNIT * ipd_time' \in Nat
      BY <2>0, <3>1, Triple
    <3>3. RateTypeOK'
      <4>1. 0 \in 0 .. FULL /\ <<>> \in Seq(0 .. FULL)
        BY <2>0, SMT
      <4> QED
        BY <2>4, <3>2, <4>1 DEF RateTypeOK, ttp_open_transfer
    <3>4. NeverTooFast'
      BY <2>4, <3>2 DEF ttp_open_transfer, NeverTooFast
    <3> QED
      BY <2>4, <3>3, <3>4 DEF ttp_open_transfer, NeverTooSlow
  <2>5. CASE WeatherChanges
    BY <2>5 DEF WeatherChanges, RateTypeOK, NeverTooFast, NeverTooSlow
  <2>6. CASE UNCHANGED rateVars
    BY <2>6 DEF rateVars, RateTypeOK, NeverTooFast, NeverTooSlow
  <2> QED
    BY <2>1, <2>2, <2>3, <2>4, <2>5, <2>6 DEF RateNext
<1> QED
  BY <1>1, <1>2, PTL DEF RateSpec
=============================================================================
