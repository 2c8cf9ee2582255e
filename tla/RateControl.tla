---------------------------- MODULE RateControl ----------------------------
(***************************************************************************)
(* The control loop of the transfer rate: ttp_update_stats of the clients  *)
(* (client/protocol.c) reports a filtered error rate, ttp_accept_retransmit*)
(* of the servers (server/protocol.c, mk5server/protocol.c) makes the delay*)
(* between two blocks longer or shorter by it, and a server that hears     *)
(* nothing for 500 ms reports a total loss to itself (server/main.c).      *)
(*                                                                         *)
(* A double is a multiple of 1 / UNIT: what makes the delay longer is      *)
(* rounded up, what makes it shorter is rounded down, so that, as in the   *)
(* program, a factor above or below one always has an effect.              *)
(***************************************************************************)
EXTENDS Integers, Sequences

CONSTANTS
  PROGRAMS,                \* the servers to choose from
  FULL,                    \* 100000, all blocks lost
  CEILING,                 \* 10000 us, the longest delay a report leads to
  UNIT,                    \* parts of a microsecond
  THRESHOLD,               \* param->error_rate, the loss that is tolerated
  SLOWER_NUM, SLOWER_DEN,  \* param->slower_num, param->slower_den
  FASTER_NUM, FASTER_DEN,  \* param->faster_num, param->faster_den
  HISTORY,                 \* param->history, in percent
  IPD_TIMES,               \* the delays that the target rates ask for
  COUNTS,                  \* retransmissions and blocks in one interval
  REPORTS                  \* model bound: reports in the TCP connection

Program == {"server", "mk5server"}

\* What the defaults of client/config.c satisfy; the user may set any values.
RateAssumption ==
  /\ PROGRAMS \subseteq Program
  /\ FULL \in Nat /\ FULL % 2 = 0 /\ CEILING \in Nat /\ UNIT \in Nat \ {0}
  /\ THRESHOLD \in Nat /\ THRESHOLD < FULL
  /\ SLOWER_NUM \in Nat /\ SLOWER_DEN \in Nat \ {0} /\ SLOWER_DEN <= SLOWER_NUM
  /\ FASTER_NUM \in Nat /\ FASTER_DEN \in Nat \ {0} /\ FASTER_NUM <= FASTER_DEN
  /\ HISTORY \in 0 .. 100
  /\ IPD_TIMES \subseteq Nat /\ COUNTS \subseteq Nat
  /\ REPORTS \in Nat

VARIABLES
  program,
  ipd_time,     \* param->ipd_time: the delay at the target rate
  ipd_current,  \* xfer->ipd_current, in UNITs
  reported,     \* history: a report was handled in this transfer
  error_rate,   \* stats->error_rate of the client
  reports,      \* REQUEST_ERROR_RATE messages on their way
  weather       \* of the network: "calm" while nothing is lost, or "storm"

rateVars == <<program, ipd_time, ipd_current, reported, error_rate, reports, weather>>

min(a, b) == IF a < b THEN a ELSE b
max(a, b) == IF a > b THEN a ELSE b

-----------------------------------------------------------------------------
(* The client. *)

\* The share of the requests for retransmission among the blocks of an
\* interval, and a full ring, count half each.
retransmits_fraction(r, blocks) == ((FULL \div 2) * r) \div (1 + r + blocks)
ringfill_fraction(is_full) == IF is_full THEN FULL \div 2 ELSE 0

\* Mutant: the filter adds its input to the whole history.
Accumulate(old, new) == old + ((100 - HISTORY) * new) \div 100

Filter(old, new) == (HISTORY * old + (100 - HISTORY) * new) \div 100

\* The counts of an interval.
Interval ==
  IF weather = "calm" THEN [retransmits : {0}, blocks : COUNTS, is_full : {FALSE}]
  ELSE [retransmits : COUNTS, blocks : COUNTS, is_full : BOOLEAN]

\* 350 ms and a multiple of 50 blocks.
ttp_update_stats ==
  /\ Len(reports) < REPORTS
  /\ \E i \in Interval :
       error_rate' = Filter(error_rate, retransmits_fraction(i.retransmits, i.blocks)
                                        + ringfill_fraction(i.is_full))
  /\ reports' = Append(reports, error_rate')
  /\ UNCHANGED <<program, ipd_time, ipd_current, reported, weather>>

-----------------------------------------------------------------------------
(* The server. *)

DividedUp(a, b) == (a + b - 1) \div b

\* The interval grows by the slowdown in proportion to the loss above the
\* threshold.
Slower(rate) ==
  ipd_current + DividedUp(ipd_current * (SLOWER_NUM - SLOWER_DEN) * (1 + rate - THRESHOLD),
                          SLOWER_DEN * (FULL - THRESHOLD))

\* The Mark5 server keeps whole microseconds.
Faster ==
  LET shorter == (ipd_current * FASTER_NUM) \div FASTER_DEN
  IN  IF program = "mk5server" THEN shorter - (shorter % UNIT) ELSE shorter

InRange(ipd) == max(min(ipd, UNIT * CEILING), UNIT * ipd_time)

\* Mutant: a loss above the threshold makes the interval shorter.
OnlyFaster(rate) == InRange(Faster)

Adjusted(rate) == InRange(IF rate > THRESHOLD THEN Slower(rate) ELSE Faster)

ttp_accept_retransmit ==
  /\ reports # <<>>
  /\ ipd_current' = Adjusted(Head(reports)) /\ reported' = TRUE
  /\ reports' = Tail(reports)
  /\ UNCHANGED <<program, ipd_time, error_rate, weather>>

\* No request for 500 ms: the file server takes it for a loss of everything.
LostHeartbeat ==
  /\ program = "server" /\ weather = "storm" /\ reports = <<>>
  /\ ipd_current' = Adjusted(FULL) /\ reported' = TRUE
  /\ UNCHANGED <<program, ipd_time, error_rate, reports, weather>>

\* ttp_open_transfer of both sides: the transfer starts at a third of the
\* target rate, which "set rate" or the automatic adjustment may have changed.
ttp_open_transfer ==
  /\ ipd_time' \in IPD_TIMES
  /\ ipd_current' = 3 * UNIT * ipd_time' /\ reported' = FALSE
  /\ error_rate' = 0 /\ reports' = <<>>
  /\ UNCHANGED <<program, weather>>

\* The network, the disk and the other users of both.
WeatherChanges ==
  /\ weather' \in {"calm", "storm"} \ {weather}
  /\ UNCHANGED <<program, ipd_time, ipd_current, reported, error_rate, reports>>

RateInit ==
  /\ program \in PROGRAMS /\ ipd_time \in IPD_TIMES
  /\ ipd_current = 3 * UNIT * ipd_time /\ reported = FALSE
  /\ error_rate = 0 /\ reports = <<>> /\ weather = "calm"

RateNext ==
  \/ ttp_update_stats \/ ttp_accept_retransmit \/ LostHeartbeat \/ ttp_open_transfer
  \/ WeatherChanges

RateSpec == RateInit /\ [][RateNext]_rateVars

\* Blocks keep arriving, so the client reports; the server reads.
RateFairness == WF_rateVars(ttp_update_stats) /\ WF_rateVars(ttp_accept_retransmit)

-----------------------------------------------------------------------------
(* Properties. *)

RateTypeOK ==
  /\ program \in PROGRAMS /\ ipd_time \in IPD_TIMES /\ ipd_current \in Nat
  /\ reported \in BOOLEAN /\ error_rate \in 0 .. FULL
  /\ reports \in Seq(0 .. FULL) /\ weather \in {"calm", "storm"}

\* No filter, rounding or change of direction takes the server above the
\* target rate, and from the first report on not below the slowest rate that
\* reports may lead to.
NeverTooFast == UNIT * ipd_time <= ipd_current
NeverTooSlow == reported => ipd_current <= UNIT * max(CEILING, ipd_time)

\* The types, above all that no report leaves the range for which the server
\* computes a slowdown, and the limits of the rate.
RateInv == RateTypeOK /\ NeverTooFast /\ NeverTooSlow

\* Within a transfer the loop converges: when nothing is lost any more the
\* delay comes down to the target; while the losses last, above the threshold
\* in the end, it goes up to the ceiling.
RateAdapts ==
  /\ <>[](weather = "calm") /\ <>[][~ttp_open_transfer]_rateVars =>
       <>[](ipd_current = UNIT * ipd_time)
  /\ <>[](weather = "storm" /\ error_rate > THRESHOLD) /\ <>[][~ttp_open_transfer]_rateVars =>
       <>[](ipd_current = UNIT * max(CEILING, ipd_time))
=============================================================================
