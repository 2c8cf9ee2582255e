------------------------ MODULE ServerFeedbackProofs ------------------------
(* Proofs about ServerFeedback, for every size of a request, every list of   *)
(* requests and all four servers.                                            *)
EXTENDS ServerFeedback, SequenceTheorems, TLAPS

Fate == {"whole", "spoilt", "discarded", "mixed"}

\* What the read and the length of the buffer are, in every state of the loop.
LEMMA ReadFacts ==
  ASSUME FeedbackInv
  PROVE  /\ PARTS \in Nat \ {0} /\ Len(fate) \in Nat
         /\ retransmitlen \in 0 .. PARTS /\ arrived \in Nat /\ consumed \in 0 .. arrived
         /\ status \in 0 .. arrived - consumed
         /\ status <= PARTS - retransmitlen
         /\ WholeRequest <=> status = PARTS - retransmitlen
         /\ consumed + status \in 0 .. arrived
         /\ ReadOn \in [1 .. PARTS -> Int]
<1>0. PARTS \in Nat \ {0}
  BY FeedbackAssumption DEF FeedbackAssumption
<1>1. requests \in Seq(Kind) /\ Len(requests) \in Nat /\ Len(fate) \in Nat
  BY FeedbackAssumption DEF FeedbackAssumption, FeedbackInv, TypeOK
<1>2. PARTS * Len(requests) \in Nat
  BY <1>0, <1>1
<1>3. retransmitlen \in 0 .. PARTS /\ arrived \in Nat /\ consumed \in 0 .. arrived
  BY <1>2 DEF FeedbackInv, TypeOK
<1>4. /\ status \in 0 .. arrived - consumed
      /\ status <= PARTS - retransmitlen
  BY <1>0, <1>3 DEF status, min
<1>5. WholeRequest <=> status = PARTS - retransmitlen
  BY <1>0, <1>3, <1>4 DEF WholeRequest
<1>6. consumed + status \in 0 .. arrived
  BY <1>3, <1>4
<1>7. retransmission \in [1 .. PARTS -> Int]
  BY DEF FeedbackInv, TypeOK
<1>8. ReadOn \in [1 .. PARTS -> Int]
  BY <1>0, <1>3, <1>7 DEF ReadOn
<1>9. QED
  BY <1>0, <1>1, <1>3, <1>4, <1>5, <1>6, <1>8

\* A read puts the next parts of the stream behind those already there.
LEMMA ReadKeepsParts ==
  ASSUME FeedbackInv, loop = "sending"
  PROVE  \A p \in 1 .. PARTS : p <= retransmitlen + status =>
           \/ ReadOn[p] = OwnPart(p)
           \/ program = "server" /\ ReadOn[p] = Report
<1> SUFFICES ASSUME NEW p \in 1 .. PARTS, p <= retransmitlen + status
             PROVE  ReadOn[p] = OwnPart(p) \/ (program = "server" /\ ReadOn[p] = Report)
  OBVIOUS
<1>1. /\ PARTS \in Nat \ {0} /\ retransmitlen \in 0 .. PARTS /\ status \in Nat
      /\ consumed \in Nat
  BY ReadFacts
<1>2. ReadOn[p] = IF retransmitlen < p THEN consumed + p - retransmitlen ELSE retransmission[p]
  BY <1>1 DEF ReadOn
<1>3. CASE retransmitlen < p
  <2>1. consumed = PARTS * Len(fate) + retransmitlen
    BY DEF FeedbackInv, InPhase
  <2>2. PARTS * Len(fate) \in Nat
    BY ReadFacts
  <2>3. QED
    BY <1>1, <1>2, <1>3, <2>1, <2>2 DEF OwnPart
<1>4. CASE p <= retransmitlen
  BY <1>1, <1>2, <1>4 DEF FeedbackInv, BufferHoldsNext
<1>5. QED
  BY <1>1, <1>3, <1>4

LEMMA InitFeedbackInv == Init => FeedbackInv
<1> SUFFICES ASSUME Init PROVE FeedbackInv
  OBVIOUS
<1>0. /\ PARTS \in Nat \ {0} /\ BLOCK_COUNT \in Nat /\ DEAD_PASSES \in Nat
      /\ REPORT_INTERVAL \in Nat /\ HB_TIMEOUT \in Nat /\ TRANSFERS \in Nat \ {0}
  BY FeedbackAssumption DEF FeedbackAssumption
<1>1. requests \in Seq(Kind) /\ Len(requests) \in Nat
  BY FeedbackAssumption DEF FeedbackAssumption, Init
<1>2. PARTS * Len(requests) \in Nat
  BY <1>0, <1>1
<1>3. fate = <<>> /\ Len(fate) = 0
  BY DEF Init
<1>4. TypeOK
  BY <1>0, <1>1, <1>2, <1>3 DEF Init, TypeOK, LoopState, Old
<1>5. InPhase /\ BufferHoldsNext /\ RequestsKeepTheirParts
  BY <1>0, <1>3 DEF Init, InPhase, BufferHoldsNext, RequestsKeepTheirParts
<1>6. QED
  BY <1>4, <1>5 DEF FeedbackInv

\* One more request is taken: the place in the stream moves by a request.
LEMMA TakeRequest ==
  ASSUME FeedbackInv, loop \in {"sending", "discarding"}, WholeRequest, status > 0,
         NEW f \in Fate, fate' = Append(fate, f), consumed' = consumed + status,
         UNCHANGED requests
  PROVE  /\ consumed' = PARTS * Len(fate')
         /\ fate' \in Seq(Fate) /\ Len(fate') = Len(fate) + 1
         /\ Len(fate') <= Len(requests)
<1>1. /\ PARTS \in Nat \ {0} /\ Len(fate) \in Nat /\ retransmitlen \in 0 .. PARTS
      /\ arrived \in Nat /\ consumed \in 0 .. arrived
      /\ status = PARTS - retransmitlen /\ consumed + status <= arrived
  BY ReadFacts
<1>2. fate \in Seq(Fate) /\ Len(requests) \in Nat /\ arrived <= PARTS * Len(requests)
  <2>1. requests \in Seq(Kind)
    BY FeedbackAssumption DEF FeedbackAssumption, FeedbackInv, TypeOK
  <2>2. Len(requests) \in Nat /\ PARTS * Len(requests) \in Nat
    BY <1>1, <2>1
  <2>3. QED BY <1>1, <2>2 DEF FeedbackInv, TypeOK, Fate
<1>3. Len(fate') = Len(fate) + 1 /\ fate' \in Seq(Fate)
  BY <1>2
<1>4. consumed = PARTS * Len(fate) + retransmitlen
  BY DEF FeedbackInv, InPhase
<1>5. PARTS * (Len(fate) + 1) = PARTS * Len(fate) + PARTS /\ PARTS * Len(fate) \in Nat
  BY <1>1
<1>6. consumed' = PARTS * Len(fate')
  BY <1>1, <1>3, <1>4, <1>5
<1>7. PARTS * Len(fate') <= PARTS * Len(requests)
  BY <1>1, <1>2, <1>6
<1>8. Len(fate') <= Len(requests)
  <2> SUFFICES ASSUME Len(fate') > Len(requests) PROVE FALSE
    BY <1>1, <1>2, <1>3
  <2>1. Len(fate') >= Len(requests) + 1 /\ Len(fate') \in Nat
    BY <1>1, <1>2, <1>3
  <2> DEFINE k == Len(fate') - Len(requests) - 1
  <2>2. k \in Nat /\ Len(fate') = Len(requests) + 1 + k
    BY <1>2, <2>1
  <2> HIDE DEF k
  <2>3. PARTS * (Len(requests) + 1 + k) = PARTS * Len(requests) + PARTS + PARTS * k
    BY <1>1, <1>2, <2>2
  <2>4. PARTS * k \in Nat /\ PARTS * Len(requests) \in Nat
    BY <1>1, <1>2, <2>2
  <2>5. QED BY <1>1, <1>7, <2>2, <2>3, <2>4
<1>9. QED
  BY <1>3, <1>6, <1>8

\* A pass that takes no request keeps length, place and contents together, even
\* when it writes a report over what the buffer holds.
LEMMA NoRequestTaken ==
  ASSUME FeedbackInv, PassWithoutRequest, NEW b \in [1 .. PARTS -> Int],
         retransmission' = b, b = ReadOn \/ b = Overwritten(ReadOn),
         deadconnection_counter' \in 0 .. DEAD_PASSES + 1,
         lasthblostreport' \in 0 .. REPORT_INTERVAL, lastfeedback' \in 0 .. HB_TIMEOUT + 1,
         loop' \in {"sending", "timed_out"}
  PROVE  FeedbackInv'
<1>0. ~WholeRequest
  BY DEF PassWithoutRequest
<1>a. /\ PARTS \in Nat \ {0} /\ Len(fate) \in Nat /\ retransmitlen \in 0 .. PARTS
      /\ arrived \in Nat /\ consumed \in 0 .. arrived /\ status \in 0 .. arrived - consumed
      /\ status <= PARTS - retransmitlen
      /\ consumed + status \in 0 .. arrived
  BY ReadFacts
<1>b. status # PARTS - retransmitlen
  BY <1>0, ReadFacts
<1>1. /\ PARTS \in Nat \ {0} /\ Len(fate) \in Nat /\ retransmitlen \in 0 .. PARTS
      /\ arrived \in Nat /\ consumed \in 0 .. arrived
      /\ status \in Nat /\ retransmitlen + status < PARTS
      /\ consumed + status \in 0 .. arrived
  BY <1>a, <1>b
<1>2. /\ consumed' = consumed + status /\ retransmitlen' = retransmitlen + status
      /\ UNCHANGED <<program, requests, transfer, arrived, conn, fate>>
      /\ block' = NextToSend /\ loop = "sending"
      /\ program = "mk5server" => status = 0
  BY DEF PassWithoutRequest, KeepsTheLength
<1>4. block' \in 0 .. BLOCK_COUNT
  BY <1>2, FeedbackAssumption DEF FeedbackAssumption, FeedbackInv, TypeOK, NextToSend, min
<1>5. TypeOK'
  <2>1. /\ consumed' \in 0 .. arrived' /\ retransmitlen' \in 0 .. PARTS
        /\ retransmission' \in [1 .. PARTS -> Int]
    <3>1. retransmitlen + status \in 0 .. PARTS
      BY <1>1
    <3>2. QED BY <1>1, <1>2, <3>1
  <2>2. /\ program \in PROGRAMS /\ requests \in REQUEST_LISTS /\ transfer \in 1 .. TRANSFERS
        /\ arrived \in 0 .. PARTS * Len(requests) /\ conn \in {"open", "eof", "reset"}
        /\ fate \in Seq(Fate) /\ Len(fate) <= Len(requests)
    BY DEF FeedbackInv, TypeOK, Fate
  <2>3. loop' \in LoopState
    BY DEF LoopState
  <2>4. QED BY <1>2, <1>4, <2>1, <2>2, <2>3, Zenon DEF TypeOK, Fate
<1>6. InPhase'
  <2>1. consumed = PARTS * Len(fate) + retransmitlen /\ PARTS * Len(fate) \in Nat
    BY <1>1, <1>2 DEF FeedbackInv, InPhase
  <2>2. retransmitlen' < PARTS /\ consumed' = PARTS * Len(fate) + retransmitlen'
    BY <1>1, <1>2, <2>1
  <2>3. QED BY <1>2, <2>2 DEF InPhase
<1>7. BufferHoldsNext'
  <2>1. \A p \in 1 .. PARTS : p <= retransmitlen' =>
          b[p] = OwnPart(p) \/ (program = "server" /\ b[p] = Report)
    <3> SUFFICES ASSUME NEW p \in 1 .. PARTS, p <= retransmitlen + status
                 PROVE  b[p] = OwnPart(p) \/ (program = "server" /\ b[p] = Report)
      BY <1>2
    <3>1. ReadOn[p] = OwnPart(p) \/ (program = "server" /\ ReadOn[p] = Report)
      BY <1>2, ReadKeepsParts
    <3>2. QED
      BY <3>1 DEF Overwritten
  <2>2. \A p \in 1 .. PARTS : OwnPart(p)' = OwnPart(p)
    BY <1>2 DEF OwnPart
  <2>3. program = "mk5server" => retransmitlen' = 0
    BY <1>1, <1>2 DEF FeedbackInv, BufferHoldsNext
  <2>4. QED BY <1>2, <2>1, <2>2, <2>3 DEF BufferHoldsNext
<1>8. RequestsKeepTheirParts'
  BY <1>2 DEF FeedbackInv, RequestsKeepTheirParts
<1>9. QED
  BY <1>5, <1>6, <1>7, <1>8 DEF FeedbackInv

LEMMA StepFeedbackInv == FeedbackInv /\ [Next]_vars => FeedbackInv'
<1> SUFFICES ASSUME FeedbackInv, [Next]_vars PROVE FeedbackInv'
  OBVIOUS
<1>0. /\ PARTS \in Nat \ {0} /\ BLOCK_COUNT \in Nat \ {0} /\ DEAD_PASSES \in Nat
      /\ REPORT_INTERVAL \in Nat /\ HB_TIMEOUT \in Nat /\ TRANSFERS \in Nat \ {0}
  BY FeedbackAssumption DEF FeedbackAssumption
<1>r. /\ Len(fate) \in Nat /\ retransmitlen \in 0 .. PARTS
      /\ arrived \in Nat /\ consumed \in 0 .. arrived /\ status \in Nat
      /\ status <= PARTS - retransmitlen
      /\ WholeRequest <=> status = PARTS - retransmitlen
      /\ consumed + status \in 0 .. arrived
      /\ ReadOn \in [1 .. PARTS -> Int]
      /\ PARTS * Len(fate) \in Nat
  BY ReadFacts
<1>1. CASE HandleRequest
  <2> USE <1>1 DEF HandleRequest
  <2>1. /\ loop = "sending" /\ WholeRequest /\ status > 0 /\ retransmitlen < PARTS
        /\ retransmission' = ReadOn /\ consumed' = consumed + status
        /\ fate' = Append(fate, Handled(ReadOn))
        /\ UNCHANGED <<program, requests, transfer, arrived, conn>>
    <3>1. /\ loop = "sending" /\ WholeRequest
          /\ retransmission' = ReadOn /\ consumed' = consumed + status
          /\ fate' = Append(fate, Handled(ReadOn))
          /\ UNCHANGED <<program, requests, transfer, arrived, conn>>
      OBVIOUS
    <3>2. retransmitlen < PARTS
      BY <3>1 DEF FeedbackInv, InPhase
    <3>3. status > 0
      BY <1>0, <1>r, <3>1, <3>2
    <3>4. QED BY <3>1, <3>2, <3>3
  <2>2. \A p \in 1 .. PARTS : ReadOn[p] = OwnPart(p) \/ (program = "server" /\ ReadOn[p] = Report)
    BY <1>0, <1>r, <2>1, ReadKeepsParts
  <2>3. /\ Handled(ReadOn) \in Fate \ {"mixed", "discarded"}
        /\ program # "server" => Handled(ReadOn) = "whole"
    BY <2>2 DEF Handled, Fate
  <2>4. /\ consumed' = PARTS * Len(fate')
        /\ fate' \in Seq(Fate) /\ Len(fate') = Len(fate) + 1
        /\ Len(fate') <= Len(requests)
    BY <2>1, <2>3, TakeRequest
  <2>5. \/ loop' = "stopped" /\ retransmitlen' = PARTS /\ UNCHANGED <<block, clockVars>>
        \/ /\ loop' = "sending" /\ retransmitlen' = 0
           /\ block' \in 1 .. BLOCK_COUNT \/ block' = block
           /\ deadconnection_counter' \in {0, 1} /\ lasthblostreport' = 0 /\ lastfeedback' = 0
    BY <2>1
  <2>6. TypeOK'
    <3>0. /\ block \in 0 .. BLOCK_COUNT
          /\ deadconnection_counter \in 0 .. DEAD_PASSES + 1
          /\ lasthblostreport \in 0 .. REPORT_INTERVAL /\ lastfeedback \in 0 .. HB_TIMEOUT + 1
      BY DEF FeedbackInv, TypeOK
    <3>1. block' \in 0 .. BLOCK_COUNT
      BY <1>0, <2>5, <3>0
    <3>2. /\ deadconnection_counter' \in 0 .. DEAD_PASSES + 1
          /\ lasthblostreport' \in 0 .. REPORT_INTERVAL /\ lastfeedback' \in 0 .. HB_TIMEOUT + 1
      BY <1>0, <2>5, <3>0 DEF clockVars
    <3>3. loop' \in LoopState /\ retransmitlen' \in 0 .. PARTS
      BY <1>0, <2>5 DEF LoopState
    <3>4. QED
      BY <1>r, <2>1, <2>4, <3>1, <3>2, <3>3 DEF FeedbackInv, TypeOK, Fate
  <2>7. InPhase'
    <3>1. CASE loop' = "stopped" /\ retransmitlen' = PARTS
      BY <2>4, <3>1 DEF InPhase
    <3>2. CASE loop' = "sending" /\ retransmitlen' = 0
      <4>1. PARTS * Len(fate') \in Nat
        BY <1>0, <1>r, <2>4
      <4>2. consumed' = PARTS * Len(fate') + retransmitlen' /\ retransmitlen' < PARTS
        BY <1>0, <2>4, <3>2, <4>1
      <4>3. QED BY <3>2, <4>2 DEF InPhase
    <3>3. QED BY <2>5, <3>1, <3>2
  <2>8. BufferHoldsNext'
    BY <1>0, <2>5 DEF BufferHoldsNext
  <2>9. RequestsKeepTheirParts'
    <3> SUFFICES ASSUME NEW i \in DOMAIN fate'
                 PROVE  fate'[i] \in CASE program = "server"    -> {"whole", "spoilt"}
                                       [] program = "mk5server" -> {"whole", "discarded"}
                                       [] OTHER                 -> {"whole"}
      BY <2>1 DEF RequestsKeepTheirParts
    <3>0. fate \in Seq(Fate)
      BY DEF FeedbackInv, TypeOK, Fate
    <3>1. CASE i \in DOMAIN fate
      <4>1. fate'[i] = fate[i]
        BY <2>1, <2>3, <3>0, <3>1
      <4>2. QED BY <3>1, <4>1 DEF FeedbackInv, RequestsKeepTheirParts
    <3>2. CASE i = Len(fate) + 1
      <4>1. fate'[i] = Handled(ReadOn)
        BY <2>1, <2>3, <3>0, <3>2
      <4>2. QED BY <2>3, <4>1 DEF Fate
    <3>3. QED
      BY <2>1, <2>3, <3>0, <3>1, <3>2
  <2>10. QED
    BY <2>6, <2>7, <2>8, <2>9 DEF FeedbackInv
<1>2. CASE SendNextBlock
  <2> USE <1>2 DEF SendNextBlock
  <2>0. /\ deadconnection_counter \in 0 .. DEAD_PASSES + 1
        /\ lasthblostreport \in 0 .. REPORT_INTERVAL /\ lastfeedback \in 0 .. HB_TIMEOUT + 1
        /\ loop = "sending"
    BY DEF FeedbackInv, TypeOK, PassWithoutRequest
  <2>1. CASE program # "mk5server" /\ Heartbeat
    <3>1. deadconnection_counter' \in 0 .. DEAD_PASSES + 1
      BY <1>0, <2>0, <2>1 DEF Heartbeat
    <3>2. lasthblostreport' \in 0 .. REPORT_INTERVAL
      BY <1>0, <2>0, <2>1 DEF Heartbeat
    <3>3. lastfeedback' \in 0 .. HB_TIMEOUT + 1 /\ loop' \in {"sending", "timed_out"}
      BY <1>0, <2>0, <2>1 DEF Heartbeat, CheckTimeout
    <3>4. retransmission' = ReadOn \/ retransmission' = Overwritten(ReadOn)
      BY <2>1 DEF Heartbeat
    <3>5. Overwritten(ReadOn) \in [1 .. PARTS -> Int]
      BY <1>r DEF Overwritten, Report
    <3>6. retransmission' \in [1 .. PARTS -> Int]
      BY <1>r, <3>4, <3>5
    <3>7. QED
      BY <3>1, <3>2, <3>3, <3>4, <3>6, NoRequestTaken
  <2>2. CASE program = "mk5server" /\ UNCHANGED <<retransmission, clockVars, loop>>
    <3>1. /\ deadconnection_counter' \in 0 .. DEAD_PASSES + 1
          /\ lasthblostreport' \in 0 .. REPORT_INTERVAL /\ lastfeedback' \in 0 .. HB_TIMEOUT + 1
      BY <2>0, <2>2 DEF clockVars
    <3>2. status = 0 /\ retransmission \in [1 .. PARTS -> Int]
      BY <2>2 DEF PassWithoutRequest, FeedbackInv, TypeOK
    <3>3. retransmission = ReadOn
      BY <1>0, <1>r, <3>2 DEF ReadOn
    <3>4. QED
      BY <1>r, <2>0, <2>2, <3>1, <3>3, NoRequestTaken
  <2>3. QED
    BY <2>1, <2>2
<1>3. CASE SendFails
  <2>1. /\ deadconnection_counter' \in 0 .. DEAD_PASSES + 1
        /\ lasthblostreport' \in 0 .. REPORT_INTERVAL /\ lastfeedback' \in 0 .. HB_TIMEOUT + 1
    BY <1>3 DEF SendFails, clockVars, FeedbackInv, TypeOK
  <2>2. loop' = "sending" /\ retransmission' = ReadOn /\ PassWithoutRequest
    BY <1>3 DEF SendFails, PassWithoutRequest
  <2>3. QED
    BY <1>r, <2>1, <2>2, NoRequestTaken
<1>4. CASE ReadFails \/ Tick \/ Disconnect
  <2> USE <1>4 DEF ReadFails, Tick, Disconnect, streamVars, bufferVars, clockVars
  <2>1. /\ UNCHANGED <<program, requests, transfer, arrived, consumed, retransmission, retransmitlen, block, fate>>
        /\ loop' \in {loop, "failed"} /\ (loop = "stopped" => loop' = loop)
        /\ loop # "sending" => loop' # "sending"
        /\ conn' \in {"open", "eof", "reset"}
    BY DEF FeedbackInv, TypeOK
  <2>2. /\ deadconnection_counter' \in 0 .. DEAD_PASSES + 1
        /\ lasthblostreport' \in 0 .. REPORT_INTERVAL /\ lastfeedback' \in 0 .. HB_TIMEOUT + 1
    <3>1. /\ deadconnection_counter \in 0 .. DEAD_PASSES + 1
          /\ lasthblostreport \in 0 .. REPORT_INTERVAL /\ lastfeedback \in 0 .. HB_TIMEOUT + 1
      BY DEF FeedbackInv, TypeOK
    <3>2. \/ UNCHANGED <<deadconnection_counter, lasthblostreport, lastfeedback>>
          \/ /\ UNCHANGED deadconnection_counter
             /\ lasthblostreport' = min(lasthblostreport + 1, REPORT_INTERVAL)
             /\ lastfeedback' = min(lastfeedback + 1, HB_TIMEOUT + 1)
      OBVIOUS
    <3>3. QED
      BY <1>0, <3>1, <3>2 DEF min
  <2>3. TypeOK'
    BY <2>1, <2>2 DEF FeedbackInv, TypeOK, LoopState
  <2>4. InPhase' /\ RequestsKeepTheirParts'
    BY <2>1 DEF FeedbackInv, InPhase, RequestsKeepTheirParts
  <2>5. BufferHoldsNext'
    BY <2>1 DEF FeedbackInv, BufferHoldsNext, OwnPart
  <2>6. QED
    BY <2>3, <2>4, <2>5 DEF FeedbackInv
<1>5. CASE Discard
  <2> USE <1>5 DEF Discard, KeepsTheLength
  <2>1. /\ program = "mk5server" /\ status > 0 /\ loop \in {"sending", "discarding"}
        /\ consumed' = consumed + status
        /\ UNCHANGED <<program, requests, transfer, arrived, conn, retransmission, block, clockVars>>
        /\ consumed = PARTS * Len(fate) + retransmitlen
    BY DEF FeedbackInv, InPhase
  <2>2. CASE WholeRequest /\ loop' = "sending" /\ retransmitlen' = 0 /\ fate' = Append(fate, "discarded")
    <3>1. /\ consumed' = PARTS * Len(fate')
          /\ fate' \in Seq(Fate) /\ Len(fate') = Len(fate) + 1
          /\ Len(fate') <= Len(requests)
      BY <2>1, <2>2, TakeRequest DEF Fate
    <3>2. TypeOK'
      BY <1>0, <1>r, <2>1, <2>2, <3>1 DEF FeedbackInv, TypeOK, LoopState, Fate, clockVars
    <3>3. InPhase' /\ BufferHoldsNext'
      <4>1. PARTS * Len(fate') \in Nat
        BY <1>0, <1>r, <3>1
      <4>2. consumed' = PARTS * Len(fate') + retransmitlen' /\ retransmitlen' < PARTS
        BY <1>0, <2>2, <3>1, <4>1
      <4>3. InPhase'
        BY <2>2, <4>2 DEF InPhase
      <4>4. BufferHoldsNext'
        BY <1>0, <2>2 DEF BufferHoldsNext
      <4>5. QED BY <4>3, <4>4
    <3>4. RequestsKeepTheirParts'
      <4> SUFFICES ASSUME NEW i \in DOMAIN fate'
                   PROVE  fate'[i] \in {"whole", "discarded"}
        BY <2>1 DEF RequestsKeepTheirParts
      <4>0. fate \in Seq(Fate)
        BY DEF FeedbackInv, TypeOK, Fate
      <4>1. CASE i \in DOMAIN fate
        BY <2>1, <2>2, <4>0, <4>1 DEF FeedbackInv, RequestsKeepTheirParts
      <4>2. CASE i = Len(fate) + 1
        BY <2>2, <4>0, <4>2
      <4>3. QED BY <2>2, <4>0, <4>1, <4>2
    <3>5. QED
      BY <3>2, <3>3, <3>4 DEF FeedbackInv
  <2>3. CASE ~WholeRequest /\ loop' = "discarding" /\ retransmitlen' = retransmitlen + status /\ UNCHANGED fate
    <3>1. TypeOK'
      BY <1>0, <1>r, <2>1, <2>3 DEF FeedbackInv, TypeOK, LoopState, clockVars
    <3>2. InPhase'
      BY <1>0, <1>r, <2>1, <2>3 DEF InPhase
    <3>3. BufferHoldsNext' /\ RequestsKeepTheirParts'
      BY <2>1, <2>3 DEF FeedbackInv, BufferHoldsNext, RequestsKeepTheirParts
    <3>4. QED
      BY <3>1, <3>2, <3>3 DEF FeedbackInv
  <2>4. QED
    BY <2>2, <2>3
<1>6. CASE NextTransfer
  <2> USE <1>6 DEF NextTransfer, StartsEmpty
  <2>1. requests \in Seq(Kind) /\ Len(requests) \in Nat /\ Len(fate') = 0 /\ fate' = <<>>
    BY FeedbackAssumption DEF FeedbackAssumption, FeedbackInv, TypeOK
  <2>2. PARTS * Len(requests) \in Nat
    BY <1>0, <2>1
  <2>3. TypeOK'
    BY <1>0, <2>1, <2>2 DEF FeedbackInv, TypeOK, LoopState, Old
  <2>4. InPhase' /\ BufferHoldsNext' /\ RequestsKeepTheirParts'
    BY <1>0, <2>1 DEF InPhase, BufferHoldsNext, RequestsKeepTheirParts
  <2>5. QED
    BY <2>3, <2>4 DEF FeedbackInv
<1>7. CASE Arrive
  <2> USE <1>7 DEF Arrive, bufferVars, clockVars
  <2>1. requests \in Seq(Kind) /\ Len(requests) \in Nat
    BY FeedbackAssumption DEF FeedbackAssumption, FeedbackInv, TypeOK
  <2>2. PARTS * Len(requests) \in Nat
    BY <1>0, <2>1
  <2>3. arrived' \in 0 .. PARTS * Len(requests) /\ consumed' \in 0 .. arrived'
    BY <1>r, <2>2
  <2>4. TypeOK'
    BY <2>3 DEF FeedbackInv, TypeOK
  <2>5. InPhase' /\ BufferHoldsNext' /\ RequestsKeepTheirParts'
    BY DEF FeedbackInv, InPhase, BufferHoldsNext, RequestsKeepTheirParts, OwnPart
  <2>6. QED
    BY <2>4, <2>5 DEF FeedbackInv
<1>8. CASE UNCHANGED vars
  <2> USE <1>8 DEF vars, streamVars, bufferVars, clockVars
  <2>1. TypeOK' /\ InPhase'
    BY DEF FeedbackInv, TypeOK, InPhase
  <2>2. BufferHoldsNext' /\ RequestsKeepTheirParts'
    BY DEF FeedbackInv, BufferHoldsNext, RequestsKeepTheirParts, OwnPart
  <2>3. QED
    BY <2>1, <2>2 DEF FeedbackInv
<1>9. QED
  BY <1>1, <1>2, <1>3, <1>4, <1>5, <1>6, <1>7, <1>8 DEF Next, Pass, Over

\* The length of the buffer, the place in the stream and the contents of the
\* buffer agree in every state of the loop.
THEOREM FeedbackInvariant == Spec => []FeedbackInv
BY InitFeedbackInv, StepFeedbackInv, PTL DEF Spec

\* No server ever obeys a request put together from the parts of two, however
\* TCP splits them and whatever the loop does in between.
THEOREM RequestsStayWhole == Spec => []RequestsKeepTheirParts
<1>1. FeedbackInv => RequestsKeepTheirParts
  BY DEF FeedbackInv
<1>2. QED BY FeedbackInvariant, <1>1, PTL

-----------------------------------------------------------------------------
(* The loops implement the stream of requests. *)

\* A report is written over the whole buffer, so parts of it are followed by
\* parts of the request, never the other way round.
ReportsComeFirst ==
  loop = "sending" =>
    \A p \in 1 .. PARTS :
      p <= retransmitlen /\ retransmission[1] = OwnPart(1) => retransmission[p] = OwnPart(p)

\* The first part of a request tells which one it is.
LEMMA FirstPart ==
  ASSUME NEW n \in Nat
  PROVE  RequestType(PARTS * n + 1) = requests[n + 1]
<1>1. PARTS \in Nat \ {0}
  BY FeedbackAssumption
<1> DEFINE part == PARTS * n + 1
<1>2. (part - 1) % PARTS = 0 /\ (part - 1) \div PARTS = n
  BY <1>1
<1>3. part # Report /\ part # Old
  BY <1>1 DEF Report, Old
<1> HIDE DEF part
<1>4. RequestType(part) = requests[n + 1]
  BY <1>2, <1>3, Zenon DEF RequestType
<1>5. QED BY <1>4 DEF part

\* A read leaves the parts in this order.
LEMMA ReadKeepsOrder ==
  ASSUME FeedbackInv, ReportsComeFirst, loop = "sending", retransmitlen < PARTS
  PROVE  \A p \in 1 .. PARTS : p <= retransmitlen + status =>
           /\ ReadOn[p] = OwnPart(p) \/ (program = "server" /\ ReadOn[p] = Report)
           /\ ReadOn[1] = OwnPart(1) => ReadOn[p] = OwnPart(p)
<1> SUFFICES ASSUME NEW p \in 1 .. PARTS, p <= retransmitlen + status, ReadOn[1] = OwnPart(1)
             PROVE  ReadOn[p] = OwnPart(p)
  BY ReadKeepsParts
<1>1. /\ PARTS \in Nat \ {0} /\ retransmitlen \in 0 .. PARTS /\ status \in Nat
      /\ consumed = PARTS * Len(fate) + retransmitlen /\ PARTS * Len(fate) \in Nat
  <2>1. PARTS \in Nat \ {0} /\ Len(fate) \in Nat /\ retransmitlen \in 0 .. PARTS
    BY ReadFacts
  <2>2. status \in Nat
    BY ReadFacts
  <2>3. PARTS * Len(fate) \in Nat
    BY <2>1
  <2>4. consumed = PARTS * Len(fate) + retransmitlen
    BY Zenon DEF FeedbackInv, InPhase
  <2>5. QED BY <2>1, <2>2, <2>3, <2>4
<1>2. \A q \in 1 .. PARTS : q <= retransmitlen + status =>
        ReadOn[q] = IF retransmitlen < q THEN consumed + q - retransmitlen ELSE retransmission[q]
  BY <1>1 DEF ReadOn
<1>3. CASE retransmitlen < p
  <2>1. ReadOn[p] = consumed + p - retransmitlen
    BY <1>2, <1>3
  <2>2. QED BY <1>1, <2>1 DEF OwnPart
<1>4. CASE p <= retransmitlen
  <2>1. ReadOn[1] = retransmission[1] /\ ReadOn[p] = retransmission[p]
    BY <1>1, <1>2, <1>4
  <2>2. QED BY <1>4, <2>1 DEF ReportsComeFirst
<1>5. QED BY <1>1, <1>3, <1>4

\* The order of the parts is kept by every step.
LEMMA StepReportsComeFirst == FeedbackInv /\ ReportsComeFirst /\ [Next]_vars => ReportsComeFirst'
<1> SUFFICES ASSUME FeedbackInv, ReportsComeFirst, [Next]_vars PROVE ReportsComeFirst'
  OBVIOUS
<1>0. /\ PARTS \in Nat \ {0} /\ retransmitlen \in 0 .. PARTS /\ status \in Nat
      /\ 1 \in 1 .. PARTS
  BY ReadFacts
<1>1. ASSUME loop' # "sending" \/ retransmitlen' = 0 PROVE ReportsComeFirst'
  BY <1>1 DEF ReportsComeFirst
<1>2. ASSUME UNCHANGED <<retransmission, retransmitlen, fate>>, loop' = "sending" => loop = "sending"
      PROVE  ReportsComeFirst'
  BY <1>2 DEF ReportsComeFirst, OwnPart
<1>3. ASSUME PassWithoutRequest, retransmission' = ReadOn PROVE ReportsComeFirst'
  <2>1. /\ loop = "sending" /\ retransmitlen' = retransmitlen + status /\ UNCHANGED fate
        /\ retransmitlen < PARTS
    BY <1>3 DEF PassWithoutRequest, KeepsTheLength, FeedbackInv, InPhase
  <2>2. \A p \in 1 .. PARTS : OwnPart(p)' = OwnPart(p)
    BY <2>1 DEF OwnPart
  <2>3. QED BY <1>0, <1>3, <2>1, <2>2, ReadKeepsOrder DEF ReportsComeFirst
<1>4. ASSUME PassWithoutRequest, retransmission' = [p \in 1 .. PARTS |-> Report] PROVE ReportsComeFirst'
  <2>1. PARTS * Len(fate) \in Nat /\ UNCHANGED fate
    BY <1>4, ReadFacts DEF PassWithoutRequest
  <2>2. OwnPart(1)' # Report /\ retransmission'[1] = Report
    BY <1>0, <1>4, <2>1 DEF OwnPart, Report
  <2>3. QED BY <2>2 DEF ReportsComeFirst
<1>5. CASE HandleRequest
  BY <1>1, <1>5 DEF HandleRequest
<1>6. CASE SendNextBlock
  <2>1. CASE Heartbeat
    BY <1>3, <1>4, <1>6, <2>1 DEF SendNextBlock, Heartbeat, Overwritten
  <2>2. CASE program = "mk5server" /\ UNCHANGED retransmission
    <3>1. status = 0
      BY <1>6, <2>2 DEF SendNextBlock, PassWithoutRequest
    <3>2. UNCHANGED <<retransmission, retransmitlen, fate>> /\ loop = "sending"
      BY <1>0, <1>6, <2>2, <3>1 DEF SendNextBlock, PassWithoutRequest, KeepsTheLength
    <3>3. QED BY <1>2, <3>2
  <2>3. QED BY <1>6, <2>1, <2>2 DEF SendNextBlock
<1>7. CASE SendFails
  BY <1>3, <1>7 DEF SendFails
<1>8. CASE Discard
  BY <1>1, <1>8 DEF Discard
<1>9. CASE NextTransfer
  BY <1>1, <1>9 DEF NextTransfer, StartsEmpty
<1>10. CASE ReadFails \/ Arrive \/ Disconnect \/ Tick \/ UNCHANGED vars
  <2>1. UNCHANGED <<retransmission, retransmitlen, fate>> /\ (loop' = "sending" => loop = "sending")
    BY <1>10 DEF ReadFails, Arrive, Disconnect, Tick, vars, bufferVars
  <2>2. QED BY <1>2, <2>1
<1>11. QED
  BY <1>5, <1>6, <1>7, <1>8, <1>9, <1>10 DEF Next, Pass, Over

\* What the stream of requests calls the fate of a request.
Outcome(f) == CASE f = "whole" -> "obeyed" [] f = "mixed" -> "mixed" [] OTHER -> "lost"

\* One more fate here is one more there.
LEMMA FatesGrow ==
  ASSUME FeedbackInv, NEW f \in Fate, fate' = Append(fate, f)
  PROVE  Fates' = Append(Fates, Outcome(f)) /\ Len(Fates) = Len(fate) /\ Len(Fates') = Len(fate) + 1
<1> DEFINE Outcomes == {"obeyed", "mixed", "lost"}
<1>1. fate \in Seq(Fate) /\ Len(fate) \in Nat /\ DOMAIN fate = 1 .. Len(fate)
  BY LenProperties DEF FeedbackInv, TypeOK, Fate
<1>2. /\ Len(fate') = Len(fate) + 1 /\ fate' \in Seq(Fate) /\ DOMAIN fate' = 1 .. Len(fate) + 1
      /\ \A i \in 1 .. Len(fate) : fate'[i] = fate[i]
      /\ fate'[Len(fate) + 1] = f
  BY <1>1, AppendProperties, LenProperties
<1>3. Fates = [i \in 1 .. Len(fate) |-> Outcome(fate[i])]
  BY <1>1 DEF Fates, Outcome
<1>4. Fates' = [i \in 1 .. Len(fate) + 1 |-> Outcome(fate'[i])]
  BY <1>2 DEF Fates, Outcome
<1>5. \A g : Outcome(g) \in Outcomes
  BY DEF Outcome
<1> HIDE DEF Outcomes
<1>6. Fates \in Seq(Outcomes) /\ Len(Fates) = Len(fate)
  BY <1>1, <1>3, <1>5
<1>7. Fates' \in Seq(Outcomes) /\ Len(Fates') = Len(fate) + 1
  BY <1>1, <1>4, <1>5
<1> DEFINE longer == Append(Fates, Outcome(f))
<1>8. /\ longer \in Seq(Outcomes) /\ Len(longer) = Len(fate) + 1
      /\ \A i \in 1 .. Len(fate) : longer[i] = Fates[i]
      /\ longer[Len(fate) + 1] = Outcome(f)
  BY <1>5, <1>6, AppendProperties
<1> HIDE DEF longer
<1>9. ASSUME NEW i \in 1 .. Len(fate) + 1 PROVE Fates'[i] = longer[i]
  <2>1. CASE i \in 1 .. Len(fate)
    BY <1>2, <1>3, <1>4, <1>8, <2>1
  <2>2. CASE i = Len(fate) + 1
    BY <1>1, <1>2, <1>4, <1>8, <2>2
  <2>3. QED BY <1>1, <2>1, <2>2
<1>10. Fates' = longer
  BY <1>7, <1>8, <1>9, SeqEqual
<1>11. QED BY <1>6, <1>7, <1>10 DEF longer

\* Every step of a loop takes the next request as a whole, gives the client up,
\* starts the next transfer, or does nothing that the client could tell.
LEMMA StepStream ==
  ASSUME FeedbackInv, ReportsComeFirst, [Next]_vars
  PROVE  [Stream!Next]_(Stream!streamVars)
<1> USE DEF LoopOutcome
<1>0. /\ PARTS \in Nat \ {0} /\ retransmitlen \in 0 .. PARTS /\ status \in Nat
      /\ status <= PARTS - retransmitlen
      /\ WholeRequest <=> status = PARTS - retransmitlen
      /\ Len(fate) \in Nat /\ PARTS * Len(fate) \in Nat
  BY ReadFacts
<1>1. UNCHANGED <<program, requests>>
  BY DEF Next, Pass, HandleRequest, SendNextBlock, SendFails, Discard, PassWithoutRequest, ReadFails,
    NextTransfer, Arrive, Disconnect, Tick, Over, vars
<1>2. ASSUME UNCHANGED fate, LoopOutcome' = LoopOutcome PROVE Stream!streamVars' = Stream!streamVars
  BY <1>1, <1>2 DEF Stream!streamVars, Fates
<1>3. ASSUME UNCHANGED fate, LoopOutcome = "sending", LoopOutcome' = "left" PROVE Stream!Leave
  BY <1>1, <1>3 DEF Stream!Leave, Fates
<1>4. CASE HandleRequest
  <2>1. /\ loop = "sending" /\ WholeRequest /\ retransmitlen < PARTS
        /\ consumed' = consumed + status /\ fate' = Append(fate, Handled(ReadOn))
        /\ IF RequestType(ReadOn[1]) = "stop" THEN loop' = "stopped" ELSE loop' = "sending"
    BY <1>4 DEF HandleRequest, FeedbackInv, InPhase
  <2>2. status > 0 /\ retransmitlen + status = PARTS
    BY <1>0, <2>1
  <2>3. /\ \A p \in 1 .. PARTS :
             /\ ReadOn[p] = OwnPart(p) \/ (program = "server" /\ ReadOn[p] = Report)
             /\ ReadOn[1] = OwnPart(1) => ReadOn[p] = OwnPart(p)
        /\ 1 \in 1 .. PARTS
    BY <1>0, <2>1, <2>2, ReadKeepsOrder
  <2>4. Handled(ReadOn) \in Fate
    BY DEF Handled, Fate
  <2>5. Len(fate') = Len(fate) + 1 /\ Len(fate') <= Len(requests)
    BY <2>1, <2>2, <2>4, TakeRequest, <1>1
  <2>6. CASE ReadOn[1] = OwnPart(1)
    <3>1. Handled(ReadOn) = "whole"
      BY <2>3, <2>6 DEF Handled
    <3>2. RequestType(ReadOn[1]) = requests[Len(fate) + 1]
      <4>1. ReadOn[1] = PARTS * Len(fate) + 1
        BY <2>6 DEF OwnPart
      <4>2. QED BY <1>0, <4>1, FirstPart
    <3>3. Fates' = Append(Fates, "obeyed") /\ Len(Fates) = Len(fate) /\ Len(Fates') = Len(fate) + 1
      BY <2>1, <2>4, <3>1, FatesGrow DEF Outcome
    <3>4. Len(fate) < Len(requests)
      <4>1. Len(requests) \in Nat
        BY FeedbackAssumption DEF FeedbackInv, TypeOK
      <4>2. QED BY <1>0, <2>5, <4>1
    <3>5. Stream!Obey
      BY <1>1, <2>1, <3>2, <3>3, <3>4 DEF Stream!Obey
    <3>6. QED BY <3>5 DEF Stream!Next
  <2>7. CASE ReadOn[1] # OwnPart(1)
    <3>1. ReadOn[1] = Report /\ program = "server"
      BY <2>3, <2>7
    <3>2. RequestType(ReadOn[1]) = "error_rate"
      BY <3>1 DEF RequestType, Report, Old
    <3>3. Handled(ReadOn) = "spoilt"
      BY <2>3, <2>7 DEF Handled
    <3>4. Fates' = Append(Fates, "lost") /\ Len(Fates) = Len(fate)
      BY <2>1, <2>4, <3>3, FatesGrow DEF Outcome
    <3>5. Len(fate) < Len(requests)
      <4>1. Len(requests) \in Nat
        BY FeedbackAssumption DEF FeedbackInv, TypeOK
      <4>2. QED BY <1>0, <2>5, <4>1
    <3>6. Stream!Lose
      BY <1>1, <2>1, <3>1, <3>2, <3>4, <3>5 DEF Stream!Lose
    <3>7. QED BY <3>6 DEF Stream!Next
  <2>8. QED BY <2>6, <2>7
<1>5. CASE SendNextBlock \/ SendFails
  <2>1. UNCHANGED fate /\ loop = "sending"
    BY <1>5 DEF SendNextBlock, SendFails, PassWithoutRequest
  <2>2. loop' \in {"sending", "timed_out"}
    BY <1>5, <2>1 DEF SendNextBlock, SendFails, Heartbeat, CheckTimeout
  <2>3. QED BY <1>2, <1>3, <2>1, <2>2 DEF Stream!Next
<1>6. CASE ReadFails
  <2>1. UNCHANGED fate /\ loop \in {"sending", "discarding"} /\ loop' = "failed"
    BY <1>6 DEF ReadFails
  <2>2. QED BY <1>3, <2>1 DEF Stream!Next
<1>7. CASE Discard
  <2>1. /\ program = "mk5server" /\ loop \in {"sending", "discarding"} /\ status > 0
        /\ consumed' = consumed + status
        /\ \/ WholeRequest /\ loop' = "sending" /\ fate' = Append(fate, "discarded")
           \/ loop' = "discarding" /\ UNCHANGED fate
    BY <1>0, <1>7 DEF Discard
  <2>2. CASE WholeRequest /\ loop' = "sending" /\ fate' = Append(fate, "discarded")
    <3>1. "discarded" \in Fate
      BY DEF Fate
    <3>2. Len(fate') = Len(fate) + 1 /\ Len(fate') <= Len(requests)
      BY <1>1, <2>1, <2>2, <3>1, TakeRequest
    <3>3. Fates' = Append(Fates, "lost") /\ Len(Fates) = Len(fate)
      BY <2>2, <3>1, FatesGrow DEF Outcome
    <3>4. Len(fate) < Len(requests)
      <4>1. Len(requests) \in Nat
        BY FeedbackAssumption DEF FeedbackInv, TypeOK
      <4>2. QED BY <1>0, <3>2, <4>1
    <3>5. Stream!Lose
      BY <1>1, <2>1, <2>2, <3>3, <3>4 DEF Stream!Lose
    <3>6. QED BY <3>5 DEF Stream!Next
  <2>3. CASE loop' = "discarding" /\ UNCHANGED fate
    BY <1>2, <2>1, <2>3
  <2>4. QED BY <2>1, <2>2, <2>3
<1>8. CASE NextTransfer
  <2>1. loop = "stopped" /\ loop' = "sending" /\ fate' = <<>>
    BY <1>8 DEF NextTransfer
  <2>2. Fates' = <<>>
    BY <2>1 DEF Fates
  <2>3. Stream!NextTransfer
    BY <1>1, <2>1, <2>2 DEF Stream!NextTransfer
  <2>4. QED BY <2>3 DEF Stream!Next
<1>9. CASE Arrive \/ Disconnect \/ Tick \/ UNCHANGED vars
  <2>1. UNCHANGED <<fate, loop>>
    BY <1>9 DEF Arrive, Disconnect, Tick, vars
  <2>2. QED BY <1>2, <2>1
<1>10. QED
  BY <1>4, <1>5, <1>6, <1>7, <1>8, <1>9 DEF Next, Pass, Over

\* All four servers implement the stream of requests: each request is obeyed or
\* lost as a whole, in order, only the client's own stop stops the loop, and the
\* next transfer starts with an empty stream.
THEOREM LoopsAreStreams == Spec => StreamSpec
<1>1. Init => Stream!Init
  <2>1. Init => Fates = <<>> /\ LoopOutcome = "sending"
    BY DEF Init, Fates, LoopOutcome
  <2>2. QED BY <2>1 DEF Stream!Init
<1>2. Init => ReportsComeFirst
  BY FeedbackAssumption DEF Init, ReportsComeFirst
<1>3. Spec => []ReportsComeFirst
  BY <1>2, StepReportsComeFirst, FeedbackInvariant, PTL DEF Spec
<1>4. QED
  BY <1>1, <1>3, StepStream, FeedbackInvariant, PTL DEF Spec, StreamSpec, Stream!Spec
====
