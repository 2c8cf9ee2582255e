------------------------------ MODULE DiskPipe ------------------------------
(***************************************************************************)
(* What the ring buffer and the disk thread of a Tsunami client promise to *)
(* the receive loop: a bounded first-in first-out pipe to the file.  The   *)
(* receive loop puts blocks in until it closes the pipe or abandons the    *)
(* transfer; every block put into a pipe that is not abandoned is stored   *)
(* once, in order.                                                         *)
(***************************************************************************)
EXTENDS Naturals, Sequences

CONSTANTS Block,     \* the block numbers that can be put in
          Capacity   \* how many blocks the pipe holds

VARIABLES queue,     \* the blocks put in and not stored yet
          stored,    \* the blocks written to the file, in order
          pipe       \* "open", "closed" or "abandoned"

pipeVars == <<queue, stored, pipe>>

Init == queue = <<>> /\ stored = <<>> /\ pipe = "open"

Put(b) ==
  /\ pipe = "open"
  /\ Len(queue) < Capacity
  /\ queue' = Append(queue, b)
  /\ UNCHANGED <<stored, pipe>>

Close ==
  /\ pipe = "open"
  /\ pipe' = "closed"
  /\ UNCHANGED <<queue, stored>>

Abandon ==
  /\ pipe = "open"
  /\ pipe' = "abandoned"
  /\ UNCHANGED <<queue, stored>>

Store ==
  /\ pipe # "abandoned"
  /\ queue # <<>>
  /\ stored' = Append(stored, Head(queue))
  /\ queue' = Tail(queue)
  /\ UNCHANGED pipe

Next == Close \/ Abandon \/ Store \/ \E b \in Block : Put(b)

\* What never happens: a block lost, stored twice or out of order, a full pipe
\* that takes another block, a closed pipe that opens.
SafeSpec == Init /\ [][Next]_pipeVars

Spec == SafeSpec /\ WF_pipeVars(Store)
=============================================================================
