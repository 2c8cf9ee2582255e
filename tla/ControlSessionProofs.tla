------------------------ MODULE ControlSessionProofs ------------------------
(* Proofs about ControlSession, for every environment and bound. *)
EXTENDS ControlSession, SequenceTheorems, TLAPS

-----------------------------------------------------------------------------
(* Queues of messages. *)

Messages(kinds) == [i \in DOMAIN kinds |-> Msg(kinds[i])]

Outgoing == Seq(Message(FromClient))
Incoming == Seq(Message(FromServer))

\* Messages written one after the other are messages of the sender's kinds.
LEMMA MessagesAreTyped ==
  ASSUME NEW K, NEW kinds \in Seq(K)
  PROVE  /\ Messages(kinds) \in Seq(Message(K)) /\ Len(Messages(kinds)) = Len(kinds)
         /\ \A i \in DOMAIN kinds : Messages(kinds)[i].kind = kinds[i]
         /\ \A i \in DOMAIN kinds : Messages(kinds)[i].n = 0
<1>1. /\ Len(kinds) \in Nat /\ DOMAIN kinds = 1 .. Len(kinds)
      /\ \A i \in DOMAIN kinds : kinds[i] \in K
  BY LenProperties, ElementOfSeq
<1>2. \A i \in DOMAIN kinds : Msg(kinds[i]) \in Message(K)
  BY <1>1 DEF Msg, Message
<1>3. Messages(kinds) \in Seq(Message(K)) /\ Len(Messages(kinds)) = Len(kinds)
  BY <1>1, <1>2 DEF Messages
<1>4. QED
  BY <1>3, <1>1 DEF Messages, Msg

\* An empty queue holds nothing, and only an empty queue does.
LEMMA HoldsNothing ==
  ASSUME NEW S, NEW queue \in Seq(S)
  PROVE  Holds(queue, <<>>) <=> queue = <<>>
BY EmptySeq DEF Holds

\* Reading from a queue of known messages.
LEMMA HoldsRead ==
  ASSUME NEW S, NEW queue \in Seq(S), NEW a, NEW b
  PROVE  /\ Holds(queue, <<a>>) => /\ queue # <<>> /\ Head(queue) \in S /\ Head(queue) = queue[1]
                                   /\ Head(queue).kind = a /\ Tail(queue) = <<>>
         /\ Holds(queue, <<a, b>>) => /\ queue # <<>> /\ Head(queue).kind = a
                                      /\ Tail(queue) # <<>> /\ Holds(Tail(queue), <<b>>)
<1>1. ASSUME Holds(queue, <<a>>)
      PROVE  /\ queue # <<>> /\ Head(queue) \in S /\ Head(queue) = queue[1]
             /\ Head(queue).kind = a /\ Tail(queue) = <<>>
  <2>1. Len(queue) = 1 /\ queue[1].kind = a
    BY <1>1 DEF Holds
  <2>2. queue # <<>>
    BY <2>1, EmptySeq
  <2>3. Head(queue) \in S /\ Tail(queue) \in Seq(S) /\ Len(Tail(queue)) = 0
    BY <2>1, <2>2, HeadTailProperties
  <2>4. Head(queue) = queue[1]
    BY <2>1, <2>2
  <2>5. Tail(queue) = <<>>
    BY <2>3, EmptySeq
  <2>6. QED
    BY <2>1, <2>2, <2>3, <2>4, <2>5
<1>2. ASSUME Holds(queue, <<a, b>>)
      PROVE  /\ queue # <<>> /\ Head(queue).kind = a
             /\ Tail(queue) # <<>> /\ Holds(Tail(queue), <<b>>)
  <2>1. Len(queue) = 2 /\ queue[1].kind = a /\ queue[2].kind = b
    BY <1>2 DEF Holds
  <2>2. queue # <<>>
    BY <2>1, EmptySeq
  <2>3. Tail(queue) \in Seq(S) /\ Len(Tail(queue)) = 1 /\ Tail(queue)[1] = queue[2]
    BY <2>1, <2>2, HeadTailProperties
  <2>4. Holds(Tail(queue), <<b>>)
    BY <2>1, <2>3 DEF Holds
  <2>5. Tail(queue) # <<>>
    BY <2>3, EmptySeq
  <2>6. Head(queue) = queue[1]
    BY <2>1, <2>2
  <2>7. QED
    BY <2>1, <2>2, <2>4, <2>5, <2>6
<1>3. QED BY <1>1, <1>2

\* Writing after what a queue holds.
LEMMA HoldsWrite ==
  ASSUME NEW S, NEW queue \in Seq(S), NEW new \in Seq(S), NEW K, NEW kinds \in Seq(K),
         NEW more \in Seq(K), Holds(queue, kinds), Holds(new, more)
  PROVE  Holds(queue \o new, kinds \o more)
<1> DEFINE all == queue \o new
           both == kinds \o more
<1>1. /\ all \in Seq(S) /\ Len(all) = Len(queue) + Len(new)
      /\ \A i \in 1 .. Len(queue) + Len(new) :
           all[i] = IF i <= Len(queue) THEN queue[i] ELSE new[i - Len(queue)]
  BY ConcatProperties
<1>2. /\ both \in Seq(K) /\ Len(both) = Len(kinds) + Len(more)
      /\ \A i \in 1 .. Len(kinds) + Len(more) :
           both[i] = IF i <= Len(kinds) THEN kinds[i] ELSE more[i - Len(kinds)]
  BY ConcatProperties
<1> HIDE DEF all, both
<1>3. /\ Len(queue) \in Nat /\ Len(new) \in Nat /\ Len(queue) = Len(kinds) /\ Len(new) = Len(more)
      /\ DOMAIN kinds = 1 .. Len(kinds) /\ DOMAIN more = 1 .. Len(more)
      /\ DOMAIN both = 1 .. Len(kinds) + Len(more)
      /\ \A i \in 1 .. Len(queue) : queue[i].kind = kinds[i]
      /\ \A i \in 1 .. Len(new) : new[i].kind = more[i]
  BY <1>2, LenProperties DEF Holds
<1>4. ASSUME NEW i \in 1 .. Len(kinds) + Len(more) PROVE all[i].kind = both[i]
  <2>1. CASE i <= Len(queue)
    <3>1. i \in 1 .. Len(queue)
      BY <1>3, <2>1
    <3>2. all[i] = queue[i] /\ both[i] = kinds[i]
      BY <1>1, <1>2, <1>3, <2>1
    <3>3. QED BY <1>3, <3>1, <3>2
  <2>2. CASE i > Len(queue)
    <3>1. i - Len(queue) \in 1 .. Len(new)
      BY <1>3, <2>2
    <3>2. all[i] = new[i - Len(queue)] /\ both[i] = more[i - Len(queue)]
      BY <1>1, <1>2, <1>3, <2>2
    <3>3. QED BY <1>3, <3>1, <3>2
  <2>3. QED BY <1>3, <2>1, <2>2
<1>5. Holds(all, both)
  BY <1>1, <1>2, <1>3, <1>4 DEF Holds
<1>6. QED
  BY <1>5 DEF all, both

\* A stream of feedback requests is written to, and read from.
LEMMA StreamWrite ==
  ASSUME NEW S, NEW queue \in Seq(S), NEW new \in Seq(S), NEW K, NEW rest \in Seq(K),
         NEW first \in Seq(K), NEW more \in Seq(K), Holds(new, more), Stream(queue, first, rest)
  PROVE  Stream(queue \o new, first, rest \o more)
<1> DEFINE all == queue \o new
           end == rest \o more
<1>1. /\ all \in Seq(S) /\ Len(all) = Len(queue) + Len(new)
      /\ \A i \in 1 .. Len(queue) + Len(new) :
           all[i] = IF i <= Len(queue) THEN queue[i] ELSE new[i - Len(queue)]
  BY ConcatProperties
<1>2. /\ end \in Seq(K) /\ Len(end) = Len(rest) + Len(more)
      /\ \A i \in 1 .. Len(rest) + Len(more) :
           end[i] = IF i <= Len(rest) THEN rest[i] ELSE more[i - Len(rest)]
  BY ConcatProperties
<1> HIDE DEF all, end
<1>3. /\ Len(queue) \in Nat /\ Len(new) \in Nat /\ Len(rest) \in Nat /\ Len(first) \in Nat
      /\ Len(new) = Len(more) /\ Len(queue) >= Len(first) + Len(rest)
      /\ DOMAIN first = 1 .. Len(first) /\ DOMAIN rest = 1 .. Len(rest)
      /\ DOMAIN more = 1 .. Len(more) /\ DOMAIN end = 1 .. Len(rest) + Len(more)
      /\ \A i \in 1 .. Len(new) : new[i].kind = more[i]
  BY <1>2, LenProperties DEF Holds, Stream
<1>4. Len(all) >= Len(first) + Len(end)
  BY <1>1, <1>2, <1>3
<1>5. ASSUME NEW i \in DOMAIN first PROVE all[i].kind = first[i]
  <2>1. i \in 1 .. Len(queue) + Len(new) /\ i <= Len(queue)
    BY <1>3
  <2>2. queue[i].kind = first[i]
    BY DEF Stream
  <2>3. QED BY <1>1, <2>1, <2>2
<1>6. ASSUME NEW i \in Len(first) + 1 .. Len(all) - Len(end) PROVE all[i].kind = "feedback"
  <2>1. i \in Len(first) + 1 .. Len(queue) - Len(rest) /\ Len(all) - Len(end) <= Len(queue)
    BY <1>1, <1>2, <1>3
  <2>2. queue[i].kind = "feedback"
    BY <2>1 DEF Stream
  <2>3. i \in 1 .. Len(queue) + Len(new) /\ i <= Len(queue)
    BY <1>3, <2>1
  <2>4. QED BY <1>1, <2>2, <2>3
<1>7. ASSUME NEW i \in 1 .. Len(rest) + Len(more)
      PROVE  all[Len(all) - Len(end) + i].kind = end[i]
  <2> DEFINE j == Len(queue) - Len(rest) + i
  <2>1. Len(all) - Len(end) + i = j /\ j \in 1 .. Len(queue) + Len(new)
    BY <1>1, <1>2, <1>3
  <2>2. CASE i <= Len(rest)
    <3>1. i \in DOMAIN rest /\ j <= Len(queue)
      BY <1>3, <2>2
    <3>2. queue[j].kind = rest[i]
      BY <3>1 DEF Stream
    <3> HIDE DEF j
    <3>3. all[j] = queue[j] /\ end[i] = rest[i]
      BY <1>1, <1>2, <2>1, <2>2, <3>1
    <3>4. QED BY <2>1, <3>2, <3>3
  <2>3. CASE i > Len(rest)
    <3>1. /\ ~ (j <= Len(queue)) /\ ~ (i <= Len(rest))
          /\ j - Len(queue) = i - Len(rest) /\ i - Len(rest) \in 1 .. Len(new)
      BY <1>3, <2>3
    <3> HIDE DEF j
    <3>2. all[j] = new[j - Len(queue)]
      BY <1>1, <2>1, <3>1, Zenon
    <3>3. end[i] = more[i - Len(rest)]
      BY <1>2, <3>1, Zenon
    <3>4. new[i - Len(rest)].kind = more[i - Len(rest)]
      BY <1>3, <3>1
    <3>5. QED BY <2>1, <3>1, <3>2, <3>3, <3>4
  <2>4. QED BY <1>3, <2>2, <2>3
<1>8. Stream(all, first, end)
  <2>1. \A i \in DOMAIN end : all[Len(all) - Len(end) + i].kind = end[i]
    BY <1>3, <1>7
  <2>2. QED BY <1>4, <1>5, <1>6, <2>1, Zenon DEF Stream
<1>9. QED
  BY <1>8 DEF all, end

\* What comes first in a stream, and what is left of it.
LEMMA StreamRead ==
  ASSUME NEW S, NEW queue \in Seq(S), NEW K, NEW rest \in Seq(K)
  PROVE  /\ Stream(queue, <<"port">>, rest) => /\ queue # <<>> /\ Head(queue).kind = "port"
                                               /\ Stream(Tail(queue), <<>>, rest)
         /\ Stream(queue, <<>>, rest) =>
              \/ Holds(queue, rest)
              \/ queue # <<>> /\ Head(queue).kind = "feedback" /\ Stream(Tail(queue), <<>>, rest)
<1>1. Len(queue) \in Nat /\ Len(rest) \in Nat /\ DOMAIN rest = 1 .. Len(rest)
  BY LenProperties
<1>2. ASSUME NEW first, first \in {<<>>, <<"port">>}, Stream(queue, first, rest), Len(queue) > Len(rest)
      PROVE  /\ queue # <<>> /\ Head(queue) = queue[1]
             /\ Stream(Tail(queue), <<>>, rest)
  <2>1. queue # <<>>
    BY <1>1, <1>2, EmptySeq
  <2> DEFINE tail == Tail(queue)
  <2>2. /\ tail \in Seq(S) /\ Len(tail) = Len(queue) - 1
        /\ \A i \in 1 .. Len(tail) : tail[i] = queue[i + 1]
    BY <2>1, HeadTailProperties
  <2>3. Head(queue) = queue[1]
    BY <2>1
  <2>4. \A i \in 2 .. Len(queue) - Len(rest) : queue[i].kind = "feedback"
    <3>1. CASE first = <<>>
      BY <1>1, <1>2, <3>1 DEF Stream
    <3>2. CASE first = <<"port">>
      BY <1>1, <1>2, <3>2 DEF Stream
    <3>3. QED BY <1>2, <3>1, <3>2
  <2> HIDE DEF tail
  <2>5. ASSUME NEW i \in 1 .. Len(tail) - Len(rest) PROVE tail[i].kind = "feedback"
    <3>1. i + 1 \in 2 .. Len(queue) - Len(rest) /\ i \in 1 .. Len(tail)
      BY <1>1, <2>2
    <3>2. queue[i + 1].kind = "feedback"
      BY <2>4, <3>1
    <3>3. QED BY <2>2, <3>1, <3>2
  <2>6. ASSUME NEW i \in DOMAIN rest PROVE tail[Len(tail) - Len(rest) + i].kind = rest[i]
    <3>1. /\ Len(tail) - Len(rest) + i \in 1 .. Len(tail)
          /\ Len(tail) - Len(rest) + i + 1 = Len(queue) - Len(rest) + i
      BY <1>1, <1>2, <2>2
    <3>2. queue[Len(queue) - Len(rest) + i].kind = rest[i]
      BY <1>2 DEF Stream
    <3>3. QED BY <2>2, <3>1, <3>2
  <2>7. Len(tail) >= Len(rest)
    BY <1>1, <1>2, <2>2
  <2>8. Stream(tail, <<>>, rest)
    BY <1>1, <2>2, <2>5, <2>6, <2>7 DEF Stream
  <2>9. QED
    BY <2>1, <2>3, <2>8 DEF tail
<1>3. ASSUME Stream(queue, <<"port">>, rest)
      PROVE  queue # <<>> /\ Head(queue).kind = "port" /\ Stream(Tail(queue), <<>>, rest)
  <2>1. Len(queue) > Len(rest) /\ queue[1].kind = "port"
    BY <1>1, <1>3 DEF Stream
  <2>2. QED BY <1>2, <1>3, <2>1
<1>4. ASSUME Stream(queue, <<>>, rest), Len(queue) = Len(rest) PROVE Holds(queue, rest)
  BY <1>1, <1>4 DEF Stream, Holds
<1>5. ASSUME Stream(queue, <<>>, rest), Len(queue) > Len(rest)
      PROVE  queue # <<>> /\ Head(queue).kind = "feedback" /\ Stream(Tail(queue), <<>>, rest)
  <2>1. queue[1].kind = "feedback"
    BY <1>1, <1>5 DEF Stream
  <2>2. QED BY <1>2, <1>5, <2>1
<1>6. Stream(queue, <<>>, rest) => Len(queue) >= Len(rest)
  BY <1>1 DEF Stream
<1>7. QED
  BY <1>1, <1>3, <1>4, <1>5, <1>6

\* A stream may consist of nothing but its ends.
LEMMA StreamStarts ==
  ASSUME NEW S, NEW queue \in Seq(S)
  PROVE  /\ Holds(queue, <<"port">>) => Stream(queue, <<"port">>, <<>>)
BY DEF Stream, Holds

\* The sequences of kinds that the invariant names.
LEMMA Concatenations ==
  ASSUME NEW K, NEW a \in K, NEW b \in K
  PROVE  /\ <<>> \o <<>> = <<>> /\ <<>> \o <<a>> = <<a>> /\ <<a>> \o <<>> = <<a>>
         /\ <<a>> \o <<b>> = <<a, b>>
         /\ <<>> \in Seq(K) /\ <<a>> \in Seq(K) /\ <<a, b>> \in Seq(K)
         /\ Append(<<>>, a) = <<a>>
<1>1. <<>> \o <<>> = <<>> /\ <<>> \o <<a>> = <<a>> /\ <<a>> \o <<>> = <<a>>
  BY ConcatEmptySeq
<1>2. <<a>> \o <<b>> = <<a, b>>
  <2>1. <<a>> \o <<b>> \in Seq(K) /\ Len(<<a>> \o <<b>>) = 2
    BY ConcatProperties
  <2>2. (<<a>> \o <<b>>)[1] = a /\ (<<a>> \o <<b>>)[2] = b
    BY ConcatProperties
  <2> DEFINE both == <<a>> \o <<b>>
             pair == <<a, b>>
  <2>3. both \in Seq(K) /\ Len(both) = 2 /\ both[1] = a /\ both[2] = b
    BY <2>1, <2>2
  <2>4. pair \in Seq(K) /\ Len(pair) = 2 /\ pair[1] = a /\ pair[2] = b
    OBVIOUS
  <2> HIDE DEF both, pair
  <2>5. both = pair
    BY <2>3, <2>4, SeqEqual
  <2>6. QED BY <2>5 DEF both, pair
<1>3. <<>> \in Seq(K) /\ <<a>> \in Seq(K) /\ <<a, b>> \in Seq(K)
  OBVIOUS
<1>4. Append(<<>>, a) = <<a>>
  BY <1>1, <1>3, AppendIsConcat
<1>5. QED BY <1>1, <1>2, <1>3, <1>4

\* A queue of one message.
LEMMA HoldsOne ==
  ASSUME NEW message
  PROVE  Holds(<<message>>, <<message.kind>>)
BY DEF Holds

-----------------------------------------------------------------------------
(* Types. *)

\* A client that names files has one to name, and the counts of a server that
\* have not been read are within what it shares.
TypeInv ==
  /\ TypeOK
  /\ client \in {"names", "result", "reply", "receiving"} => left >= 1
  /\ \A i \in DOMAIN toClient : toClient[i].n <= env.files

States == {"revision", "challenge", "verdict", "listing", "counts", "signal", "names", "result",
           "reply", "prompt", "receiving", "closed"}

ServerStates == {"revision", "digest", "list read", "got size", "got list", "parameters", "port",
                 "command", "name", "sending", "new", "exited"}

\* The states of each side by name.
LEMMA StatesAreNamed ==
  /\ DOMAIN ClientExpects \cup {"prompt", "receiving", "closed"} = States
  /\ DOMAIN ServerExpects \cup {"new", "exited"} = ServerStates
BY DEF ClientExpects, ServerExpects, States, ServerStates

\* What the type invariant says, without the tables.
LEMMA TypeFacts ==
  ASSUME TypeInv
  PROVE  /\ env \in ENVIRONMENTS /\ env \in Environment
         /\ env.files \in Nat /\ env.hook \in BOOLEAN
         /\ same \subseteq {"revision", "secret"}
         /\ client \in States /\ server \in ServerStates
         /\ toServer \in Outgoing /\ buffered \in Outgoing /\ toClient \in Incoming
         /\ left \in 0 .. env.files + 1 /\ count \in 0 .. env.files
         /\ conn \in {"open", "eof", "reset", "gone"}
         /\ client \in {"names", "result", "reply", "receiving"} => left >= 1
         /\ \A i \in DOMAIN toClient : toClient[i].n <= env.files
<1>1. env \in Environment
  BY ControlAssumption DEF TypeInv, TypeOK
<1>2. env.files \in Nat /\ env.hook \in BOOLEAN
  BY <1>1 DEF Environment
<1>3. QED
  BY <1>1, <1>2, StatesAreNamed DEF TypeInv, TypeOK, Outgoing, Incoming

\* A flush writes the buffer and the messages after it.
LEMMA FlushWrites ==
  ASSUME TypeInv, NEW kinds \in Seq(FromClient), Flush(kinds)
  PROVE  /\ toServer' \in Outgoing /\ buffered' = <<>> /\ buffered' \in Outgoing
         /\ server # "exited" => toServer' = unread \o Messages(kinds)
         /\ Messages(kinds) \in Outgoing /\ unread \in Outgoing
<1>1. toServer \in Outgoing /\ buffered \in Outgoing
  BY TypeFacts
<1>2. Messages(kinds) \in Outgoing
  BY MessagesAreTyped DEF Outgoing
<1>3. unread \in Outgoing
  BY <1>1, ConcatProperties DEF unread, Outgoing
<1>4. unread \o Messages(kinds) \in Outgoing
  BY <1>2, <1>3, ConcatProperties DEF Outgoing
<1>5. buffered' = <<>> /\ <<>> \in Outgoing
  BY DEF Flush, Outgoing
<1>6. toServer' = IF ServerGone THEN toServer ELSE unread \o Messages(kinds)
  BY DEF Flush, unread, Messages
<1>7. QED
  BY <1>1, <1>2, <1>3, <1>4, <1>5, <1>6 DEF ServerGone

\* Reading takes the first message.
LEMMA ClientReadsOne ==
  ASSUME TypeInv, NEW kind, ClientReads(kind)
  PROVE  /\ toClient # <<>> /\ Head(toClient).kind = kind /\ toClient' = Tail(toClient)
         /\ toClient' \in Incoming
         /\ Head(toClient) \in Message(FromServer) /\ Head(toClient) = toClient[1]
         /\ Head(toClient).n \in 0 .. env.files
         /\ \A i \in DOMAIN toClient' : toClient'[i].n <= env.files
         /\ 1 \in DOMAIN toClient
         /\ \A i \in DOMAIN toClient' : \E j \in DOMAIN toClient : toClient'[i] = toClient[j]
<1>1. toClient \in Incoming /\ toClient # <<>> /\ toClient' = Tail(toClient) /\ Head(toClient).kind = kind
  BY TypeFacts DEF ClientReads
<1>2. /\ Head(toClient) \in Message(FromServer) /\ toClient' \in Incoming
      /\ Len(toClient') = Len(toClient) - 1 /\ Len(toClient) \in Nat
      /\ DOMAIN toClient = 1 .. Len(toClient) /\ DOMAIN toClient' = 1 .. Len(toClient')
      /\ \A i \in 1 .. Len(toClient') : toClient'[i] = toClient[i + 1]
  BY <1>1, HeadTailProperties, LenProperties DEF Incoming
<1>3. Head(toClient) = toClient[1] /\ 1 \in DOMAIN toClient
  BY <1>1, <1>2, EmptySeq DEF Incoming
<1>4. Head(toClient).n \in Nat
  BY <1>2 DEF Message
<1>5. Head(toClient).n <= env.files /\ env.files \in Nat
  BY <1>3, TypeFacts
<1>6. \A i \in DOMAIN toClient' : toClient'[i].n <= env.files
  <2> SUFFICES ASSUME NEW i \in DOMAIN toClient' PROVE toClient'[i].n <= env.files
    OBVIOUS
  <2>1. i + 1 \in DOMAIN toClient /\ toClient'[i] = toClient[i + 1]
    BY <1>2
  <2>2. QED BY <2>1, TypeFacts
<1>7. \A i \in DOMAIN toClient' : \E j \in DOMAIN toClient : toClient'[i] = toClient[j]
  <2> SUFFICES ASSUME NEW i \in DOMAIN toClient'
               PROVE  \E j \in DOMAIN toClient : toClient'[i] = toClient[j]
    OBVIOUS
  <2>1. i + 1 \in DOMAIN toClient /\ toClient'[i] = toClient[i + 1]
    BY <1>2
  <2>2. QED BY <2>1
<1>8. QED
  BY <1>1, <1>2, <1>3, <1>4, <1>5, <1>6, <1>7

\* Reading changes what the server sees of the connection only after the error,
\* and never opens or closes it.
LEMMA SeenFacts ==
  ASSUME TypeInv
  PROVE  /\ seen \in {"open", "eof", "reset", "gone"}
         /\ seen = "open" <=> conn = "open"
         /\ toServer # <<>> => seen = conn
BY TypeFacts DEF seen

\* A step in which the server writes nothing.
LEMMA SilentFacts ==
  ASSUME TypeInv, NEW state, Silent(state)
  PROVE  /\ server' = state /\ UNCHANGED toClient
         /\ conn' \in {"open", "eof", "reset", "gone"}
         /\ conn' = "open" <=> conn = "open"
         /\ toServer # <<>> => UNCHANGED conn
BY SeenFacts DEF Silent

\* Writing appends a message, unless the connection is gone.
LEMMA ServerWritesOne ==
  ASSUME TypeInv, NEW message \in Message(FromServer), message.n <= env.files, NEW state,
         WriteAndGo(message, state)
  PROVE  /\ toClient' \in Incoming
         /\ \A i \in DOMAIN toClient' : toClient'[i].n <= env.files
         /\ conn' \in {"open", "eof", "reset", "gone"}
         /\ server' \in {state, "exited"}
         /\ conn = "open" => server' = state /\ conn' = "open" /\ toClient' = Append(toClient, message)
         /\ conn # "open" => conn' # "open" /\ toClient' = toClient
         /\ \A i \in DOMAIN toClient' :
              toClient'[i] = message \/ \E j \in DOMAIN toClient : toClient'[i] = toClient[j]
<1>1. toClient \in Incoming /\ conn \in {"open", "eof", "reset", "gone"}
  BY TypeFacts
<1>2. /\ Append(toClient, message) \in Incoming
      /\ Len(Append(toClient, message)) = Len(toClient) + 1 /\ Len(toClient) \in Nat
      /\ \A i \in 1 .. Len(toClient) : Append(toClient, message)[i] = toClient[i]
      /\ Append(toClient, message)[Len(toClient) + 1] = message
      /\ DOMAIN toClient = 1 .. Len(toClient)
      /\ DOMAIN Append(toClient, message) = 1 .. Len(toClient) + 1
  BY <1>1, AppendProperties, LenProperties DEF Incoming
<1>3. \A i \in DOMAIN Append(toClient, message) : Append(toClient, message)[i].n <= env.files
  BY <1>2, TypeFacts
<1>4. ASSUME NEW i \in DOMAIN Append(toClient, message)
      PROVE  \/ Append(toClient, message)[i] = message
             \/ \E j \in DOMAIN toClient : Append(toClient, message)[i] = toClient[j]
  <2>1. CASE i = Len(toClient) + 1
    BY <1>2, <2>1
  <2>2. CASE i # Len(toClient) + 1
    BY <1>2, <2>2
  <2>3. QED BY <2>1, <2>2
<1>5. \A i \in DOMAIN toClient' :
         toClient'[i] = message \/ \E j \in DOMAIN toClient : toClient'[i] = toClient[j]
  <2>1. toClient' = Append(toClient, message) \/ toClient' = toClient
    BY DEF WriteAndGo
  <2>2. QED BY <1>4, <2>1
<1>6. QED
  <2>1. CASE conn = "open"
    <3>1. server' = state /\ conn' = "open" /\ toClient' = Append(toClient, message)
      BY <2>1, SeenFacts DEF WriteAndGo
    <3>2. QED BY <1>1, <1>2, <1>3, <1>5, <2>1, <3>1
  <2>2. CASE conn # "open"
    <3>1. /\ server' \in {state, "exited"} /\ UNCHANGED toClient
          /\ conn' \in {"eof", "gone"}
      BY <2>2, SeenFacts DEF WriteAndGo
    <3>2. QED BY <1>1, <1>5, <2>2, <3>1, TypeFacts
  <2>3. QED BY <2>1, <2>2

\* A message without a number.
LEMMA PlainMessage ==
  ASSUME TypeInv, NEW K, NEW kind \in K
  PROVE  Msg(kind) \in Message(K) /\ Msg(kind).kind = kind /\ Msg(kind).n <= env.files
BY TypeFacts DEF Msg, Message

\* The same for a message without a number.
LEMMA ServerWrites ==
  ASSUME TypeInv, NEW kind \in FromServer, NEW state, Write(kind, state)
  PROVE  /\ toClient' \in Incoming
         /\ \A i \in DOMAIN toClient' : toClient'[i].n <= env.files
         /\ conn' \in {"open", "eof", "reset", "gone"}
         /\ server' \in {state, "exited"}
         /\ conn = "open" =>
              server' = state /\ conn' = "open" /\ toClient' = Append(toClient, Msg(kind))
         /\ conn # "open" => conn' # "open" /\ toClient' = toClient
         /\ \A i \in DOMAIN toClient' :
              \/ toClient'[i].kind = kind
              \/ \E j \in DOMAIN toClient : toClient'[i] = toClient[j]
<1>1. Msg(kind).kind = kind /\ Msg(kind) \in Message(FromServer) /\ Msg(kind).n <= env.files
  BY PlainMessage
<1>2. QED
  BY <1>1, ServerWritesOne DEF Write

\* Reading takes the first message, if there is one.
LEMMA ServerReadsOne ==
  ASSUME TypeInv, NEW kind, FullRead(kind) \/ Arrived(kind) \/ ReadLine(kind)
  PROVE  /\ toServer' \in Outgoing
         /\ \/ toServer # <<>> /\ Head(toServer).kind = kind /\ toServer' = Tail(toServer)
            \/ toServer = <<>> /\ toServer' = <<>> /\ conn = "reset"
BY TypeFacts, HeadTailProperties DEF FullRead, Arrived, ReadLine, Outgoing

\* What a step has to keep for the types to hold after it.
LEMMA TypeFolds ==
  ASSUME TypeInv, UNCHANGED <<env, same>>,
         client' \in States, server' \in ServerStates,
         toServer' \in Outgoing, buffered' \in Outgoing, toClient' \in Incoming,
         left' \in 0 .. env.files + 1, count' \in 0 .. env.files,
         conn' \in {"open", "eof", "reset", "gone"},
         client' \in {"names", "result", "reply", "receiving"} => left' >= 1,
         \A i \in DOMAIN toClient' : toClient'[i].n <= env.files
  PROVE  TypeInv'
<1>1. StatesAreNamed!1' /\ StatesAreNamed!2'
  BY StatesAreNamed
<1>2. QED
  BY <1>1, TypeFacts DEF TypeInv, TypeOK, Outgoing, Incoming

\* The counters of "get *" stay within what the server shares.
LEMMA CountersInRange ==
  ASSUME TypeInv
  PROVE  /\ Get => left' = 1 /\ left' \in 0 .. env.files + 1
         /\ ReadCounts => /\ left' \in 0 .. env.files + 1
                          /\ client' = (IF left' = 0 THEN "signal" ELSE "names")
                          /\ client' = "names" => left' >= 1
         /\ FinishFile => /\ left' \in 0 .. env.files + 1 /\ client' \in {"result", "prompt"}
                          /\ client' = "result" => left' >= 1
         /\ SendCounts => count' \in 0 .. env.files /\ count' \in Nat /\ count' <= env.files
<1>1. /\ env.files \in Nat /\ left \in 0 .. env.files + 1
      /\ client = "receiving" => left >= 1
  BY TypeFacts
<1>2. Get => left' = 1 /\ left' \in 0 .. env.files + 1
  BY <1>1 DEF Get
<1>3. ASSUME ReadCounts
      PROVE  /\ left' \in 0 .. env.files + 1
             /\ client' = (IF left' = 0 THEN "signal" ELSE "names")
             /\ client' = "names" => left' >= 1
  <2>1. left' \in 0 .. env.files /\ client' = (IF left' = 0 THEN "signal" ELSE "names")
    BY <1>3, ClientReadsOne DEF ReadCounts, Go
  <2>2. QED BY <1>1, <2>1
<1>4. FinishFile => /\ left' \in 0 .. env.files + 1 /\ client' \in {"result", "prompt"}
                    /\ client' = "result" => left' >= 1
  BY <1>1 DEF FinishFile, Go
<1>5. ASSUME SendCounts PROVE count' \in 0 .. env.files
  <2>1. count' \in IF env.hook THEN 0 .. env.files ELSE {env.files}
    BY <1>5, Zenon DEF SendCounts
  <2>2. CASE env.hook
    BY <2>1, <2>2
  <2>3. CASE ~env.hook
    BY <1>1, <2>1, <2>3
  <2>4. QED BY <2>2, <2>3
<1>6. QED BY <1>1, <1>2, <1>3, <1>4, <1>5

\* The client keeps the types, action by action.
LEMMA ClientKeepsTypes ==
  ASSUME TypeInv, Client
  PROVE  TypeInv'
<1> USE TypeFacts DEF ServerUntouched, Go, States
<1>1. <<>> \in Outgoing /\ <<>> \in Incoming /\ \A i \in DOMAIN <<>> : <<>>[i].n <= env.files
  BY DEF Outgoing, Incoming
<1>2. CASE Dir
  <2>1. <<"dir">> \in Seq(FromClient)
    BY DEF FromClient, Lines
  <2>2. QED BY <1>2, <2>1, FlushWrites, TypeFolds DEF Dir
<1>3. CASE Get
  <2>1. <<"file">> \in Seq(FromClient)
    BY DEF FromClient, Lines
  <2>2. left' = 1 /\ left' \in 0 .. env.files + 1
    BY <1>3, CountersInRange
  <2>3. toServer' \in Outgoing /\ buffered' \in Outgoing
    BY <1>3, <2>1, FlushWrites DEF Get
  <2>4. client' = "result" /\ UNCHANGED <<env, same, server, count, conn, toClient>>
    BY <1>3 DEF Get
  <2>5. QED BY <2>2, <2>3, <2>4, TypeFolds
<1>4. CASE GetAll
  <2>1. <<"all">> \in Seq(FromClient)
    BY DEF FromClient, Lines
  <2>2. QED BY <1>4, <2>1, FlushWrites, TypeFolds DEF GetAll
<1>5. CASE Close
  <2>1. <<>> \in Seq(FromClient)
    OBVIOUS
  <2>2. QED BY <1>1, <1>5, <2>1, FlushWrites, TypeFolds DEF Close, Disconnect
<1>6. CASE Negotiate
  BY <1>6, ClientReadsOne, TypeFolds DEF Negotiate
<1>7. CASE Prove
  <2>1. <<"digest">> \in Seq(FromClient)
    BY DEF FromClient
  <2>2. QED BY <1>7, <2>1, FlushWrites, ClientReadsOne, TypeFolds DEF Prove
<1>8. CASE Verdict
  BY <1>8, ClientReadsOne, TypeFolds DEF Verdict
<1>9. CASE ReadListing
  <2>1. buffered' \in Outgoing
    <3>1. Msg("list read") \in Message(FromClient)
      BY PlainMessage DEF FromClient
    <3>2. QED BY <1>9, <3>1, AppendProperties DEF ReadListing, Buffer, Outgoing
  <2>2. QED BY <1>9, <2>1, ClientReadsOne, TypeFolds DEF ReadListing
<1>10. CASE ReadCounts
  <2>1. <<"got size">> \in Seq(FromClient)
    BY DEF FromClient
  <2>2. left' \in 0 .. env.files + 1 /\ client' \in {"names", "signal"} /\ (client' = "names" => left' >= 1)
    BY <1>10, CountersInRange
  <2>4. toClient' \in Incoming /\ \A i \in DOMAIN toClient' : toClient'[i].n <= env.files
    BY <1>10, ClientReadsOne DEF ReadCounts
  <2>5. toServer' \in Outgoing /\ buffered' \in Outgoing
    BY <1>10, <2>1, FlushWrites DEF ReadCounts
  <2>6. UNCHANGED <<env, same, server, count, conn>>
    BY <1>10 DEF ReadCounts
  <2>7. QED BY <2>2, <2>4, <2>5, <2>6, TypeFolds
<1>11. CASE ReadSignal
  BY <1>11, ClientReadsOne, TypeFolds DEF ReadSignal
<1>12. CASE ReadNames
  <2>1. <<"got list", "file">> \in Seq(FromClient)
    BY DEF FromClient, Lines
  <2>2. QED BY <1>12, <2>1, FlushWrites, ClientReadsOne, TypeFolds DEF ReadNames
<1>13. CASE ReadResult
  <2>1. <<"parameters">> \in Seq(FromClient)
    BY DEF FromClient
  <2>2. QED BY <1>13, <2>1, FlushWrites, ClientReadsOne, TypeFolds DEF ReadResult
<1>14. CASE ReadReply
  <2>1. <<"port">> \in Seq(FromClient)
    BY DEF FromClient
  <2>2. QED BY <1>14, <2>1, FlushWrites, ClientReadsOne, TypeFolds DEF ReadReply
<1>15. CASE FinishFile
  <2>1. <<"stop">> \in Seq(FromClient) /\ <<"stop", "file">> \in Seq(FromClient)
    BY DEF FromClient, Lines, Requests
  <2>2. left' \in 0 .. env.files + 1 /\ client' \in {"result", "prompt"} /\ (client' = "result" => left' >= 1)
    BY <1>15, CountersInRange
  <2>3. toServer' \in Outgoing /\ buffered' \in Outgoing
    BY <1>15, <2>1, FlushWrites DEF FinishFile
  <2>4. UNCHANGED <<env, same, server, count, conn, toClient>>
    BY <1>15 DEF FinishFile
  <2>5. QED BY <2>2, <2>3, <2>4, TypeFolds
<1>16. CASE ClientEof
  BY <1>16, TypeFolds DEF ClientEof, Connecting, Waiting
<1>17. CASE Feedback
  <2>1. <<"feedback">> \in Seq(FromClient)
    BY DEF FromClient, Requests
  <2>2. QED BY <1>17, <2>1, FlushWrites, TypeFolds DEF Feedback
<1>18. CASE AbortTransfer
  BY <1>18, TypeFolds DEF AbortTransfer
<1>19. CASE Crash
  BY <1>1, <1>19, TypeFolds DEF Crash, Disconnect
<1>20. QED
  BY <1>2, <1>3, <1>4, <1>5, <1>6, <1>7, <1>8, <1>9, <1>10, <1>11, <1>12, <1>13, <1>14, <1>15,
     <1>16, <1>17, <1>18, <1>19 DEF Client, ClientProceeds

\* The server keeps the types, action by action.
LEMMA ServerKeepsTypes ==
  ASSUME TypeInv, Server
  PROVE  TypeInv'
<1> USE TypeFacts, SilentFacts DEF ClientUntouched, ServerStates
<1>1. CASE SendRevision
  BY <1>1, ServerWrites, TypeFolds DEF SendRevision, FromServer
<1>2. CASE CheckRevision
  BY <1>2, ServerReadsOne, ServerWrites, TypeFolds DEF CheckRevision, FromServer
<1>3. CASE CheckDigest
  BY <1>3, ServerReadsOne, ServerWrites, TypeFolds DEF CheckDigest, FromServer
<1>4. CASE NamesFile
  BY <1>4, ServerReadsOne, ServerWrites, TypeFolds DEF NamesFile, OpenFile, FromServer
<1>5. CASE ListFiles
  BY <1>5, ServerReadsOne, ServerWrites, TypeFolds DEF ListFiles, FromServer
<1>6. CASE EndListing
  BY <1>6, ServerReadsOne, TypeFolds DEF EndListing
<1>7. CASE SendCounts
  <2> DEFINE counts == [kind |-> "counts", n |-> count']
  <2>1. count' \in 0 .. env.files /\ count' \in Nat /\ count' <= env.files
    BY <1>7, CountersInRange
  <2>2. counts \in Message(FromServer) /\ counts.n <= env.files
    <3>1. "counts" \in FromServer
      BY DEF FromServer
    <3>2. QED BY <2>1, <3>1 DEF Message
  <2>3. WriteAndGo(counts, "got size")
    BY <1>7 DEF SendCounts
  <2> HIDE DEF counts
  <2>4. /\ toClient' \in Incoming /\ server' \in {"got size", "exited"}
        /\ \A i \in DOMAIN toClient' : toClient'[i].n <= env.files
        /\ conn' \in {"open", "eof", "reset", "gone"}
    BY <2>2, <2>3, ServerWritesOne
  <2>5. QED BY <1>7, <2>1, <2>4, ServerReadsOne, TypeFolds DEF SendCounts
<1>8. CASE SendNames
  BY <1>8, ServerReadsOne, ServerWrites, TypeFolds DEF SendNames, FromServer
<1>9. CASE EndNames
  BY <1>9, ServerReadsOne, TypeFolds DEF EndNames
<1>10. CASE LineFails
  BY <1>10, TypeFolds DEF LineFails
<1>11. CASE SendReply
  BY <1>11, ServerReadsOne, ServerWrites, TypeFolds DEF SendReply, FromServer
<1>16. CASE LoseParameters
  BY <1>16, TypeFolds DEF LoseParameters
<1>12. CASE OpenPort
  BY <1>12, ServerReadsOne, TypeFolds DEF OpenPort
<1>13. CASE TakeRequest
  <2>1. toServer' \in Outgoing
    BY <1>13, HeadTailProperties DEF TakeRequest, Outgoing
  <2>2. QED BY <1>13, <2>1, TypeFolds DEF TakeRequest
<1>14. CASE NoticeEof \/ HeartbeatTimeout \/ Killed
  BY <1>14, TypeFolds DEF NoticeEof, HeartbeatTimeout, Killed
<1>15. QED
  BY <1>1, <1>2, <1>3, <1>4, <1>5, <1>6, <1>7, <1>8, <1>9, <1>10, <1>11, <1>12, <1>13, <1>14,
     <1>16
  DEF Server, ServerProceeds

\* The types hold in every state of every session.
THEOREM SessionTyped == Spec => []TypeInv
<1>1. Init => TypeInv
  <2> SUFFICES ASSUME Init PROVE TypeInv
    OBVIOUS
  <2>1. env \in Environment
    BY ControlAssumption DEF Init
  <2>2. env.files \in Nat
    BY <2>1 DEF Environment
  <2>3. Msg("revision") \in Message(FromClient)
    BY DEF Msg, Message, FromClient
  <2>4. client \in States /\ server \in ServerStates /\ client = "revision"
    BY DEF Init, States, ServerStates
  <2>5. toServer \in Outgoing /\ buffered \in Outgoing /\ toClient \in Incoming /\ toClient = <<>>
    BY <2>3 DEF Init, Outgoing, Incoming
  <2>6. left \in 0 .. env.files + 1 /\ count \in 0 .. env.files /\ conn \in {"open", "eof", "reset", "gone"}
    BY <2>2 DEF Init
  <2>7. TypeOK
    BY <2>4, <2>5, <2>6, StatesAreNamed DEF Init, TypeOK, Outgoing, Incoming
  <2>8. QED
    BY <2>4, <2>5, <2>7 DEF TypeInv
<1>2. TypeInv /\ [Next]_vars => TypeInv'
  <2> SUFFICES ASSUME TypeInv, [Next]_vars PROVE TypeInv'
    OBVIOUS
  <2>1. CASE UNCHANGED vars
    BY <2>1 DEF vars, TypeInv, TypeOK, ClientExpects, ServerExpects
  <2>2. QED
    BY <2>1, ClientKeepsTypes, ServerKeepsTypes DEF Next, Ended
<1>3. QED
  BY <1>1, <1>2, PTL DEF Spec

-----------------------------------------------------------------------------
(* Only accepted clients are served. *)

\* The server asks for the secret only when the revision is right, and grants
\* access only to the client that has both.
AcceptInv ==
  /\ OnlyAcceptedClients
  /\ server = "digest" => "revision" \in same
  /\ \A i \in DOMAIN toClient : toClient[i].kind = "granted" => {"revision", "secret"} \subseteq same

\* The client believes it is accepted only when it reads that it is.
LEMMA ClientKeepsAccept ==
  ASSUME TypeInv, AcceptInv, Client
  PROVE  AcceptInv'
<1> USE DEF Connecting, Go, ServerUntouched
<1>1. UNCHANGED <<same, server>>
  BY DEF Client, ClientProceeds, Dir, Get, GetAll, Close, Disconnect, Negotiate, Prove, Verdict, ReadListing,
    ReadCounts, ReadSignal, ReadNames, ReadResult, ReadReply, FinishFile, ClientEof, Feedback,
    AbortTransfer, Crash
<1>2. \A i \in DOMAIN toClient' : \E j \in DOMAIN toClient : toClient'[i] = toClient[j]
  <2>1. \/ UNCHANGED toClient \/ toClient' = <<>>
        \/ \E kind \in FromServer : ClientReads(kind)
    BY DEF Client, ClientProceeds, Dir, Get, GetAll, Close, Disconnect, Negotiate, Prove, Verdict,
      ReadListing, ReadCounts, ReadSignal, ReadNames, ReadResult, ReadReply, FinishFile, ClientEof,
      Feedback, AbortTransfer, Crash, FromServer
  <2>2. QED BY <2>1, ClientReadsOne
<1>3. \A i \in DOMAIN toClient' :
        toClient'[i].kind = "granted" => {"revision", "secret"} \subseteq same'
  BY <1>1, <1>2 DEF AcceptInv
<1>4. client' \in Connecting \cup {"closed"} \/ {"revision", "secret"} \subseteq same
  <2>1. ASSUME client \in Connecting \cup {"closed"}
        PROVE  client' \in Connecting \cup {"closed"} \/ {"revision", "secret"} \subseteq same
    <3>1. CASE Verdict
      <4>1. CASE ClientReads("granted")
        BY <4>1, ClientReadsOne DEF AcceptInv
      <4>2. QED BY <3>1, <4>1 DEF Verdict
    <3>2. CASE ~Verdict
      BY <2>1, <3>2 DEF Client, ClientProceeds, Dir, Get, GetAll, Close, Disconnect, Negotiate, Prove,
        ReadListing, ReadCounts, ReadSignal, ReadNames, ReadResult, ReadReply, FinishFile, ClientEof,
        Feedback, AbortTransfer, Crash, Waiting
    <3>3. QED BY <3>1, <3>2
  <2>2. QED BY <2>1 DEF AcceptInv, OnlyAcceptedClients
<1>5. QED
  BY <1>1, <1>3, <1>4 DEF AcceptInv, OnlyAcceptedClients

\* The server accepts a client only when it has checked the digest.
LEMMA ServerKeepsAccept ==
  ASSUME TypeInv, AcceptInv, Server
  PROVE  AcceptInv'
<1> DEFINE Good == {"revision", "secret"} \subseteq same
<1>1. UNCHANGED <<same, client>>
  BY DEF Server, ServerProceeds, SendRevision, CheckRevision, CheckDigest, NamesFile, ListFiles,
    EndListing, SendCounts, SendNames, EndNames, LineFails, SendReply, LoseParameters, OpenPort, TakeRequest, NoticeEof,
    HeartbeatTimeout, Killed, ClientUntouched
<1>2. /\ Good \/ server' \in {"new", "revision", "digest", "exited"}
      /\ server' = "digest" => "revision" \in same
  BY DEF AcceptInv, OnlyAcceptedClients, Server, ServerProceeds, SendRevision, CheckRevision,
    CheckDigest, NamesFile, OpenFile, ListFiles, EndListing, SendCounts, SendNames, EndNames, LineFails,
    SendReply, LoseParameters, OpenPort, TakeRequest, NoticeEof, HeartbeatTimeout, Killed, Write, WriteAndGo, Silent
<1>3. ASSUME NEW i \in DOMAIN toClient', toClient'[i].kind = "granted"
      PROVE  Good
  <2>1. CASE UNCHANGED toClient
    BY <1>3, <2>1 DEF AcceptInv
  <2>2. CASE CheckDigest /\ "secret" \in same
    BY <2>2 DEF AcceptInv, CheckDigest
  <2>3. CASE SendCounts
    <3>1. [kind |-> "counts", n |-> count'] \in Message(FromServer) /\ count' <= env.files
      BY <2>3, CountersInRange DEF Message, FromServer
    <3>2. WriteAndGo([kind |-> "counts", n |-> count'], "got size")
      BY <2>3 DEF SendCounts
    <3> DEFINE counts == [kind |-> "counts", n |-> count']
    <3>3. counts.kind = "counts" /\ counts.n = count'
      OBVIOUS
    <3> HIDE DEF counts
    <3>4. toClient'[i] = counts \/ \E j \in DOMAIN toClient : toClient'[i] = toClient[j]
      BY <3>1, <3>2, <3>3, ServerWritesOne DEF counts
    <3>5. QED BY <1>3, <3>3, <3>4 DEF AcceptInv
  <2>4. CASE \E kind \in FromServer \ {"granted"} : \E state : Write(kind, state)
    BY <1>3, <2>4, ServerWrites DEF AcceptInv
  <2> DEFINE Says == \E kind \in FromServer \ {"granted"} : \E state : Write(kind, state)
  <2>5. SendRevision \/ ListFiles \/ SendReply => Says
    BY DEF SendRevision, ListFiles, SendReply, FromServer
  <2>6. NamesFile => Says
    BY DEF NamesFile, OpenFile, FromServer
  <2>7. CheckRevision => Says \/ UNCHANGED toClient
    BY DEF CheckRevision, Silent, FromServer
  <2>8. SendNames => Says \/ UNCHANGED toClient
    BY DEF SendNames, Silent, FromServer
  <2>9. CheckDigest => Says \/ "secret" \in same
    BY DEF CheckDigest, FromServer
  <2>10. \/ EndListing \/ EndNames \/ LineFails \/ LoseParameters \/ OpenPort \/ TakeRequest
         \/ NoticeEof \/ HeartbeatTimeout \/ Killed
         => UNCHANGED toClient
    BY DEF EndListing, EndNames, LineFails, LoseParameters, OpenPort, TakeRequest, NoticeEof, HeartbeatTimeout, Killed, Silent
  <2>11. QED
    BY <2>1, <2>2, <2>3, <2>4, <2>5, <2>6, <2>7, <2>8, <2>9, <2>10 DEF Server, ServerProceeds
<1>4. QED
  BY <1>1, <1>2, <1>3 DEF AcceptInv, OnlyAcceptedClients

\* Only a client with the right revision and secret is ever answered, and a
\* client that believes it is connected has been accepted.
THEOREM AcceptedClients == Spec => []OnlyAcceptedClients
<1>1. Init => AcceptInv
  BY DEF Init, AcceptInv, OnlyAcceptedClients, Connecting
<1>2. TypeInv /\ AcceptInv /\ [Next]_vars => AcceptInv'
  <2> SUFFICES ASSUME TypeInv, AcceptInv, [Next]_vars PROVE AcceptInv'
    OBVIOUS
  <2>1. CASE UNCHANGED vars
    BY <2>1 DEF vars, AcceptInv, OnlyAcceptedClients
  <2>2. QED
    BY <2>1, ClientKeepsAccept, ServerKeepsAccept DEF Next, Ended
<1>3. AcceptInv => OnlyAcceptedClients
  BY DEF AcceptInv
<1>4. QED
  BY <1>1, <1>2, <1>3, SessionTyped, PTL DEF Spec

-----------------------------------------------------------------------------
(* The two sides agree. *)

\* The faults that one side does not tell the other.
Untold == {"transfer aborted", "local file", "heartbeat"}

BothRun == client # "closed" /\ server # "exited" /\ conn = "open" /\ Together

\* What the client has written and the server not read.
LEMMA UnreadFacts ==
  ASSUME TypeInv
  PROVE  /\ unread \in Outgoing
         /\ buffered = <<>> => unread = toServer
         /\ toServer = <<>> => unread = buffered
BY TypeFacts, ConcatProperties, ConcatEmptySeq DEF unread, Outgoing

\* What the client reads when it knows what comes.
LEMMA ClientHears ==
  ASSUME TypeInv, NEW kind, ClientReads(kind)
  PROVE  /\ ~Holds(toClient, <<>>) /\ toClient # <<>>
         /\ \A a : Holds(toClient, <<a>>) =>
                     a = kind /\ toClient' = <<>> /\ Holds(toClient', <<>>)
         /\ \A a, b : Holds(toClient, <<a, b>>) => a = kind /\ Holds(toClient', <<b>>)
<1>1. /\ toClient \in Incoming /\ toClient' \in Incoming /\ toClient # <<>>
      /\ toClient' = Tail(toClient) /\ Head(toClient).kind = kind
  BY TypeFacts, ClientReadsOne
<1>2. ~Holds(toClient, <<>>)
  BY <1>1, HoldsNothing DEF Incoming
<1>3. ASSUME NEW a, Holds(toClient, <<a>>)
      PROVE  a = kind /\ toClient' = <<>> /\ Holds(toClient', <<>>)
  <2>1. a = kind /\ toClient' = <<>>
    BY <1>1, <1>3, HoldsRead DEF Incoming
  <2>2. QED BY <1>1, <2>1, HoldsNothing DEF Incoming
<1>4. ASSUME NEW a, NEW b, Holds(toClient, <<a, b>>)
      PROVE  a = kind /\ Holds(toClient', <<b>>)
  BY <1>1, <1>4, HoldsRead DEF Incoming
<1>5. QED BY <1>1, <1>2, <1>3, <1>4

\* What the server reads when it knows what comes, as long as there is a client.
LEMMA ServerHears ==
  ASSUME TypeInv, BufferInv, conn # "reset", UNCHANGED <<client, buffered>>,
         NEW kind, FullRead(kind) \/ Arrived(kind) \/ ReadLine(kind)
  PROVE  /\ BufferInv' /\ ~Holds(unread, <<>>) /\ buffered = <<>>
         /\ \A a : Holds(unread, <<a>>) =>
                     a = kind /\ Holds(unread', <<>>) /\ toServer' = <<>>
         /\ \A a, b : Holds(unread, <<a, b>>) => a = kind /\ Holds(unread', <<b>>)
         /\ \A rest \in Seq(FromClient) :
              Stream(unread, <<"port">>, rest) => kind = "port" /\ Stream(unread', <<>>, rest)
<1>1. /\ toServer # <<>> /\ Head(toServer).kind = kind /\ toServer' = Tail(toServer)
      /\ toServer' \in Outgoing
  BY ServerReadsOne
<1>2. buffered = <<>> /\ BufferInv'
  BY <1>1 DEF BufferInv
<1>3. unread = toServer /\ unread \in Outgoing
  BY <1>2, UnreadFacts
<1>4. unread' = toServer'
  BY <1>1, <1>2, ConcatEmptySeq DEF unread, Outgoing
<1>5. /\ ~Holds(unread, <<>>)
      /\ \A a : Holds(unread, <<a>>) => a = kind /\ unread' = <<>>
      /\ \A a, b : Holds(unread, <<a, b>>) => a = kind /\ Holds(unread', <<b>>)
  BY <1>1, <1>3, <1>4, HoldsNothing, HoldsRead DEF Outgoing
<1>6. unread' = <<>> => Holds(unread', <<>>)
  BY <1>1, <1>4, HoldsNothing DEF Outgoing
<1>7. \A rest \in Seq(FromClient) :
        Stream(unread, <<"port">>, rest) => kind = "port" /\ Stream(unread', <<>>, rest)
  BY <1>1, <1>3, <1>4, StreamRead DEF Outgoing
<1>8. QED BY <1>2, <1>4, <1>5, <1>6, <1>7

\* What the client finds after the server has written.
LEMMA ServerSays ==
  ASSUME TypeInv, NEW kind \in FromServer, NEW state, Write(kind, state), conn = "open"
  PROVE  /\ server' = state /\ conn' = "open"
         /\ Holds(toClient, <<>>) => Holds(toClient', <<kind>>)
         /\ \A a \in FromServer : Holds(toClient, <<a>>) => Holds(toClient', <<a, kind>>)
<1>1. /\ server' = state /\ conn' = "open" /\ toClient' = Append(toClient, Msg(kind))
      /\ toClient \in Seq(Message(FromServer))
  BY ServerWrites, TypeFacts DEF Incoming
<1>2. Msg(kind) \in Message(FromServer) /\ << Msg(kind) >> \in Seq(Message(FromServer))
  BY PlainMessage
<1>3. toClient' = toClient \o << Msg(kind) >>
  BY <1>1, <1>2, AppendIsConcat
<1> DEFINE new == << Msg(kind) >>
           more == <<kind>>
<1>4. Holds(new, more)
  BY DEF Holds, Msg
<1>5. more \in Seq(FromServer) /\ <<>> \in Seq(FromServer)
  OBVIOUS
<1>6. new \in Seq(Message(FromServer)) /\ toClient' = toClient \o new
  BY <1>2, <1>3
<1> HIDE DEF new, more
<1>7. ASSUME NEW kinds \in Seq(FromServer), Holds(toClient, kinds)
      PROVE  Holds(toClient', kinds \o more)
  <2>1. Holds(toClient \o new, kinds \o more)
    BY <1>1, <1>4, <1>5, <1>6, <1>7, HoldsWrite
  <2>2. QED BY <1>6, <2>1
<1>8. Holds(toClient, <<>>) => Holds(toClient', <<kind>>)
  <2>1. Holds(toClient, <<>>) => Holds(toClient', <<>> \o more)
    BY <1>5, <1>7
  <2>2. <<>> \o more = <<kind>>
    BY Concatenations DEF more
  <2>3. QED BY <2>1, <2>2
<1>9. ASSUME NEW a \in FromServer, Holds(toClient, <<a>>) PROVE Holds(toClient', <<a, kind>>)
  <2>1. <<a>> \in Seq(FromServer)
    OBVIOUS
  <2>2. Holds(toClient', <<a>> \o more)
    BY <1>7, <1>9, <2>1
  <2>3. <<a>> \o more = <<a, kind>>
    BY Concatenations DEF more
  <2>4. QED BY <2>2, <2>3
<1>10. QED BY <1>1, <1>8, <1>9

\* What the server finds after the client has flushed.
LEMMA ClientSays ==
  ASSUME TypeInv, server # "exited", NEW more \in Seq(FromClient), Flush(more)
  PROVE  /\ buffered' = <<>> /\ BufferInv' /\ unread' = toServer'
         /\ \A kinds \in Seq(FromClient) : Holds(unread, kinds) => Holds(unread', kinds \o more)
         /\ \A first, rest \in Seq(FromClient) :
              Stream(unread, first, rest) => Stream(unread', first, rest \o more)
<1>1. /\ toServer' \in Outgoing /\ buffered' = <<>> /\ toServer' = unread \o Messages(more)
      /\ Messages(more) \in Seq(Message(FromClient)) /\ unread \in Seq(Message(FromClient))
  BY FlushWrites DEF Outgoing
<1>2. unread' = toServer'
  BY <1>1, ConcatEmptySeq DEF unread, Outgoing
<1>3. Holds(Messages(more), more)
  BY MessagesAreTyped DEF Holds
<1>4. ASSUME NEW kinds \in Seq(FromClient), Holds(unread, kinds)
      PROVE  Holds(unread', kinds \o more)
  BY <1>1, <1>2, <1>3, <1>4, HoldsWrite
<1>5. ASSUME NEW first \in Seq(FromClient), NEW rest \in Seq(FromClient), Stream(unread, first, rest)
      PROVE  Stream(unread', first, rest \o more)
  BY <1>1, <1>2, <1>3, <1>5, StreamWrite
<1>6. QED BY <1>1, <1>2, <1>4, <1>5 DEF BufferInv

\* The kinds of messages, one by one.
LEMMA Kinds ==
  /\ Lines = {"dir", "all", "file"} /\ Lines \subseteq FromClient
  /\ {"revision", "digest", "list read", "got size", "got list", "parameters", "port", "feedback",
      "stop"} \subseteq FromClient
  /\ {"revision", "challenge", "granted", "denied", "listing", "counts", "names", "accepted",
      "refused", "reply"} = FromServer
BY DEF Lines, FromClient, FromServer, Requests

\* The sequences of kinds that are written.
LEMMA Sequences ==
  /\ <<>> \in Seq(FromClient) /\ <<"port">> \in Seq(FromClient) /\ <<"stop">> \in Seq(FromClient)
  /\ <<"list read">> \in Seq(FromClient) /\ <<"feedback">> \in Seq(FromClient)
  /\ <<"stop", "file">> \in Seq(FromClient) /\ <<"got list", "file">> \in Seq(FromClient)
  /\ <<"list read">> \o <<>> = <<"list read">> /\ <<"stop">> \o <<>> = <<"stop">>
  /\ \A line \in Lines :
       /\ <<line>> \in Seq(FromClient) /\ <<>> \o <<line>> = <<line>>
       /\ <<"stop", line>> \in Seq(FromClient) /\ <<"list read", line>> \in Seq(FromClient)
       /\ <<"stop">> \o <<line>> = <<"stop", line>>
       /\ <<"list read">> \o <<line>> = <<"list read", line>>
<1>1. /\ "port" \in FromClient /\ "stop" \in FromClient /\ "list read" \in FromClient
      /\ "got list" \in FromClient /\ "file" \in FromClient /\ "feedback" \in FromClient
      /\ \A line \in Lines : line \in FromClient
  BY Kinds
<1>2. /\ <<>> \in Seq(FromClient) /\ <<"port">> \in Seq(FromClient) /\ <<"stop">> \in Seq(FromClient)
      /\ <<"list read">> \in Seq(FromClient) /\ <<"feedback">> \in Seq(FromClient)
      /\ <<"stop", "file">> \in Seq(FromClient) /\ <<"got list", "file">> \in Seq(FromClient)
  BY <1>1, Concatenations
<1>3. <<"list read">> \o <<>> = <<"list read">> /\ <<"stop">> \o <<>> = <<"stop">>
  BY <1>1, Concatenations
<1>4. ASSUME NEW line \in Lines
      PROVE  /\ <<line>> \in Seq(FromClient) /\ <<>> \o <<line>> = <<line>>
             /\ <<"stop", line>> \in Seq(FromClient) /\ <<"list read", line>> \in Seq(FromClient)
             /\ <<"stop">> \o <<line>> = <<"stop", line>>
             /\ <<"list read">> \o <<line>> = <<"list read", line>>
  <2>1. line \in FromClient
    BY <1>1
  <2>2. /\ <<line>> \in Seq(FromClient)
        /\ <<"stop", line>> \in Seq(FromClient) /\ <<"list read", line>> \in Seq(FromClient)
    BY <1>1, <2>1, Concatenations
  <2>3. <<>> \o <<line>> = <<line>>
    BY <2>1, Concatenations
  <2>4. <<"stop">> \o <<line>> = <<"stop", line>>
    BY <1>1, <2>1, Concatenations
  <2>5. <<"list read">> \o <<line>> = <<"list read", line>>
    BY <1>1, <2>1, Concatenations
  <2>6. QED BY <2>2, <2>3, <2>4, <2>5
<1>5. QED BY <1>2, <1>3, <1>4

\* The message that waits in the buffer.
LEMMA BufferedMessage ==
  ASSUME TypeInv
  PROVE  /\ << Msg("list read") >> \in Outgoing /\ Holds(<< Msg("list read") >>, <<"list read">>)
         /\ Append(<<>>, Msg("list read")) = << Msg("list read") >>
<1>1. Msg("list read") \in Message(FromClient) /\ Msg("list read").kind = "list read"
  <2>1. "list read" \in FromClient
    BY Kinds
  <2>2. QED BY <2>1, PlainMessage
<1> DEFINE m == Msg("list read")
<1>2. m \in Message(FromClient) /\ m.kind = "list read"
  BY <1>1
<1> HIDE DEF m
<1>3. <<m>> \in Seq(Message(FromClient)) /\ Append(<<>>, m) = <<m>>
  BY <1>2, Concatenations
<1>4. Holds(<<m>>, <<"list read">>)
  BY <1>2, HoldsOne
<1>5. QED BY <1>3, <1>4 DEF m, Outgoing

\* A command that is written while the server is still behind.
LEMMA CommandQueues ==
  ASSUME TypeInv, Behind("prompt", <<>>), server # "exited", NEW line \in Lines, NEW state,
         Flush(<<line>>), client' = state, UNCHANGED <<server, toClient>>
  PROVE  Behind(state, <<line>>)' /\ BufferInv'
<1> DEFINE more == <<line>>
<1>1. /\ more \in Seq(FromClient) /\ <<>> \in Seq(FromClient) /\ <<"port">> \in Seq(FromClient)
      /\ <<"list read">> \in Seq(FromClient) /\ <<"stop">> \in Seq(FromClient)
  BY Sequences
<1>2. /\ <<>> \o more = more
      /\ <<"list read">> \o <<>> = <<"list read">> /\ <<"stop">> \o <<>> = <<"stop">>
  BY Sequences
<1> HIDE DEF more
<1>3. /\ BufferInv'
      /\ \A kinds \in Seq(FromClient) : Holds(unread, kinds) => Holds(unread', kinds \o more)
      /\ \A first, rest \in Seq(FromClient) :
           Stream(unread, first, rest) => Stream(unread', first, rest \o more)
  BY <1>1, ClientSays DEF more
<1>4. /\ Holds(unread, <<>>) => Holds(unread', more)
      /\ Holds(unread, <<"list read">> \o <<>>) => Holds(unread', <<"list read">> \o more)
      /\ Stream(unread, <<>>, <<"stop">> \o <<>>) => Stream(unread', <<>>, <<"stop">> \o more)
      /\ Stream(unread, <<"port">>, <<"stop">> \o <<>>) => Stream(unread', <<"port">>, <<"stop">> \o more)
  BY <1>1, <1>2, <1>3
<1>5. Behind(state, more)'
  BY <1>4 DEF Behind
<1>6. QED BY <1>3, <1>5 DEF more

\* A message written to a server that waits for it.
LEMMA AnswerQueues ==
  ASSUME TypeInv, server # "exited", Holds(unread, <<>>), NEW kind \in FromClient, Flush(<<kind>>)
  PROVE  Holds(unread', <<kind>>) /\ BufferInv' /\ unread' = toServer'
<1>1. <<kind>> \in Seq(FromClient) /\ <<>> \in Seq(FromClient)
  OBVIOUS
<1>2. <<>> \o <<kind>> = <<kind>>
  BY Concatenations
<1>3. QED BY <1>1, <1>2, ClientSays

\* A request written into a stream of them.
LEMMA FeedbackQueues ==
  ASSUME TypeInv, server # "exited", Flush(<<"feedback">>)
  PROVE  /\ BufferInv'
         /\ \A first \in {<<>>, <<"port">>} :
              Stream(unread, first, <<>>) => Stream(unread', first, <<>>)
<1> DEFINE more == <<"feedback">>
<1>1. /\ more \in Seq(FromClient) /\ <<>> \in Seq(FromClient) /\ <<"port">> \in Seq(FromClient)
      /\ <<>> \o more = more
  BY Sequences, ConcatEmptySeq
<1>2. more[1] = "feedback" /\ Len(more) = 1 /\ Flush(more) /\ DOMAIN more = 1 .. 1
  OBVIOUS
<1> HIDE DEF more
<1>3. BufferInv'
  BY <1>1, <1>2, ClientSays
<1>4. ASSUME NEW first \in {<<>>, <<"port">>}, Stream(unread, first, <<>>)
      PROVE  Stream(unread', first, <<>>)
  <2>1. Stream(unread', first, more)
    BY <1>1, <1>2, <1>4, ClientSays
  <2>2. Len(first) \in Nat /\ Len(unread') \in Nat
    <3>1. first \in Seq(FromClient)
      BY <1>1
    <3>2. unread' = toServer' /\ toServer' \in Seq(Message(FromClient))
      BY <1>1, <1>2, ClientSays, FlushWrites DEF Outgoing
    <3>3. QED BY <3>1, <3>2, LenProperties
  <2>3. /\ \A i \in Len(first) + 1 .. Len(unread') - 1 : unread'[i].kind = "feedback"
        /\ unread'[Len(unread')].kind = "feedback"
    BY <1>2, <2>1, <2>2 DEF Stream
  <2>4. \A i \in Len(first) + 1 .. Len(unread') : unread'[i].kind = "feedback"
    BY <2>2, <2>3
  <2>5. QED BY <1>2, <2>1, <2>2, <2>4 DEF Stream
<1>5. QED BY <1>3, <1>4

\* The client's commands and answers while both sides run.
LEMMA ClientStaysInStep ==
  ASSUME TypeInv, BothRun, env.faults \cap Untold = {}, Client, client' # "closed"
  PROVE  BothRun'
<1> USE DEF ServerUntouched, Go
<1>1. Together /\ BufferInv /\ client # "closed" /\ server # "exited" /\ conn = "open"
  BY DEF BothRun, Together
<1>2. toClient \in Incoming /\ (toClient = <<>> <=> Holds(toClient, <<>>))
  BY TypeFacts, HoldsNothing DEF Incoming
<1> SUFFICES Together' /\ UNCHANGED <<server, conn>>
  BY <1>1 DEF BothRun
<1> USE DEF At
<1>3. CASE Dir
  <2>1. Behind("prompt", <<>>)
    BY <1>1, <1>3 DEF Dir, Together, Handshake, FileNames, Opening, Receiving, Behind
  <2>2. Behind("listing", <<"dir">>)' /\ BufferInv'
    BY <1>1, <1>3, <2>1, CommandQueues DEF Dir, Lines
  <2>3. QED BY <1>3, <2>2 DEF Dir, Together
<1>4. CASE Get
  <2>1. Behind("prompt", <<>>)
    BY <1>1, <1>4 DEF Get, Together, Handshake, FileNames, Opening, Receiving, Behind
  <2>2. Behind("result", <<"file">>)' /\ BufferInv'
    BY <1>1, <1>4, <2>1, CommandQueues DEF Get, Lines
  <2>3. QED BY <1>4, <2>2 DEF Get, Together
<1>5. CASE GetAll
  <2>1. Behind("prompt", <<>>)
    BY <1>1, <1>5 DEF GetAll, Together, Handshake, FileNames, Opening, Receiving, Behind
  <2>2. Behind("counts", <<"all">>)' /\ BufferInv'
    BY <1>1, <1>5, <2>1, CommandQueues DEF GetAll, Lines
  <2>3. QED BY <1>5, <2>2 DEF GetAll, Together
<1>6. CASE Negotiate
  <2>1. /\ Handshake /\ client = "revision" /\ UNCHANGED <<toServer, buffered, same>>
        /\ UNCHANGED conn /\ client' = "challenge" /\ "revision" \in same
        /\ UNCHANGED <<server, unread>> /\ ClientReads("revision")
    BY <1>1, <1>6 DEF Negotiate, Together, Handshake, FileNames, Opening, Receiving, Behind, unread
  <2>2. BufferInv'
    BY <1>1, <2>1 DEF BufferInv
  <2>3. Handshake'
    BY <2>1, ClientHears DEF Handshake
  <2>4. QED BY <2>1, <2>2, <2>3 DEF Together
<1>7. CASE Prove
  <2>1. /\ \/ At("challenge", "revision", <<"revision">>, <<>>)
           \/ At("challenge", "digest", <<>>, <<"challenge">>)
        /\ "revision" \in same /\ ClientReads("challenge")
    BY <1>1, <1>7 DEF Prove, Together, Handshake, FileNames, Opening, Receiving, Behind
  <2>2. At("challenge", "digest", <<>>, <<"challenge">>) /\ Holds(toClient', <<>>)
    BY <2>1, ClientHears
  <2>3. Holds(unread', <<"digest">>) /\ BufferInv'
    BY <1>1, <1>7, <2>2, AnswerQueues, Kinds DEF Prove
  <2>4. Handshake'
    BY <1>7, <2>1, <2>2, <2>3 DEF Handshake, Prove
  <2>5. QED BY <1>7, <2>3, <2>4 DEF Together, Prove
<1>8. CASE Verdict
  <2>1. /\ \/ At("verdict", "digest", <<"digest">>, <<>>)
           \/ At("verdict", "command", <<>>, <<"granted">>)
        /\ ClientReads("granted") /\ client' = "prompt"
        /\ UNCHANGED <<toServer, buffered, conn, server>>
    BY <1>1, <1>8 DEF Verdict, Together, Handshake, FileNames, Opening, Receiving, Behind
  <2>2. At("verdict", "command", <<>>, <<"granted">>) /\ toClient' = <<>> /\ UNCHANGED unread
    BY <2>1, ClientHears DEF unread
  <2>3. Behind("prompt", <<>>)' /\ BufferInv'
    BY <1>1, <2>1, <2>2 DEF Behind, BufferInv
  <2>4. QED BY <2>1, <2>3 DEF Together
<1>9. CASE ReadListing
  <2>1. /\ \/ At("listing", "list read", <<>>, <<"listing">>) \/ Behind("listing", <<"dir">>)
        /\ ClientReads("listing") /\ client' = "prompt" /\ buffered' = Append(buffered, Msg("list read"))
        /\ UNCHANGED <<toServer, conn, server>>
    BY <1>1, <1>9 DEF ReadListing, Buffer, Together, Handshake, FileNames, Opening, Receiving, Behind
  <2>2. /\ At("listing", "list read", <<>>, <<"listing">>) /\ toClient' = <<>>
    BY <2>1, <1>2, ClientHears DEF Behind
  <2>3. unread = <<>> /\ buffered = <<>> /\ toServer = <<>>
    BY <1>1, <2>2, UnreadFacts, HoldsNothing DEF BufferInv, Outgoing
  <2>4. buffered' = << Msg("list read") >> /\ toServer' = <<>> /\ BufferInv'
    BY <2>1, <2>3, BufferedMessage DEF BufferInv
  <2>5. unread' = << Msg("list read") >>
    BY <2>4, BufferedMessage, ConcatEmptySeq DEF unread, Outgoing
  <2>6. Holds(unread', <<"list read">>)
    BY <2>5, BufferedMessage
  <2>7. <<"list read">> \o <<>> = <<"list read">>
    BY Sequences
  <2>8. Behind("prompt", <<>>)'
    BY <2>1, <2>2, <2>6, <2>7 DEF Behind
  <2>9. QED BY <2>1, <2>4, <2>8 DEF Together
<1>10. CASE ReadCounts
  <2>1. /\ \/ At("counts", "got size", <<>>, <<"counts">>) /\ toClient[1].n = count
           \/ Behind("counts", <<"all">>)
        /\ ClientReads("counts") /\ Flush(<<"got size">>) /\ left' = Head(toClient).n
        /\ client' = (IF left' = 0 THEN "signal" ELSE "names") /\ UNCHANGED <<server, count, conn>>
    BY <1>1, <1>10 DEF ReadCounts, Together, Handshake, FileNames, Opening, Receiving, Behind
  <2>2. At("counts", "got size", <<>>, <<"counts">>) /\ toClient[1].n = count /\ Holds(toClient', <<>>)
    BY <2>1, <1>2, ClientHears DEF Behind
  <2>3. Holds(unread', <<"got size">>) /\ BufferInv'
    BY <1>1, <2>1, <2>2, AnswerQueues, Kinds
  <2>4. left' = count
    BY <2>1, <2>2, ClientReadsOne
  <2>5. count = 0 \/ count > 0
    BY TypeFacts
  <2>6. FileNames'
    BY <2>1, <2>2, <2>3, <2>4, <2>5 DEF FileNames
  <2>7. QED BY <2>1, <2>3, <2>6 DEF Together
<1>11. CASE ReadSignal
  <2>1. /\ \/ At("signal", "got size", <<"got size">>, <<>>) \/ At("signal", "got list", <<>>, <<>>)
           \/ At("signal", "command", <<>>, <<"refused">>)
        /\ ClientReads("refused") /\ client' = "prompt"
        /\ UNCHANGED <<toServer, buffered, conn, server>>
    BY <1>1, <1>11 DEF ReadSignal, Together, Handshake, FileNames, Opening, Receiving, Behind
  <2>2. At("signal", "command", <<>>, <<"refused">>) /\ toClient' = <<>> /\ UNCHANGED unread
    BY <2>1, ClientHears DEF unread
  <2>3. Behind("prompt", <<>>)' /\ BufferInv'
    BY <1>1, <2>1, <2>2 DEF Behind, BufferInv
  <2>4. QED BY <2>1, <2>3 DEF Together
<1>12. CASE ReadNames
  <2>1. /\ \/ At("names", "got size", <<"got size">>, <<>>) \/ At("names", "got list", <<>>, <<"names">>)
        /\ ClientReads("names") /\ client' = "result" /\ Flush(<<"got list", "file">>)
        /\ UNCHANGED <<conn, server>>
    BY <1>1, <1>12 DEF ReadNames, Together, Handshake, FileNames, Opening, Receiving, Behind
  <2>2. At("names", "got list", <<>>, <<"names">>) /\ Holds(toClient', <<>>)
    BY <2>1, ClientHears
  <2> DEFINE more == <<"got list", "file">>
  <2>3. more \in Seq(FromClient) /\ <<>> \in Seq(FromClient)
    BY Sequences
  <2>4. Flush(more)
    BY <2>1
  <2> HIDE DEF more
  <2>5. Holds(unread', <<>> \o more) /\ BufferInv'
    BY <1>1, <2>2, <2>3, <2>4, ClientSays
  <2>6. Holds(unread', <<"got list", "file">>)
    BY <2>3, <2>5, ConcatEmptySeq DEF more
  <2>7. FileNames'
    BY <2>1, <2>2, <2>6 DEF FileNames
  <2>8. QED BY <2>1, <2>5, <2>7 DEF Together
<1>13. CASE ReadResult
  <2>1. /\ \/ At("result", "command", <<>>, <<"refused">>) \/ At("result", "parameters", <<>>, <<"accepted">>)
           \/ client = "result" /\ Holds(toClient, <<>>)
        /\ UNCHANGED <<conn, server>>
    BY <1>1, <1>2, <1>13 DEF ReadResult, Together, Handshake, FileNames, Opening, Receiving, Behind
  <2>2. CASE ClientReads("accepted") /\ client' = "reply" /\ Flush(<<"parameters">>)
    <3>1. At("result", "parameters", <<>>, <<"accepted">>) /\ Holds(toClient', <<>>)
      BY <2>1, <2>2, ClientHears
    <3>2. Holds(unread', <<"parameters">>) /\ BufferInv'
      BY <1>1, <2>2, <3>1, AnswerQueues, Kinds
    <3>3. Opening'
      BY <2>1, <2>2, <3>1, <3>2 DEF Opening
    <3>4. QED BY <2>1, <3>2, <3>3 DEF Together
  <2>3. CASE ClientReads("refused") /\ client' = "prompt" /\ UNCHANGED <<buffered, toServer>>
    <3>1. At("result", "command", <<>>, <<"refused">>) /\ toClient' = <<>> /\ UNCHANGED unread
      BY <2>1, <2>3, ClientHears DEF unread
    <3>2. Behind("prompt", <<>>)' /\ BufferInv'
      BY <1>1, <2>1, <2>3, <3>1 DEF Behind, BufferInv
    <3>3. QED BY <2>1, <3>2 DEF Together
  <2>4. QED BY <1>13, <2>2, <2>3 DEF ReadResult
<1>14. CASE ReadReply
  <2>1. /\ \/ At("reply", "port", <<>>, <<"reply">>) \/ At("reply", "parameters", <<"parameters">>, <<>>)
        /\ ClientReads("reply") /\ client' = "receiving" /\ Flush(<<"port">>) /\ UNCHANGED <<conn, server>>
    BY <1>1, <1>14 DEF ReadReply, Together, Handshake, FileNames, Opening, Receiving, Behind, Untold
  <2>2. At("reply", "port", <<>>, <<"reply">>) /\ toClient' = <<>>
    BY <2>1, ClientHears
  <2>3. Holds(unread', <<"port">>) /\ BufferInv' /\ unread' = toServer'
    BY <1>1, <2>1, <2>2, AnswerQueues, Kinds
  <2>4. <<"port">> \in Seq(FromClient)
    BY Sequences
  <2>5. toServer' \in Seq(Message(FromClient))
    BY <2>1, <2>4, FlushWrites DEF Outgoing
  <2>6. Stream(unread', <<"port">>, <<>>)
    BY <2>3, <2>5, StreamStarts
  <2>7. Receiving'
    BY <2>1, <2>2, <2>6 DEF Receiving
  <2>8. QED BY <2>1, <2>3, <2>7 DEF Together
<1>15. CASE FinishFile
  <2>1. Receiving /\ UNCHANGED <<conn, server, toClient>>
    BY <1>1, <1>15 DEF FinishFile, Together, Handshake, FileNames, Opening, Behind, Receiving
  <2>2. /\ <<>> \in Seq(FromClient) /\ <<"port">> \in Seq(FromClient) /\ <<"stop">> \in Seq(FromClient)
        /\ <<"stop", "file">> \in Seq(FromClient)
    BY Sequences
  <2>3. <<"stop">> \o <<>> = <<"stop">> /\ <<"stop">> \o <<"file">> = <<"stop", "file">>
    BY Sequences, Kinds
  <2>4. ASSUME NEW more \in Seq(FromClient), Flush(more)
        PROVE  /\ BufferInv'
               /\ \/ server = "port"    /\ Stream(unread', <<"port">>, more)
                  \/ server = "sending" /\ Stream(unread', <<>>, more)
    <3>1. <<>> \o more = more
      BY ConcatEmptySeq
    <3>2. QED BY <1>1, <2>1, <2>2, <2>4, <3>1, ClientSays DEF Receiving
  <2>5. CASE client' = "result" /\ Flush(<<"stop", "file">>)
    <3>1. Behind("result", <<"file">>)' /\ BufferInv'
      BY <2>1, <2>2, <2>3, <2>4, <2>5 DEF Behind, Receiving
    <3>2. QED BY <2>1, <3>1 DEF Together
  <2>6. CASE client' = "prompt" /\ Flush(<<"stop">>)
    <3>1. Behind("prompt", <<>>)' /\ BufferInv'
      BY <2>1, <2>2, <2>3, <2>4, <2>6 DEF Behind, Receiving
    <3>2. QED BY <2>1, <3>1 DEF Together
  <2>7. QED BY <1>15, <2>5, <2>6 DEF FinishFile
<1>16. CASE Feedback
  <2>1. Receiving /\ UNCHANGED <<client, conn, server, toClient>> /\ Flush(<<"feedback">>)
    BY <1>1, <1>16 DEF Feedback, Together, Handshake, FileNames, Opening, Behind, Receiving
  <2> DEFINE Next1(first) == Stream(unread, first, <<>>) => Stream(unread', first, <<>>)
  <2>2. BufferInv' /\ Next1(<<>>) /\ Next1(<<"port">>)
    BY <1>1, <2>1, FeedbackQueues
  <2>3. Receiving'
    BY <2>1, <2>2 DEF Receiving
  <2>4. QED BY <2>1, <2>2, <2>3 DEF Together
<1>17. CASE Close \/ Crash
  BY <1>17 DEF Close, Crash, Disconnect
<1>18. CASE ClientEof \/ AbortTransfer
  BY <1>1, <1>18 DEF ClientEof, ServerGone, AbortTransfer, Untold
<1>19. QED
  BY <1>3, <1>4, <1>5, <1>6, <1>7, <1>8, <1>9, <1>10, <1>11, <1>12, <1>13, <1>14, <1>15, <1>16,
     <1>17, <1>18 DEF Client, ClientProceeds

\* The server takes the next request of a transfer.
LEMMA RequestTaken ==
  ASSUME TypeInv, BufferInv, UNCHANGED <<client, buffered>>, toServer # <<>>, toServer' = Tail(toServer)
  PROVE  /\ BufferInv' /\ ~Holds(unread, <<>>)
         /\ \A a : Holds(unread, <<a>>) => Head(toServer).kind = a /\ Holds(unread', <<>>)
         /\ \A a, b : Holds(unread, <<a, b>>) => Head(toServer).kind = a /\ Holds(unread', <<b>>)
         /\ \A rest \in Seq(FromClient) : Stream(unread, <<>>, rest) =>
              \/ Holds(unread, rest)
              \/ Head(toServer).kind = "feedback" /\ Stream(unread', <<>>, rest)
<1>1. buffered = <<>> /\ BufferInv' /\ unread = toServer /\ unread \in Seq(Message(FromClient))
  BY UnreadFacts DEF BufferInv, Outgoing
<1>2. Tail(toServer) \in Seq(Message(FromClient))
  BY <1>1, HeadTailProperties
<1>3. unread' = Tail(unread)
  BY <1>1, <1>2, ConcatEmptySeq DEF unread
<1>4. ~Holds(unread, <<>>) /\ (unread' = <<>> <=> Holds(unread', <<>>))
  <2>1. unread' \in Seq(Message(FromClient)) /\ unread # <<>>
    BY <1>1, <1>2, <1>3
  <2>2. ~Holds(unread, <<>>)
    BY <1>1, <2>1, HoldsNothing
  <2>3. unread' = <<>> <=> Holds(unread', <<>>)
    BY <2>1, HoldsNothing
  <2>4. QED BY <2>2, <2>3
<1>5. /\ \A a : Holds(unread, <<a>>) => Head(toServer).kind = a /\ Holds(unread', <<>>)
      /\ \A a, b : Holds(unread, <<a, b>>) => Head(toServer).kind = a /\ Holds(unread', <<b>>)
  BY <1>1, <1>3, <1>4, HoldsRead
<1>6. \A rest \in Seq(FromClient) : Stream(unread, <<>>, rest) =>
        \/ Holds(unread, rest)
        \/ Head(toServer).kind = "feedback" /\ Stream(unread', <<>>, rest)
  <2> SUFFICES ASSUME NEW rest \in Seq(FromClient), Stream(unread, <<>>, rest)
               PROVE  \/ Holds(unread, rest)
                      \/ Head(unread).kind = "feedback" /\ Stream(Tail(unread), <<>>, rest)
    BY <1>1, <1>3
  <2>1. QED BY <1>1, StreamRead
<1>7. QED BY <1>1, <1>4, <1>5, <1>6

\* What a client may have written while the server is behind.
Commands == {<<>>} \cup { <<line>> : line \in Lines }

\* A server that is behind comes nearer to the last command.
LEMMA ServerCatchesUp ==
  ASSUME TypeInv, BufferInv, conn = "open", NEW state, NEW last \in Commands, Behind(state, last),
         EndListing \/ OpenPort \/ TakeRequest
  PROVE  Behind(state, last)' /\ BufferInv' /\ UNCHANGED <<conn, client>> /\ server' # "exited"
<1> USE DEF ClientUntouched, Silent, seen
<1>1. /\ last \in Seq(FromClient) /\ <<"stop">> \o last \in Seq(FromClient)
      /\ \/ /\ last = <<>> /\ <<"list read">> \o last = <<"list read">>
            /\ <<"stop">> \o last = <<"stop">>
         \/ \E line \in Lines : /\ last = <<line>> /\ <<"list read">> \o last = <<"list read", line>>
                                /\ <<"stop">> \o last = <<"stop", line>>
  BY Sequences DEF Commands
<1>2. UNCHANGED <<conn, client, buffered, toClient>> /\ conn # "reset"
  BY DEF EndListing, OpenPort, TakeRequest
<1> HIDE DEF Commands
<1>3. CASE EndListing
  <2>1. server = "list read" /\ FullRead("list read") /\ server' = "command"
    BY <1>3 DEF EndListing
  <2>2. Holds(unread, <<"list read">> \o last)
    BY <2>1 DEF Behind
  <2>3. /\ BufferInv'
        /\ \A a : Holds(unread, <<a>>) => Holds(unread', <<>>)
        /\ \A a, b : Holds(unread, <<a, b>>) => Holds(unread', <<b>>)
    BY <1>2, <2>1, ServerHears
  <2>4. Holds(unread', last)
    BY <1>1, <2>2, <2>3
  <2>5. QED BY <1>2, <2>1, <2>3, <2>4 DEF Behind
<1>4. CASE OpenPort
  <2>1. server = "port" /\ FullRead("port") /\ server' = "sending"
    BY <1>4 DEF OpenPort
  <2>2. Stream(unread, <<"port">>, <<"stop">> \o last)
    BY <2>1 DEF Behind
  <2>3. Stream(unread', <<>>, <<"stop">> \o last) /\ BufferInv'
    BY <1>1, <1>2, <2>1, <2>2, ServerHears
  <2>4. QED BY <1>2, <2>1, <2>3 DEF Behind
<1>5. CASE TakeRequest
  <2>1. /\ server = "sending" /\ toServer # <<>> /\ toServer' = Tail(toServer)
        /\ \/ Head(toServer).kind = "feedback" /\ server' = "sending"
           \/ Head(toServer).kind = "stop" /\ server' = "command"
    BY <1>5 DEF TakeRequest
  <2>2. Stream(unread, <<>>, <<"stop">> \o last)
    BY <2>1 DEF Behind
  <2>3. /\ BufferInv'
        /\ \/ Holds(unread, <<"stop">> \o last)
           \/ Head(toServer).kind = "feedback" /\ Stream(unread', <<>>, <<"stop">> \o last)
    BY <1>1, <1>2, <2>1, <2>2, RequestTaken
  <2>4. CASE Holds(unread, <<"stop">> \o last)
    <3>1. Head(toServer).kind = "stop" /\ Holds(unread', last)
      BY <1>1, <1>2, <2>1, <2>4, RequestTaken
    <3>2. QED BY <1>2, <2>1, <2>3, <3>1 DEF Behind
  <2>5. CASE Head(toServer).kind = "feedback" /\ Stream(unread', <<>>, <<"stop">> \o last)
    BY <1>2, <2>1, <2>3, <2>5 DEF Behind
  <2>6. QED BY <2>3, <2>4, <2>5
<1>6. QED BY <1>3, <1>4, <1>5

\* The messages that the client expects, state by state.
LEMMA ClientTable ==
  \A state, kind :
    \/ state \in {"revision", "challenge", "listing", "counts", "names", "reply"} /\ kind = state
    \/ state = "verdict" /\ kind \in {"granted", "denied"}
    \/ state = "signal" /\ kind = "refused"
    \/ state = "result" /\ kind \in {"accepted", "refused"}
    <=> state \in DOMAIN ClientExpects /\ kind \in ClientExpects[state]
BY DEF ClientExpects

\* Whatever is on the way to a client that waits for it can be read.
LEMMA RunningIsReadable ==
  ASSUME TypeInv, Together
  PROVE  LeftForClient
<1>1. Holds(toClient, <<>>) => toClient = <<>>
  BY TypeFacts, HoldsNothing DEF Incoming
<1> DEFINE Expected(kind) == client \in DOMAIN ClientExpects /\ kind \in ClientExpects[client]
<1>0. ASSUME NEW kind, Expected(kind), Holds(toClient, <<kind>>) PROVE LeftForClient
  BY <1>0 DEF LeftForClient
<1>2. CASE Handshake
  BY <1>0, <1>1, <1>2, ClientTable DEF LeftForClient, Handshake, At
<1>3. CASE FileNames
  BY <1>0, <1>1, <1>3, ClientTable DEF LeftForClient, FileNames, At
<1>4. CASE Opening
  BY <1>0, <1>1, <1>4, ClientTable DEF LeftForClient, Opening, At
<1>5. CASE At("listing", "list read", <<>>, <<"listing">>)
  BY <1>0, <1>5, ClientTable DEF LeftForClient, At
<1>6. QED
  BY <1>2, <1>3, <1>4, <1>5 DEF LeftForClient, Together, Receiving, Behind

\* The server's answers while both sides run.
LEMMA ServerStaysInStep ==
  ASSUME TypeInv, BothRun, env.faults \cap Untold = {}, Server
  PROVE  BothRun' \/ (client' # "closed" /\ server' = "exited" /\ LeftForClient')
<1> USE DEF ClientUntouched
<1>1. /\ Together /\ BufferInv /\ client # "closed" /\ server # "exited" /\ conn = "open"
      /\ conn # "reset"
  BY DEF BothRun, Together
<1>2. toClient \in Incoming /\ (toClient = <<>> <=> Holds(toClient, <<>>)) /\ LeftForClient
  BY <1>1, TypeFacts, HoldsNothing, RunningIsReadable DEF Incoming
<1>3. UNCHANGED <<client, same, buffered>>
  BY DEF Server, ServerProceeds, SendRevision, CheckRevision, CheckDigest, NamesFile, ListFiles,
    EndListing, SendCounts, SendNames, EndNames, LineFails, SendReply, LoseParameters, OpenPort, TakeRequest, NoticeEof,
    HeartbeatTimeout, Killed
<1>4. ASSUME Together', server' # "exited", conn' = "open" PROVE BothRun'
  BY <1>1, <1>3, <1>4 DEF BothRun
<1>5. ASSUME server' = "exited", UNCHANGED toClient PROVE server' = "exited" /\ LeftForClient'
  BY <1>2, <1>3, <1>5 DEF LeftForClient, ClientExpects
<1> SUFFICES \/ Together' /\ server' # "exited" /\ conn' = "open"
             \/ server' = "exited" /\ UNCHANGED toClient
             \/ server' = "exited" /\ LeftForClient'
  BY <1>1, <1>3, <1>4, <1>5
<1> USE DEF At
<1>6. CASE SendRevision
  <2>1. /\ At("revision", "new", <<"revision">>, <<>>) /\ UNCHANGED toServer
        /\ Write("revision", "revision")
    BY <1>1, <1>6 DEF SendRevision, Together, Handshake, FileNames, Opening, Receiving, Behind
  <2>2. server' = "revision" /\ conn' = "open" /\ Holds(toClient', <<"revision">>)
    BY <1>1, <2>1, ServerSays, Kinds
  <2>3. BufferInv' /\ UNCHANGED unread
    BY <1>1, <1>3, <2>1 DEF BufferInv, unread
  <2>4. Handshake'
    BY <1>3, <2>1, <2>2, <2>3 DEF Handshake
  <2>5. QED BY <2>2, <2>3, <2>4 DEF Together
<1>7. CASE CheckRevision
  <2>1. /\ \/ At("revision", "revision", <<"revision">>, <<"revision">>)
           \/ At("challenge", "revision", <<"revision">>, <<>>)
        /\ FullRead("revision")
        /\ \/ "revision" \in same /\ Write("challenge", "digest")
           \/ "revision" \notin same /\ server' = "exited" /\ UNCHANGED toClient
    BY <1>1, <1>7 DEF CheckRevision, Silent, seen, Together, Handshake, FileNames, Opening, Receiving, Behind
  <2>2. Holds(unread', <<>>) /\ BufferInv'
    BY <1>1, <1>3, <2>1, ServerHears
  <2>3. CASE "revision" \in same /\ Write("challenge", "digest")
    <3>1. /\ server' = "digest" /\ conn' = "open"
          /\ Holds(toClient, <<>>) => Holds(toClient', <<"challenge">>)
          /\ Holds(toClient, <<"revision">>) => Holds(toClient', <<"revision", "challenge">>)
      BY <1>1, <2>3, ServerSays, Kinds
    <3>2. Handshake'
      BY <1>3, <2>1, <2>2, <2>3, <3>1 DEF Handshake
    <3>3. QED BY <2>2, <3>1, <3>2 DEF Together
  <2>4. QED BY <2>1, <2>3
<1>8. CASE CheckDigest
  <2>1. /\ \/ At("revision", "digest", <<>>, <<"revision", "challenge">>)
           \/ At("challenge", "digest", <<>>, <<"challenge">>)
           \/ At("verdict", "digest", <<"digest">>, <<>>) /\ "revision" \in same
        /\ FullRead("digest")
        /\ Write("granted", "command") \/ Write("denied", "exited")
    BY <1>1, <1>8 DEF CheckDigest, Together, Handshake, FileNames, Opening, Receiving, Behind
  <2>2. At("verdict", "digest", <<"digest">>, <<>>) /\ "revision" \in same
    BY <1>1, <1>3, <2>1, ServerHears
  <2>3. Holds(unread', <<>>) /\ BufferInv'
    BY <1>1, <1>3, <2>1, <2>2, ServerHears
  <2>4. CASE Write("granted", "command")
    <3>1. server' = "command" /\ conn' = "open" /\ Holds(toClient', <<"granted">>)
      BY <1>1, <2>2, <2>4, ServerSays, Kinds
    <3>2. Handshake'
      BY <1>3, <2>2, <2>3, <3>1 DEF Handshake
    <3>3. QED BY <2>3, <3>1, <3>2 DEF Together
  <2>5. CASE Write("denied", "exited")
    <3>1. server' = "exited" /\ Holds(toClient', <<"denied">>) /\ client' = "verdict"
      BY <1>1, <1>3, <2>2, <2>5, ServerSays, Kinds
    <3>2. LeftForClient'
      BY <3>1 DEF LeftForClient, ClientExpects
    <3>3. QED BY <3>1, <3>2
  <2>6. QED BY <2>1, <2>4, <2>5
<1>9. CASE NamesFile
  <2>1. /\ \/ server = "command" /\ client = "result" /\ Holds(unread, <<"file">>) /\ Holds(toClient, <<>>)
           \/ At("result", "name", <<"file">>, <<>>)
        /\ Holds(unread', <<>>) /\ BufferInv' /\ OpenFile
    <3>1. ReadLine("file") /\ server \in {"command", "name"} /\ OpenFile
      BY <1>9 DEF NamesFile
    <3>2. /\ ~Holds(unread, <<>>) /\ BufferInv'
          /\ \A a : Holds(unread, <<a>>) => a = "file" /\ Holds(unread', <<>>)
      BY <1>1, <1>3, <3>1, ServerHears
    <3>3. \/ At("result", "name", <<"file">>, <<>>)
          \/ /\ server = "command" /\ Holds(toClient, <<>>)
             /\ \/ client = "listing" /\ Holds(unread, <<"dir">>)
                \/ client = "counts" /\ Holds(unread, <<"all">>)
                \/ client = "result" /\ Holds(unread, <<"file">>)
      BY <1>1, <1>2, <3>1, <3>2 DEF Together, Handshake, FileNames, Opening, Receiving, Behind
    <3>4. QED BY <3>1, <3>2, <3>3
  <2>2. client' = "result" /\ Holds(toClient, <<>>)
    BY <1>3, <2>1
  <2>3. CASE Write("accepted", "parameters")
    <3>1. server' = "parameters" /\ conn' = "open" /\ Holds(toClient', <<"accepted">>)
      BY <1>1, <2>2, <2>3, ServerSays, Kinds
    <3>2. Opening'
      BY <2>1, <2>2, <3>1 DEF Opening
    <3>3. QED BY <2>1, <3>1, <3>2 DEF Together
  <2>4. CASE Write("refused", "command")
    <3>1. server' = "command" /\ conn' = "open" /\ Holds(toClient', <<"refused">>)
      BY <1>1, <2>2, <2>4, ServerSays, Kinds
    <3>2. Opening'
      BY <2>1, <2>2, <3>1 DEF Opening
    <3>3. QED BY <2>1, <3>1, <3>2 DEF Together
  <2>5. QED BY <2>1, <2>3, <2>4 DEF OpenFile
<1>10. CASE ListFiles
  <2>1. ReadLine("dir") /\ server = "command" /\ Write("listing", "list read")
    BY <1>10 DEF ListFiles
  <2>2. /\ ~Holds(unread, <<>>) /\ BufferInv'
        /\ \A a : Holds(unread, <<a>>) => a = "dir" /\ Holds(unread', <<>>)
    BY <1>1, <1>3, <2>1, ServerHears
  <2>3. client = "listing" /\ Holds(unread', <<>>) /\ Holds(toClient, <<>>)
    BY <1>1, <1>2, <2>1, <2>2 DEF Together, Handshake, FileNames, Opening, Receiving, Behind
  <2>4. server' = "list read" /\ conn' = "open" /\ Holds(toClient', <<"listing">>)
    BY <1>1, <2>1, <2>3, ServerSays, Kinds
  <2>5. At("listing", "list read", <<>>, <<"listing">>)'
    BY <1>3, <2>3, <2>4
  <2>6. QED BY <2>2, <2>4, <2>5 DEF Together
<1>11. CASE SendCounts
  <2> DEFINE m == [kind |-> "counts", n |-> count']
  <2>1. ReadLine("all") /\ server = "command" /\ WriteAndGo(m, "got size")
    BY <1>11 DEF SendCounts
  <2>2. /\ ~Holds(unread, <<>>) /\ BufferInv'
        /\ \A a : Holds(unread, <<a>>) => a = "all" /\ Holds(unread', <<>>)
    BY <1>1, <1>3, <2>1, ServerHears
  <2>3. client = "counts" /\ Holds(unread', <<>>) /\ toClient = <<>>
    BY <1>1, <1>2, <2>1, <2>2 DEF Together, Handshake, FileNames, Opening, Receiving, Behind
  <2>4. m \in Message(FromServer) /\ m.kind = "counts" /\ m.n = count' /\ m.n <= env.files
    BY <1>11, CountersInRange, Kinds DEF Message
  <2> HIDE DEF m
  <2>5. server' = "got size" /\ conn' = "open" /\ toClient' = Append(toClient, m)
    BY <1>1, <2>1, <2>4, ServerWritesOne
  <2>6. toClient' = <<m>>
    BY <2>3, <2>4, <2>5, Concatenations
  <2>7. Holds(toClient', <<"counts">>) /\ toClient'[1].n = count'
    BY <2>4, <2>6, HoldsOne
  <2>8. FileNames'
    BY <1>3, <2>3, <2>5, <2>7 DEF FileNames
  <2>9. QED BY <2>2, <2>5, <2>8 DEF Together
<1>12. CASE SendNames
  <2>1. FullRead("got size") /\ server = "got size" /\ UNCHANGED <<left, count>>
    BY <1>12 DEF SendNames
  <2>2. ~Holds(unread, <<>>) /\ BufferInv' /\ (Holds(unread, <<"got size">>) => Holds(unread', <<>>))
    BY <1>1, <1>3, <2>1, ServerHears
  <2>3. /\ \/ count > 0 /\ client = "names"
           \/ count = 0 /\ client = "signal"
        /\ Holds(unread', <<>>) /\ Holds(toClient, <<>>)
    BY <1>1, <1>2, <2>1, <2>2 DEF Together, Handshake, FileNames, Opening, Receiving, Behind
  <2>4. /\ \/ count > 0 /\ count # 0 /\ Write("names", "got list")
           \/ count = 0 /\ Write("refused", "command")
           \/ count = 0 /\ Silent("got list")
        /\ count > 0 => count # 0
    <3>1. count \in Nat
      BY TypeFacts
    <3>2. count > 0 => count # 0
      BY <3>1
    <3>3. QED BY <1>12, <3>2, Zenon DEF SendNames
  <2>5. CASE count # 0
    <3>1. Write("names", "got list") /\ client = "names"
      BY <2>3, <2>4, <2>5
    <3>2. server' = "got list" /\ conn' = "open" /\ Holds(toClient', <<"names">>)
      BY <1>1, <2>3, <3>1, ServerSays, Kinds
    <3>3. FileNames'
      BY <1>3, <2>3, <3>1, <3>2 DEF FileNames
    <3>4. QED BY <2>2, <3>2, <3>3 DEF Together
  <2>6. CASE count = 0 /\ Write("refused", "command")
    <3>1. client = "signal"
      BY <2>3, <2>4, <2>6
    <3>2. server' = "command" /\ conn' = "open" /\ Holds(toClient', <<"refused">>)
      BY <1>1, <2>3, <2>6, ServerSays, Kinds
    <3>3. FileNames'
      BY <1>3, <2>3, <3>1, <3>2 DEF FileNames
    <3>4. QED BY <2>2, <3>2, <3>3 DEF Together
  <2>7. CASE count = 0 /\ Silent("got list")
    <3>0. client = "signal"
      BY <2>3, <2>4, <2>7
    <3>1. client = "signal" /\ server' = "got list" /\ conn' = "open" /\ Holds(toClient', <<>>)
      BY <1>1, <2>3, <2>7, <3>0 DEF Silent, seen
    <3>2. FileNames'
      BY <1>3, <2>3, <3>1 DEF FileNames
    <3>3. QED BY <2>2, <3>1, <3>2 DEF Together
  <2>8. QED BY <2>4, <2>5, <2>6, <2>7
<1>13. CASE EndNames
  <2>1. FullRead("got list") /\ server = "got list" /\ server' = "name" /\ UNCHANGED <<toClient, conn>>
    BY <1>1, <1>13 DEF EndNames, Silent, seen
  <2>2. /\ ~Holds(unread, <<>>) /\ BufferInv'
        /\ Holds(unread, <<"got list", "file">>) => Holds(unread', <<"file">>)
    BY <1>1, <1>3, <2>1, ServerHears
  <2>3. client = "result" /\ Holds(unread', <<"file">>) /\ Holds(toClient', <<>>)
    BY <1>1, <1>2, <2>1, <2>2 DEF Together, Handshake, FileNames, Opening, Receiving, Behind
  <2>4. FileNames'
    BY <1>3, <2>1, <2>3 DEF FileNames
  <2>5. QED BY <1>1, <2>1, <2>2, <2>4 DEF Together
<1>14. CASE SendReply
  <2>1. Arrived("parameters") /\ server = "parameters" /\ Write("reply", "port")
    BY <1>14 DEF SendReply
  <2>2. /\ ~Holds(unread, <<>>) /\ BufferInv' /\ (Holds(unread, <<"parameters">>) => Holds(unread', <<>>))
    BY <1>1, <1>3, <2>1, ServerHears
  <2>3. client = "reply" /\ Holds(unread', <<>>) /\ Holds(toClient, <<>>)
    BY <1>1, <1>2, <2>1, <2>2 DEF Together, Handshake, FileNames, Opening, Receiving, Behind
  <2>4. server' = "port" /\ conn' = "open" /\ Holds(toClient', <<"reply">>)
    BY <1>1, <2>1, <2>3, ServerSays, Kinds
  <2>5. Opening'
    BY <1>3, <2>3, <2>4 DEF Opening
  <2>6. QED BY <2>2, <2>4, <2>5 DEF Together
<1>15. CASE EndListing \/ OpenPort \/ TakeRequest
  <2>1. /\ server \in {"list read", "port", "sending"} /\ UNCHANGED <<toClient, conn>>
        /\ EndListing => FullRead("list read") /\ server = "list read"
        /\ OpenPort => FullRead("port") /\ server = "port" /\ server' = "sending"
        /\ TakeRequest => /\ server = "sending" /\ toServer # <<>> /\ toServer' = Tail(toServer)
                          /\ \/ Head(toServer).kind = "feedback" /\ server' = "sending"
                             \/ Head(toServer).kind = "stop" /\ server' = "command"
    BY <1>1, <1>15 DEF EndListing, OpenPort, TakeRequest, Silent, seen
  <2>2. ~Holds(unread, <<>>)
    <3>1. EndListing \/ OpenPort => ~Holds(unread, <<>>)
      BY <1>1, <1>3, <2>1, ServerHears
    <3>2. TakeRequest => ~Holds(unread, <<>>)
      BY <1>1, <1>3, <2>1, RequestTaken
    <3>3. QED BY <1>15, <3>1, <3>2
  <2>3. CASE Behind("prompt", <<>>)
    <3>1. <<>> \in Commands
      BY DEF Commands
    <3>2. Behind("prompt", <<>>)' /\ BufferInv' /\ server' # "exited"
      BY <1>1, <1>15, <2>3, <3>1, ServerCatchesUp
    <3>3. QED BY <1>1, <2>1, <3>2 DEF Together
  <2>4. CASE Behind("listing", <<"dir">>)
    <3>1. <<"dir">> \in Commands
      BY DEF Commands, Lines
    <3>2. Behind("listing", <<"dir">>)' /\ BufferInv' /\ server' # "exited"
      BY <1>1, <1>15, <2>4, <3>1, ServerCatchesUp
    <3>3. QED BY <1>1, <2>1, <3>2 DEF Together
  <2>5. CASE Behind("counts", <<"all">>)
    <3>1. <<"all">> \in Commands
      BY DEF Commands, Lines
    <3>2. Behind("counts", <<"all">>)' /\ BufferInv' /\ server' # "exited"
      BY <1>1, <1>15, <2>5, <3>1, ServerCatchesUp
    <3>3. QED BY <1>1, <2>1, <3>2 DEF Together
  <2>6. CASE Behind("result", <<"file">>)
    <3>1. <<"file">> \in Commands
      BY DEF Commands, Lines
    <3>2. Behind("result", <<"file">>)' /\ BufferInv' /\ server' # "exited"
      BY <1>1, <1>15, <2>6, <3>1, ServerCatchesUp
    <3>3. QED BY <1>1, <2>1, <3>2 DEF Together
  <2>7. CASE Receiving
    <3>1. <<>> \in Seq(FromClient)
      OBVIOUS
    <3>2. CASE OpenPort
      <4>1. server = "port" /\ Stream(unread, <<"port">>, <<>>)
        BY <2>1, <2>7, <3>2 DEF Receiving
      <4>2. Stream(unread', <<>>, <<>>) /\ BufferInv'
        BY <1>1, <1>3, <2>1, <3>1, <3>2, <4>1, ServerHears
      <4>3. Receiving'
        BY <1>3, <2>1, <2>7, <3>2, <4>2 DEF Receiving
      <4>4. QED BY <1>1, <2>1, <3>2, <4>2, <4>3 DEF Together
    <3>3. CASE TakeRequest
      <4>1. server = "sending" /\ Stream(unread, <<>>, <<>>)
        BY <2>1, <2>7, <3>3 DEF Receiving
      <4>2. BufferInv' /\ Head(toServer).kind = "feedback" /\ Stream(unread', <<>>, <<>>)
        BY <1>1, <1>3, <2>1, <2>2, <3>1, <3>3, <4>1, RequestTaken
      <4>3. Receiving'
        BY <1>3, <2>1, <2>7, <3>3, <4>2 DEF Receiving
      <4>4. QED BY <1>1, <2>1, <3>3, <4>2, <4>3 DEF Together, Receiving
    <3>4. ~EndListing
      BY <2>1, <2>7 DEF Receiving
    <3>5. QED BY <1>15, <3>2, <3>3, <3>4
  <2>8. \/ Behind("prompt", <<>>) \/ Behind("listing", <<"dir">>) \/ Behind("counts", <<"all">>)
        \/ Behind("result", <<"file">>) \/ Receiving
    <3>1. CASE At("reply", "port", <<>>, <<"reply">>) \/ At("listing", "list read", <<>>, <<"listing">>)
      BY <2>2, <3>1
    <3>2. QED
      BY <1>1, <2>1, <3>1 DEF Together, Handshake, FileNames, Opening
  <2>9. QED BY <2>3, <2>4, <2>5, <2>6, <2>7, <2>8
<1>16. CASE Killed
  BY <1>16 DEF Killed, Silent, seen
<1>17. ~LineFails /\ ~NoticeEof /\ ~HeartbeatTimeout /\ ~LoseParameters
  BY <1>1 DEF LineFails, NoticeEof, HeartbeatTimeout, LoseParameters, Untold
<1>18. QED
  BY <1>6, <1>7, <1>8, <1>9, <1>10, <1>11, <1>12, <1>13, <1>14, <1>15, <1>16, <1>17
  DEF Server, ServerProceeds

\* Whatever is on the way to a server that is behind can be read.
LEMMA BehindIsReadable ==
  ASSUME TypeInv, NEW state, NEW last \in Commands, Behind(state, last)
  PROVE  Readable(unread)
<1>1. \/ /\ last = <<>> /\ <<"list read">> \o last = <<"list read">>
         /\ <<"stop">> \o last = <<"stop">>
      \/ \E line \in Lines : /\ last = <<line>> /\ <<"list read">> \o last = <<"list read", line>>
                             /\ <<"stop">> \o last = <<"stop", line>>
  BY Sequences DEF Commands
<1>2. Holds(unread, <<>>) => unread = <<>>
  BY UnreadFacts, HoldsNothing DEF Outgoing
<1>3. CASE server = "command" /\ Holds(unread, last)
  BY <1>1, <1>2, <1>3 DEF Readable
<1>4. CASE server = "list read" /\ Holds(unread, <<"list read">> \o last)
  BY <1>1, <1>4 DEF Readable
<1>5. CASE server \in {"sending", "port"}
  <2>1. <<"stop">> \o last \in {<<>>, <<"stop">>} \cup { <<"stop", line>> : line \in Lines }
    BY <1>1
  <2>2. \/ server = "port"    /\ Stream(unread, <<"port">>, <<"stop">> \o last)
        \/ server = "sending" /\ Stream(unread, <<>>, <<"stop">> \o last)
    BY <1>5 DEF Behind
  <2>3. QED BY <2>1, <2>2, Zenon DEF Readable
<1>6. QED BY <1>3, <1>4, <1>5 DEF Behind

\* Whatever is on the way to a server that waits for it can be read.
LEMMA RunningIsReadableByServer ==
  ASSUME TypeInv, Together
  PROVE  Readable(unread) /\ Readable(toServer)
<1>1. Holds(unread, <<>>) => unread = <<>>
  BY UnreadFacts, HoldsNothing DEF Outgoing
<1>2. Readable(unread)
  <2>1. CASE Handshake
    BY <1>1, <2>1 DEF Readable, Handshake, At
  <2>2. CASE FileNames
    BY <1>1, <2>2 DEF Readable, FileNames, At
  <2>3. CASE Opening
    BY <1>1, <2>3 DEF Readable, Opening, At
  <2>4. CASE Receiving
    BY <2>4 DEF Readable, Receiving
  <2>5. CASE At("listing", "list read", <<>>, <<"listing">>)
    BY <1>1, <2>5 DEF Readable, At
  <2>6. <<>> \in Commands /\ <<"dir">> \in Commands /\ <<"all">> \in Commands /\ <<"file">> \in Commands
    BY DEF Commands, Lines
  <2>7. QED BY <2>1, <2>2, <2>3, <2>4, <2>5, <2>6, BehindIsReadable DEF Together
<1>3. Readable(toServer)
  BY <1>2, UnreadFacts DEF Readable, Together, BufferInv
<1>4. QED BY <1>2, <1>3

\* The client leaves while the server runs.
LEMMA ClientLeaves ==
  ASSUME TypeInv, BothRun, Client, client' = "closed"
  PROVE  UNCHANGED <<env, server>> /\ conn' # "open" /\ LeftForServer'
<1> USE DEF ServerUntouched, Go
<1>1. Together /\ BufferInv /\ client # "closed" /\ server # "exited" /\ conn = "open"
  BY DEF BothRun, Together
<1>2. Readable(unread) /\ Readable(toServer)
  BY <1>1, RunningIsReadableByServer
<1>3. CASE Close
  <2>1. <<>> \in Seq(FromClient)
    OBVIOUS
  <2>2. Messages(<<>>) = <<>>
    BY <2>1, MessagesAreTyped, EmptySeq
  <2>3. toServer' = unread \o Messages(<<>>)
    BY <1>1, <1>3, <2>1, FlushWrites DEF Close
  <2>4. toServer' = unread
    BY <2>2, <2>3, UnreadFacts, ConcatEmptySeq DEF Outgoing
  <2>5. UNCHANGED <<env, server>> /\ conn' # "open"
    BY <1>3 DEF Close, Disconnect
  <2>6. QED BY <1>2, <2>4, <2>5 DEF LeftForServer, Readable
<1>4. CASE Crash
  <2>1. UNCHANGED <<env, server, toServer>> /\ conn' # "open"
    BY <1>4 DEF Crash, Disconnect
  <2>2. QED BY <1>2, <2>1 DEF LeftForServer, Readable
<1>5. CASE Negotiate
  <2>1. UNCHANGED <<env, server, toServer>> /\ conn' # "open"
    BY <1>5 DEF Negotiate
  <2>2. QED BY <1>2, <2>1 DEF LeftForServer, Readable
<1>6. ~Verdict
  <2>1. SUFFICES ASSUME Verdict PROVE FALSE
    OBVIOUS
  <2>2. ClientReads("denied") /\ client = "verdict"
    BY <2>1 DEF Verdict
  <2>3. Holds(toClient, <<>>) \/ Holds(toClient, <<"granted">>)
    BY <1>1, <2>2 DEF Together, Handshake, FileNames, Opening, Receiving, Behind, At
  <2>4. QED BY <2>2, <2>3, ClientHears
<1>7. client' # "closed" \/ Close \/ Crash \/ Negotiate
  BY <1>1, <1>6 DEF Client, ClientProceeds, Dir, Get, GetAll, Prove, ReadListing,
    ReadCounts, ReadSignal, ReadNames, ReadResult, ReadReply, FinishFile, ClientEof, ServerGone,
    Feedback, AbortTransfer
<1>8. QED BY <1>3, <1>4, <1>5, <1>7

\* A client whose server is gone reads what is left.
LEMMA OrphanClient ==
  ASSUME TypeInv, client # "closed", server = "exited", LeftForClient, Client
  PROVE  UNCHANGED <<env, server>> /\ (client' = "closed" \/ LeftForClient')
<1> USE DEF ServerUntouched, Go
<1>1. UNCHANGED <<env, server, same>>
  BY DEF Client, ClientProceeds, Dir, Get, GetAll, Close, Disconnect, Negotiate, Prove, Verdict,
    ReadListing, ReadCounts, ReadSignal, ReadNames, ReadResult, ReadReply, FinishFile, ClientEof,
    Feedback, AbortTransfer, Crash
<1>2. ASSUME NEW kind, ClientReads(kind), client # "revision" PROVE LeftForClient'
  BY <1>2, ClientHears DEF LeftForClient
<1>3. CASE Negotiate
  <2>1. /\ ClientReads("revision") /\ client = "revision"
        /\ client' = "challenge" \/ client' = "closed"
    BY <1>3 DEF Negotiate
  <2>2. \/ \E kind : Holds(toClient, <<kind>>)
        \/ Holds(toClient, <<"revision", "challenge">>)
    BY <2>1, ClientHears DEF LeftForClient
  <2>3. toClient' = <<>> \/ Holds(toClient', <<"challenge">>)
    BY <2>1, <2>2, ClientHears
  <2>4. ASSUME client' = "challenge" PROVE LeftForClient'
    BY <2>3, <2>4 DEF LeftForClient, ClientExpects
  <2>5. QED BY <1>1, <2>1, <2>4
<1>4. CASE client \in {"prompt", "receiving"} \/ ClientEof
  <2>1. toClient = <<>>
    BY <1>4 DEF LeftForClient, ClientExpects, ClientEof
  <2>2. toClient' = <<>>
    BY <1>4, <2>1 DEF Client, ClientProceeds, Dir, Get, GetAll, Close, Disconnect, Negotiate, Prove, Verdict,
      ReadListing, ReadCounts, ReadSignal, ReadNames, ReadResult, ReadReply, FinishFile, ClientEof,
      Feedback, AbortTransfer, Crash, ClientReads
  <2>3. QED BY <1>1, <2>2 DEF LeftForClient
<1>5. CASE client \notin {"prompt", "receiving", "revision"} /\ ~ClientEof /\ ~Crash
  <2>1. \E kind \in FromServer : ClientReads(kind)
    BY <1>5 DEF Client, ClientProceeds, Dir, Get, GetAll, Close, Negotiate, Prove, Verdict,
      ReadListing, ReadCounts, ReadSignal, ReadNames, ReadResult, ReadReply, FinishFile,
      Feedback, AbortTransfer, FromServer
  <2>2. QED BY <1>1, <1>2, <1>5, <2>1
<1>6. CASE Crash
  BY <1>1, <1>6 DEF Crash, Disconnect
<1>7. CASE client = "revision" /\ ~ClientEof /\ ~Crash /\ ~Negotiate
  BY <1>7 DEF Client, ClientProceeds, Dir, Get, GetAll, Close, Prove, Verdict,
    ReadListing, ReadCounts, ReadSignal, ReadNames, ReadResult, ReadReply, FinishFile,
    Feedback, AbortTransfer
<1>8. QED BY <1>3, <1>4, <1>5, <1>6, <1>7

\* What a server whose client is gone reads.
LEMMA OrphanHears ==
  ASSUME TypeInv, NEW kind, FullRead(kind) \/ Arrived(kind) \/ ReadLine(kind)
  PROVE  /\ toServer = <<>> => toServer' = <<>>
         /\ \A a : Holds(toServer, <<a>>) => a = kind /\ toServer' = <<>>
         /\ \A a, b : Holds(toServer, <<a, b>>) => a = kind /\ Holds(toServer', <<b>>)
         /\ \A rest \in Seq(FromClient) :
              Stream(toServer, <<"port">>, rest) => Stream(toServer', <<>>, rest)
<1>1. /\ toServer \in Seq(Message(FromClient))
      /\ \/ toServer # <<>> /\ Head(toServer).kind = kind /\ toServer' = Tail(toServer)
         \/ toServer = <<>> /\ toServer' = <<>>
  BY TypeFacts, ServerReadsOne DEF Outgoing
<1>2. ASSUME NEW a, Holds(toServer, <<a>>) PROVE a = kind /\ toServer' = <<>>
  BY <1>1, <1>2, HoldsRead
<1>3. ASSUME NEW a, NEW b, Holds(toServer, <<a, b>>) PROVE a = kind /\ Holds(toServer', <<b>>)
  <2>1. toServer # <<>> /\ Head(toServer).kind = a /\ Holds(Tail(toServer), <<b>>)
    BY <1>1, <1>3, HoldsRead
  <2>2. QED BY <1>1, <2>1
<1>4. ASSUME NEW rest \in Seq(FromClient), Stream(toServer, <<"port">>, rest)
      PROVE  Stream(toServer', <<>>, rest)
  BY <1>1, <1>4, StreamRead
<1>5. toServer = <<>> => toServer' = <<>>
  BY <1>1
<1>6. QED BY <1>2, <1>3, <1>4, <1>5

\* A server whose client is gone reads what is left, and writes to nobody.
LEMMA OrphanServer ==
  ASSUME TypeInv, client = "closed", server # "exited", conn # "open", LeftForServer, Server
  PROVE  /\ UNCHANGED <<env, client>>
         /\ server' = "exited" \/ (conn' # "open" /\ LeftForServer')
<1> USE DEF ClientUntouched
<1>1. UNCHANGED <<env, client>>
  BY DEF Server, ServerProceeds, SendRevision, CheckRevision, CheckDigest, NamesFile, ListFiles,
    EndListing, SendCounts, SendNames, EndNames, LineFails, SendReply, LoseParameters, OpenPort, TakeRequest, NoticeEof,
    HeartbeatTimeout, Killed
<1>2. conn' # "open"
  BY DEF Server, ServerProceeds, SendRevision, CheckRevision, CheckDigest, NamesFile, OpenFile, ListFiles,
    EndListing, SendCounts, SendNames, EndNames, LineFails, SendReply, LoseParameters, OpenPort, TakeRequest, NoticeEof,
    HeartbeatTimeout, Killed, Write, WriteAndGo, Silent, seen
<1>3. ASSUME toServer' = <<>> PROVE LeftForServer'
  BY <1>3 DEF LeftForServer, Readable
<1> SUFFICES server' = "exited" \/ LeftForServer'
  BY <1>1, <1>2
<1>4. CASE SendRevision
  <2>1. server = "new" /\ server' \in {"revision", "exited"} /\ UNCHANGED toServer
    BY <1>4 DEF SendRevision, Write, WriteAndGo
  <2>2. toServer = <<>> \/ Holds(toServer, <<"revision">>)
    BY <2>1 DEF LeftForServer, Readable
  <2>3. QED BY <2>1, <2>2 DEF LeftForServer, Readable
<1>5. CASE CheckRevision \/ CheckDigest \/ SendNames \/ SendReply
  <2>1. /\ server \in {"revision", "digest", "got size", "parameters"}
        /\ FullRead(server)
    BY <1>5 DEF CheckRevision, CheckDigest, SendNames, SendReply, FullRead
  <2>2. toServer = <<>> \/ Holds(toServer, <<server>>)
    BY <2>1 DEF LeftForServer, Readable
  <2>3. QED BY <1>3, <2>1, <2>2, OrphanHears
<1>6. CASE EndListing
  <2>1. server = "list read" /\ FullRead("list read") /\ server' = "command"
    BY <1>6 DEF EndListing, Silent
  <2>2. \/ toServer = <<>> \/ Holds(toServer, <<"list read">>)
        \/ \E line \in Lines : Holds(toServer, <<"list read", line>>)
    BY <2>1 DEF LeftForServer, Readable
  <2>3. toServer' = <<>> \/ \E line \in Lines : Holds(toServer', <<line>>)
    BY <2>1, <2>2, OrphanHears
  <2>4. QED BY <2>1, <2>3 DEF LeftForServer, Readable
<1>7. CASE EndNames
  <2>1. server = "got list" /\ FullRead("got list") /\ server' = "name"
    BY <1>7 DEF EndNames, Silent
  <2>2. toServer = <<>> \/ Holds(toServer, <<"got list", "file">>)
    BY <2>1 DEF LeftForServer, Readable
  <2>3. toServer' = <<>> \/ Holds(toServer', <<"file">>)
    BY <2>1, <2>2, OrphanHears
  <2>4. QED BY <2>1, <2>3 DEF LeftForServer, Readable
<1>8. CASE NamesFile \/ ListFiles \/ SendCounts
  <2>1. server \in {"command", "name"} /\ \E line \in Lines : ReadLine(line)
    BY <1>8 DEF NamesFile, ListFiles, SendCounts, Lines
  <2>2. toServer = <<>> \/ \E kind : Holds(toServer, <<kind>>)
    BY <2>1 DEF LeftForServer, Readable
  <2>3. QED BY <1>3, <2>1, <2>2, OrphanHears
<1> DEFINE Rests == {<<>>, <<"stop">>} \cup { <<"stop", line>> : line \in Lines }
<1>9. Rests \subseteq Seq(FromClient)
  BY Sequences
<1>10. CASE OpenPort
  <2>1. server = "port" /\ FullRead("port") /\ server' = "sending"
    BY <1>10 DEF OpenPort, Silent
  <2>2. toServer = <<>> \/ \E rest \in Rests : Stream(toServer, <<"port">>, rest)
    BY <2>1 DEF LeftForServer, Readable
  <2>3. toServer' = <<>> \/ \E rest \in Rests : Stream(toServer', <<>>, rest)
    BY <1>9, <2>1, <2>2, OrphanHears
  <2>4. QED BY <2>1, <2>3 DEF LeftForServer, Readable
<1>11. CASE TakeRequest
  <2>1. /\ server = "sending" /\ toServer # <<>> /\ toServer' = Tail(toServer)
        /\ \/ Head(toServer).kind = "feedback" /\ server' = "sending"
           \/ Head(toServer).kind = "stop" /\ server' = "command"
    BY <1>11 DEF TakeRequest, Silent
  <2>2. PICK rest \in Rests : Stream(toServer, <<>>, rest)
    BY <2>1 DEF LeftForServer, Readable
  <2>3. toServer \in Seq(Message(FromClient)) /\ rest \in Seq(FromClient)
    BY <1>9, TypeFacts DEF Outgoing
  <2>4. Holds(toServer, rest) \/ (Head(toServer).kind = "feedback" /\ Stream(toServer', <<>>, rest))
    BY <2>1, <2>2, <2>3, StreamRead
  <2>5. CASE Holds(toServer, rest)
    <3>1. rest # <<>>
      BY <2>1, <2>3, <2>5, HoldsNothing
    <3>2. CASE rest = <<"stop">>
      <4>1. toServer' = <<>>
        BY <2>1, <2>3, <2>5, <3>2, HoldsRead
      <4>2. QED BY <1>3, <4>1
    <3>3. CASE rest \in { <<"stop", line>> : line \in Lines }
      <4>1. PICK line \in Lines : Holds(toServer, <<"stop", line>>)
        BY <2>5, <3>3
      <4>2. Head(toServer).kind = "stop" /\ Holds(toServer', <<line>>)
        BY <2>1, <2>3, <4>1, HoldsRead
      <4>3. QED BY <2>1, <4>2 DEF LeftForServer, Readable
    <3>4. QED BY <3>1, <3>2, <3>3
  <2>6. CASE Head(toServer).kind = "feedback" /\ Stream(toServer', <<>>, rest)
    BY <2>1, <2>6 DEF LeftForServer, Readable
  <2>7. QED BY <2>4, <2>5, <2>6
<1>12. CASE HeartbeatTimeout
  BY <1>3, <1>12 DEF HeartbeatTimeout
<1>15. CASE LoseParameters
  BY <1>3, <1>15 DEF LoseParameters
<1>13. CASE LineFails \/ NoticeEof \/ Killed
  BY <1>13 DEF LineFails, NoticeEof, Killed, Silent
<1>14. QED
  BY <1>4, <1>5, <1>6, <1>7, <1>8, <1>10, <1>11, <1>12, <1>13, <1>15
  DEF Server, ServerProceeds

\* A side that has ended does nothing, and the environment never changes.
LEMMA EndedIsFinal ==
  /\ Client => client # "closed" /\ UNCHANGED <<env, server>>
  /\ Server => server # "exited" /\ UNCHANGED <<env, client>>
<1>1. Client => client # "closed" /\ UNCHANGED <<env, server>>
  BY DEF Client, ClientProceeds, Dir, Get, GetAll, Close, Disconnect, Negotiate, Prove, Verdict,
    ReadListing, ReadCounts, ReadSignal, ReadNames, ReadResult, ReadReply, FinishFile, ClientEof,
    Feedback, AbortTransfer, Crash, ServerUntouched, Connecting, Waiting
<1>2. Server => server # "exited" /\ UNCHANGED <<env, client>>
  BY DEF Server, ServerProceeds, SendRevision, CheckRevision, CheckDigest, NamesFile, ListFiles,
    EndListing, SendCounts, SendNames, EndNames, LineFails, SendReply, LoseParameters, OpenPort, TakeRequest, NoticeEof,
    HeartbeatTimeout, Killed, ClientUntouched
<1>3. QED BY <1>1, <1>2

\* The two sides always agree on what lies between them, or, when one is gone,
\* the other can read in order what it left.
THEOREM SessionAgrees == Spec => []SidesAgree
<1>1. Init => SidesAgree
  <2> SUFFICES ASSUME Init PROVE SidesAgree
    OBVIOUS
  <2>1. toServer \in Seq(Message(FromClient)) /\ buffered = <<>> /\ toServer = << Msg("revision") >>
    BY DEF Init, Msg, Message, FromClient
  <2>2. unread = << Msg("revision") >>
    BY <2>1, ConcatEmptySeq DEF unread
  <2>3. Holds(unread, <<"revision">>) /\ Holds(toClient, <<>>)
    BY <2>2 DEF Init, Holds, Msg
  <2>4. At("revision", "new", <<"revision">>, <<>>) /\ BufferInv
    BY <2>1, <2>3 DEF Init, At, BufferInv
  <2>5. QED BY <2>4 DEF Init, SidesAgree, Together, Handshake
<1>2. TypeInv /\ SidesAgree /\ [Next]_vars => SidesAgree'
  <2> SUFFICES ASSUME TypeInv, SidesAgree, [Next]_vars, env'.faults \cap Untold = {}
               PROVE  SidesAgree'
    BY DEF SidesAgree, Untold
  <2>1. CASE UNCHANGED vars
    <3>1. UNCHANGED <<env, same, client, server, toServer, toClient, buffered, left, count, conn, unread>>
      BY <2>1 DEF vars, unread
    <3>2. LeftForClient => LeftForClient'
      BY <3>1 DEF LeftForClient, ClientExpects
    <3>3. LeftForServer => LeftForServer'
      BY <3>1 DEF LeftForServer, Readable
    <3>4. Together => Together'
      <4>1. Handshake => Handshake'
        BY <3>1 DEF Handshake, At
      <4>2. FileNames => FileNames'
        BY <3>1 DEF FileNames, At
      <4>3. Opening \/ Receiving => Opening' \/ Receiving'
        BY <3>1 DEF Opening, Receiving, At
      <4>4. \A state, last : Behind(state, last) => Behind(state, last)'
        BY <3>1 DEF Behind
      <4>5. BufferInv => BufferInv'
        BY <3>1 DEF BufferInv
      <4>6. \A sent, answered : At("listing", "list read", sent, answered)
                                => At("listing", "list read", sent, answered)'
        BY <3>1 DEF At
      <4>7. QED BY <4>1, <4>2, <4>3, <4>4, <4>5, <4>6 DEF Together
    <3>5. QED BY <3>1, <3>2, <3>3, <3>4 DEF SidesAgree
  <2>2. CASE Client
    <3>1. UNCHANGED <<env, server>> /\ client # "closed" /\ env.faults \cap Untold = {}
      BY <2>2, EndedIsFinal
    <3>2. BothRun \/ (server = "exited" /\ LeftForClient)
      BY <3>1 DEF SidesAgree, Untold, BothRun
    <3>3. CASE BothRun /\ client' # "closed"
      <4>1. BothRun'
        BY <2>2, <3>1, <3>3, ClientStaysInStep
      <4>2. QED BY <4>1 DEF BothRun, SidesAgree
    <3>4. CASE BothRun /\ client' = "closed"
      <4>1. conn' # "open" /\ LeftForServer'
        BY <2>2, <3>4, ClientLeaves
      <4>2. QED BY <3>4, <4>1 DEF SidesAgree
    <3>5. CASE server = "exited" /\ LeftForClient
      <4>1. client' = "closed" \/ LeftForClient'
        BY <2>2, <3>1, <3>5, OrphanClient
      <4>2. QED BY <3>1, <3>5, <4>1 DEF SidesAgree
    <3>6. QED BY <3>2, <3>3, <3>4, <3>5
  <2>3. CASE Server
    <3>1. UNCHANGED <<env, client>> /\ server # "exited" /\ env.faults \cap Untold = {}
      BY <2>3, EndedIsFinal
    <3>2. BothRun \/ (client = "closed" /\ conn # "open" /\ LeftForServer)
      BY <3>1 DEF SidesAgree, Untold, BothRun
    <3>3. CASE BothRun
      <4>1. BothRun' \/ (client' # "closed" /\ server' = "exited" /\ LeftForClient')
        BY <2>3, <3>1, <3>3, ServerStaysInStep
      <4>2. QED BY <4>1 DEF BothRun, SidesAgree
    <3>4. CASE client = "closed" /\ conn # "open" /\ LeftForServer
      <4>1. server' = "exited" \/ (conn' # "open" /\ LeftForServer')
        BY <2>3, <3>1, <3>4, OrphanServer
      <4>2. QED BY <3>1, <3>4, <4>1 DEF SidesAgree
    <3>5. QED BY <3>2, <3>3, <3>4
  <2>4. QED BY <2>1, <2>2, <2>3 DEF Next, Ended
<1>3. QED
  BY <1>1, <1>2, SessionTyped, PTL DEF Spec

-----------------------------------------------------------------------------
(* What follows. *)

\* The types hold in every state of every session.
THEOREM SessionTypes == Spec => []TypeOK
<1>1. TypeInv => TypeOK
  BY DEF TypeInv
<1>2. QED BY <1>1, SessionTyped, PTL

\* The messages that the server expects, state by state.
LEMMA ServerTable ==
  \A state, kind :
    state \in DOMAIN ServerExpects /\ kind \in ServerExpects[state] <=>
      \/ /\ state \in {"revision", "digest", "list read", "got size", "got list", "parameters", "port"}
         /\ kind = state
      \/ state = "command" /\ kind \in Lines
      \/ state = "name" /\ kind = "file"
      \/ state = "sending" /\ kind \in Requests
BY DEF ServerExpects

\* A client that can read what is left for it misreads nothing.
LEMMA ClientUnderstands ==
  ASSUME TypeInv, LeftForClient
  PROVE  ~ClientMisreads
<1>1. SUFFICES ASSUME ClientMisreads PROVE FALSE
  OBVIOUS
<1>2. /\ client \in DOMAIN ClientExpects /\ toClient # <<>> /\ toClient \in Seq(Message(FromServer))
      /\ Head(toClient).kind \notin ClientExpects[client]
  BY <1>1, TypeFacts DEF ClientMisreads, Incoming
<1>3. CASE client = "revision" /\ Holds(toClient, <<"revision", "challenge">>)
  <2>1. Head(toClient).kind = "revision"
    BY <1>2, <1>3, HoldsRead
  <2>2. QED BY <1>2, <1>3, <2>1, ClientTable
<1>4. CASE \E kind \in ClientExpects[client] : Holds(toClient, <<kind>>)
  <2>1. PICK kind \in ClientExpects[client] : Holds(toClient, <<kind>>)
    BY <1>4
  <2>2. Head(toClient).kind = kind
    BY <1>2, <2>1, HoldsRead
  <2>3. QED BY <1>2, <2>1, <2>2
<1>5. QED BY <1>2, <1>3, <1>4 DEF LeftForClient

\* A server that can read what is left for it misreads nothing.
LEMMA ServerUnderstands ==
  ASSUME TypeInv, LeftForServer
  PROVE  ~ServerMisreads
<1>1. SUFFICES ASSUME ServerMisreads PROVE FALSE
  OBVIOUS
<1> DEFINE kind == Head(toServer).kind
<1>2. /\ server \in DOMAIN ServerExpects /\ toServer # <<>> /\ toServer \in Seq(Message(FromClient))
      /\ kind \notin ServerExpects[server]
  BY <1>1, TypeFacts DEF ServerMisreads, Outgoing
<1>3. \A a : Holds(toServer, <<a>>) => kind = a
  BY <1>2, HoldsRead
<1>4. \A a, b : Holds(toServer, <<a, b>>) => kind = a
  BY <1>2, HoldsRead
<1> HIDE DEF kind
<1>5. server # "new"
  BY <1>2 DEF ServerExpects
<1> DEFINE Rests == {<<>>, <<"stop">>} \cup { <<"stop", line>> : line \in Lines }
<1>6. CASE server \in {"port", "sending"}
  <2>1. PICK rest \in Rests :
          \/ server = "port"    /\ Stream(toServer, <<"port">>, rest)
          \/ server = "sending" /\ Stream(toServer, <<>>, rest)
    BY <1>2, <1>6 DEF LeftForServer, Readable
  <2>2. rest \in Seq(FromClient)
    BY Sequences
  <2>3. CASE server = "port"
    <3>1. kind = "port"
      BY <1>2, <2>1, <2>2, <2>3, StreamRead DEF kind
    <3>2. QED BY <1>2, <2>3, <3>1, ServerTable
  <2>4. CASE server = "sending"
    <3>1. kind = "feedback" \/ Holds(toServer, rest)
      BY <1>2, <2>1, <2>2, <2>4, StreamRead DEF kind
    <3>2. Holds(toServer, rest) => rest # <<>>
      BY <1>2, <2>2, HoldsNothing
    <3>3. Holds(toServer, rest) => kind = "stop"
      BY <1>3, <1>4, <3>2
    <3>4. QED BY <1>2, <2>4, <3>1, <3>3, ServerTable DEF Requests
  <2>5. QED BY <1>6, <2>3, <2>4
<1>7. CASE /\ server \in {"revision", "digest", "list read", "got size", "parameters"}
           /\ Holds(toServer, <<server>>)
  BY <1>2, <1>3, <1>7, ServerTable
<1>8. CASE server = "got list" /\ Holds(toServer, <<"got list", "file">>)
  BY <1>2, <1>4, <1>8, ServerTable
<1>9. CASE server = "name" /\ Holds(toServer, <<"file">>)
  BY <1>2, <1>3, <1>9, ServerTable
<1>10. CASE server = "command" /\ \E line \in Lines : Holds(toServer, <<line>>)
  BY <1>2, <1>3, <1>10, ServerTable
<1>11. CASE server = "list read" /\ \E line \in Lines : Holds(toServer, <<"list read", line>>)
  BY <1>2, <1>4, <1>11, ServerTable
<1>12. QED
  BY <1>2, <1>5, <1>6, <1>7, <1>8, <1>9, <1>10, <1>11 DEF LeftForServer, Readable

\* When no side keeps the end of a transfer from the other, neither ever takes
\* a message for another one, whichever of them dies, and when.
THEOREM SidesInStep == Spec => []InStep
<1>1. TypeInv /\ SidesAgree => InStep
  <2> SUFFICES ASSUME TypeInv, SidesAgree, env.faults \cap Untold = {}
               PROVE  ~ClientMisreads /\ ~ServerMisreads
    BY DEF InStep, Untold
  <2>1. server = "exited" => ~ServerMisreads
    BY DEF ServerMisreads, ServerExpects
  <2>2. client = "closed" => ~ClientMisreads
    BY DEF ClientMisreads, ClientExpects
  <2>3. CASE Together
    <3>1. LeftForClient /\ LeftForServer
      BY <2>3, RunningIsReadable, RunningIsReadableByServer DEF LeftForServer, Readable
    <3>2. QED BY <3>1, ClientUnderstands, ServerUnderstands
  <2>4. QED
    BY <2>1, <2>2, <2>3, ClientUnderstands, ServerUnderstands DEF SidesAgree, Untold
<1>2. QED BY <1>1, SessionTyped, SessionAgrees, PTL

\* Without faults no answer is ever left for the command that follows.
THEOREM AnswersAreRead == Spec => []NoStaleAnswer
<1>1. TypeInv /\ SidesAgree => NoStaleAnswer
  <2> SUFFICES ASSUME TypeInv, SidesAgree, Faultless, client = "prompt" PROVE toClient = <<>>
    BY DEF NoStaleAnswer
  <2>1. Together \/ LeftForClient
    BY DEF SidesAgree, Faultless
  <2>2. LeftForClient
    BY <2>1, RunningIsReadable
  <2>3. QED BY <2>2 DEF LeftForClient, ClientExpects
<1>2. QED BY <1>1, SessionTyped, SessionAgrees, PTL

\* Without faults a client back at its prompt, once everything is read, faces a
\* server that waits for a command, or for the byte that comes before it.
THEOREM ServerListens == Spec => []PromptMeansListening
<1>1. TypeInv /\ SidesAgree => PromptMeansListening
  <2> SUFFICES ASSUME TypeInv, SidesAgree, Faultless, client = "prompt", toServer = <<>>, server # "exited"
               PROVE  \/ server = "command" /\ buffered = <<>>
                      \/ server = "list read" /\ buffered = << Msg("list read") >>
    BY DEF PromptMeansListening
  <2>1. Together
    BY DEF SidesAgree, Faultless
  <2>2. Behind("prompt", <<>>) /\ BufferInv
    BY <2>1 DEF Together, Handshake, FileNames, Opening, Receiving, Behind, At
  <2>3. /\ unread = buffered /\ unread \in Seq(Message(FromClient))
        /\ buffered = <<>> \/ buffered = << Msg("list read") >>
    BY <2>2, UnreadFacts DEF BufferInv, Outgoing
  <2>4. Holds(unread, <<>>) => unread = <<>>
    BY <2>3, HoldsNothing
  <2>5. CASE server = "command"
    BY <2>2, <2>3, <2>4, <2>5 DEF Behind
  <2>6. CASE server = "list read"
    <3>1. Holds(unread, <<"list read">>)
      BY <2>2, <2>6, Sequences DEF Behind
    <3>2. unread # <<>>
      BY <2>3, <3>1, HoldsRead
    <3>3. QED BY <2>3, <2>6, <3>2
  <2>7. CASE server \in {"sending", "port"}
    <3>1. <<"stop">> \o <<>> = <<"stop">> /\ <<"stop">> \in Seq(FromClient)
      BY Sequences
    <3>2. Stream(unread, <<>>, <<"stop">>) \/ Stream(unread, <<"port">>, <<"stop">>)
      BY <2>2, <2>7, <3>1 DEF Behind
    <3>3. Head(unread).kind \in {"feedback", "stop", "port"} /\ unread # <<>>
      BY <2>3, <3>1, <3>2, StreamRead, HoldsRead
    <3>4. unread = << Msg("list read") >>
      BY <2>3, <3>3
    <3>5. Head(unread).kind = "list read"
      <4>1. Holds(unread, <<"list read">>)
        BY <3>4, BufferedMessage
      <4>2. QED BY <2>3, <4>1, HoldsRead
    <3>6. QED BY <3>3, <3>5
  <2>8. QED BY <2>2, <2>5, <2>6, <2>7 DEF Behind
<1>2. QED BY <1>1, SessionTyped, SessionAgrees, PTL

====
