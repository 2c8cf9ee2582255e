----------------------------- MODULE BlockFiles -----------------------------
(***************************************************************************)
(* The two ends of a transfer as files: build_datagram of the file server  *)
(* and of the real-time server (server/io.c, rtserver/io.c), which seek    *)
(* only when a block is not the successor of the last one built, and       *)
(* accept_block of the client (client/io.c), which cuts the last block.    *)
(* The number of the last block is a static variable of the server and     *)
(* survives a transfer; datagrams are lost, duplicated and reordered, and  *)
(* those of one file may reach the socket of the next.                     *)
(***************************************************************************)
EXTENDS Integers, Sequences, FiniteSets

CONSTANTS
  SENDERS,      \* the servers to choose from
  FILE_SIZES,   \* sizes in bytes of the files to choose from
  BLOCK_SIZE,   \* param->block_size
  FAR,          \* 0 - 1 in 32 bits: a block behind the end of every file
  RECORDING,    \* model bound: offset in a recording where nothing is read any more
  NETWORK,      \* model bound: datagrams in flight
  TRANSFERS     \* model bound: files sent one after the other ("get *")

\* The file server; the real-time server, which also stores what it sends
\* (fileout).
Sender == {"server", "rtserver"}

\* A file may be empty, and one of them is the largest.
FilesAssumption ==
  /\ SENDERS \subseteq Sender
  /\ FILE_SIZES \subseteq Nat /\ \E n \in FILE_SIZES : \A m \in FILE_SIZES : m <= n
  /\ BLOCK_SIZE \in Nat \ {0} /\ FAR \in Nat /\ RECORDING \in Nat

VARIABLES
  sender,
  transfer,     \* number of the transfer; names the file
  file_size,
  block,        \* xfer->block of the server
  highest,      \* history: highest block sent in this transfer
  last_block,   \* static, in build_datagram
  position,     \* offset of the next byte that fread returns
  datagram,     \* the buffer that blocks are read into
  wire,         \* datagrams in flight
  received,     \* the client's bitmap
  file,         \* the client's file: the byte at each offset
  late,         \* history: the client stored a datagram of an earlier file
  last_written_vsib_block,  \* static, of the real-time server
  backup,       \* its local copy, as a sequence of bytes
  rewound       \* history: it built block 1 again, without a seek

fileVars   == <<transfer, file_size>>
serverVars == <<block, highest, last_block, position, datagram>>
clientVars == <<received, file, late>>
backupVars == <<last_written_vsib_block, backup, rewound>>
filesVars == <<sender, fileVars, serverVars, wire, clientVars, backupVars>>

Lesser(a, b) == IF a < b THEN a ELSE b

\* Byte i of the file of transfer t is the pair <<t, i>>.
Hole == <<0, 0>>

block_count == (file_size \div BLOCK_SIZE) + (IF file_size % BLOCK_SIZE = 0 THEN 0 ELSE 1)

-----------------------------------------------------------------------------
(* The server. *)

\* The offset of block b.  Block 0, the only one of an empty file, wraps to
\* an offset behind the end of every file.
Offset(b) == IF b = 0 THEN BLOCK_SIZE * FAR ELSE BLOCK_SIZE * (b - 1)

\* Where block b is read: a successor of the last block needs no seek.
SeekTo(b) == IF b = last_block + 1 THEN position ELSE Offset(b)

\* fread: at most the rest of the file, the rest of the buffer keeps its old
\* bytes.  The recording of the real-time server has no end.
Available(p) ==
  IF sender = "rtserver" \/ p + BLOCK_SIZE <= file_size THEN BLOCK_SIZE
  ELSE IF p < file_size THEN file_size - p ELSE 0

Filled(p) ==
  [i \in 1 .. BLOCK_SIZE |-> IF i <= Available(p) THEN <<transfer, p + i>> ELSE datagram[i]]

\* Mutant: the last block is written with its padding.
WholeBlock(b) == BLOCK_SIZE

\* The bytes of a block that belong to the file; client and real-time server
\* compute it alike.
write_size(b) ==
  IF b = block_count /\ file_size % BLOCK_SIZE # 0 THEN file_size % BLOCK_SIZE ELSE BLOCK_SIZE

\* The local copy of the real-time server takes the blocks in their order.
\* Block 1 starts the count anew; from then on the copy repeats itself and is
\* not followed any more.
StoreBackup(b) ==
  LET written == IF b = 1 THEN 0 ELSE last_written_vsib_block
  IN  /\ rewound' = (rewound \/ (b = 1 /\ highest > 0))
      /\ IF b # 0 /\ b = written + 1
         THEN /\ last_written_vsib_block' = b
              /\ backup' = IF rewound' THEN backup
                           ELSE backup \o SubSeq(Filled(SeekTo(b)), 1, write_size(b))
         ELSE /\ last_written_vsib_block' = written
              /\ UNCHANGED backup

\* Mutant: a block that is read again is not remembered as the last one.
RemembersHighest(b) == last_block' = IF b > last_block THEN b ELSE last_block

\* The real-time server never sets its last_block, which stays 0: it seeks to
\* every block but the first.
Remembers(b) == last_block' = IF sender = "rtserver" THEN 0 ELSE b

\* sendto: the network loses datagrams on their way, above all when it is full.
Transmit(d) ==
  \E arriving \in SUBSET wire :
    /\ Cardinality(arriving) < NETWORK
    /\ wire' = arriving \cup {d}

build_datagram(b) ==
  /\ sender = "rtserver" => SeekTo(b) < RECORDING
  /\ datagram' = Filled(SeekTo(b))
  /\ position' = SeekTo(b) + Available(SeekTo(b))
  /\ Remembers(b)
  /\ IF sender = "rtserver" THEN StoreBackup(b) ELSE UNCHANGED backupVars
  /\ Transmit([block |-> b, data |-> Filled(SeekTo(b)), of |-> transfer])

\* One pass of the send loop.
SendNextBlock ==
  /\ transfer > 0
  /\ block' = Lesser(block + 1, block_count)
  /\ highest' = IF block' > highest THEN block' ELSE highest
  /\ build_datagram(block')
  /\ UNCHANGED <<sender, fileVars, clientVars>>

\* REQUEST_RETRANSMIT: the client asks for a block before one it has seen.
Retransmit ==
  /\ transfer > 0
  /\ \E b \in 1 .. highest : build_datagram(b)
  /\ UNCHANGED <<sender, fileVars, block, highest, clientVars>>

\* REQUEST_RESTART.
Restart ==
  /\ transfer > 0
  /\ block' \in 1 .. highest
  /\ UNCHANGED <<sender, fileVars, highest, last_block, position, datagram, wire,
                 clientVars, backupVars>>

-----------------------------------------------------------------------------
(* The client and the network. *)

\* fwrite at the offset of block b.
Written(b, data) ==
  [o \in DOMAIN file |->
     IF Offset(b) < o /\ o <= Offset(b) + write_size(b) THEN data[o - Offset(b)] ELSE file[o]]

\* A datagram whose block is missing goes through the ring to accept_block.
\* The disk thread takes block 0 of an empty file for its stop.
accept_block ==
  \E d \in wire :
    /\ d.block <= block_count /\ d.block \notin received
    /\ received' = received \cup {d.block}
    /\ file' = IF d.block = 0 THEN file ELSE Written(d.block, d.data)
    /\ late' = (late \/ d.of # transfer)
    /\ UNCHANGED <<sender, fileVars, serverVars, wire, backupVars>>

Offsets == 1 .. BLOCK_SIZE + CHOOSE n \in FILE_SIZES : \A m \in FILE_SIZES : m <= n

Complete == 1 .. block_count \subseteq received

\* The next file is opened at both ends; what is still in flight goes to the
\* same port.
NextTransfer ==
  /\ transfer < TRANSFERS /\ Complete
  /\ transfer' = transfer + 1 /\ file_size' \in FILE_SIZES
  /\ block' = 0 /\ highest' = 0 /\ position' = 0
  /\ received' = {} /\ file' = [o \in Offsets |-> Hole] /\ late' = FALSE
  /\ backup' = <<>> /\ rewound' = FALSE
  /\ UNCHANGED <<sender, last_block, datagram, wire, last_written_vsib_block>>

FilesInit ==
  /\ sender \in SENDERS /\ transfer = 0 /\ file_size = 0
  /\ block = 0 /\ highest = 0 /\ last_block = 0 /\ position = 0
  /\ datagram = [i \in 1 .. BLOCK_SIZE |-> Hole]
  /\ wire = {} /\ received = {} /\ file = [o \in Offsets |-> Hole] /\ late = FALSE
  /\ last_written_vsib_block = 0 /\ backup = <<>> /\ rewound = FALSE

FilesNext == NextTransfer \/ SendNextBlock \/ Retransmit \/ Restart \/ accept_block

FilesSpec == FilesInit /\ [][FilesNext]_filesVars

-----------------------------------------------------------------------------
(* Properties. *)

Original(o) == <<transfer, o>>

\* Whatever is retransmitted, restarted, lost or reordered, and whatever the
\* last transfer left in last_block and in the buffer: the client's file holds
\* the bytes of the server's file at their places and not one more, and all of
\* them once every block has arrived.  The only threats are a datagram of an
\* earlier file that comes late and, to the first block alone, the reset of
\* the real-time server.
FileIsCopy ==
  ~late =>
    \A o \in DOMAIN file \ (IF rewound THEN 1 .. BLOCK_SIZE ELSE {}) :
      /\ file[o] \in {Hole} \cup (IF o <= file_size THEN {Original(o)} ELSE {})
      /\ Complete /\ o <= file_size => file[o] = Original(o)

\* The local copy of the real-time server is what it has sent, without a gap
\* and without a repetition, through retransmissions and restarts, as long as
\* the first block is not built again.
BackupIsPrefix ==
  sender = "rtserver" /\ ~rewound =>
    /\ \A i \in DOMAIN backup : backup[i] = Original(i)
    /\ Len(backup) = Lesser(BLOCK_SIZE * highest, file_size)

\* "REQUEST_RETRANSMIT -- Retransmit the given block.", rtserver/protocol.c:90:
\* a datagram carries the bytes of the block it names.
CarriesItsBlock ==
  \A d \in wire : d.of = transfer /\ d.block > 0 =>
    \A i \in 1 .. write_size(d.block) : d.data[i] = Original(Offset(d.block) + i)

-----------------------------------------------------------------------------
(* The inductive invariant behind them. *)

Byte == Nat \X Nat

FilesTypeOK ==
  /\ sender \in SENDERS /\ transfer \in Nat /\ file_size \in FILE_SIZES \cup {0}
  /\ highest \in 0 .. block_count /\ block \in 0 .. highest
  /\ last_block \in Nat /\ position \in Nat
  /\ datagram \in [1 .. BLOCK_SIZE -> Byte]
  /\ wire \subseteq [block : Nat, data : [1 .. BLOCK_SIZE -> Byte], of : Nat]
  /\ received \subseteq 0 .. block_count /\ file \in [Offsets -> Byte] /\ late \in BOOLEAN
  /\ last_written_vsib_block \in Nat /\ backup \in Seq(Byte) /\ rewound \in BOOLEAN

\* Both servers begin a file at its start.  From then on the file server
\* stands behind the block it has built last, and the real-time server seeks.
PositionIsKnown ==
  /\ highest = 0 /\ file_size > 0 => position = 0
  /\ sender = "server" /\ highest > 0 =>
       last_block \in 1 .. highest /\ position = Lesser(BLOCK_SIZE * last_block, file_size)
  /\ sender = "rtserver" => last_block = 0

\* The offsets of the bytes of block b.
BytesOf(b) == Offset(b) + 1 .. Offset(b) + write_size(b)

\* A datagram of this file that is not a first block built again is true to it.
WireIsTrue ==
  \A d \in wire :
    /\ d.of <= transfer
    /\ d.of = transfer /\ d.block > 0 /\ ~(rewound /\ d.block = 1) =>
         \A o \in BytesOf(d.block) : d.data[o - Offset(d.block)] = Original(o)

\* Each byte is a hole or the original, and it is the original in the blocks
\* of the bitmap.
FileIsTrue ==
  ~late => \A o \in Offsets :
    ~(rewound /\ o <= BLOCK_SIZE) =>
      /\ file[o] = Hole \/ (o <= file_size /\ file[o] = Original(o))
      /\ \A b \in received \ {0} : o \in BytesOf(b) => file[o] = Original(o)

\* Until it builds block 1 again, the real-time server has stored all that it
\* has sent.
BackupIsCurrent ==
  /\ rewound => sender = "rtserver"
  /\ sender = "rtserver" /\ ~rewound /\ highest > 0 => last_written_vsib_block = highest

FilesInv ==
  FilesTypeOK /\ PositionIsKnown /\ WireIsTrue /\ FileIsTrue /\ BackupIsCurrent /\ BackupIsPrefix
=============================================================================
