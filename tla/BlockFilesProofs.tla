-------------------------- MODULE BlockFilesProofs --------------------------
(***************************************************************************)
(* Proofs about the files at both ends of a transfer, for every size of a  *)
(* block and of the files, every number of transfers, and any loss,        *)
(* repetition and exchange of datagrams: the client's file is a copy, and  *)
(* the local copy of the real-time server has neither gap nor repetition.  *)
(***************************************************************************)
EXTENDS BlockFiles, SequenceTheorems, TLAPS

-----------------------------------------------------------------------------
(* How blocks divide a file. *)

LEMMA Division ==
  ASSUME NEW f \in Nat, NEW s \in Nat \ {0}
  PROVE  /\ f \div s \in Nat /\ f % s \in 0 .. s - 1
         /\ f = s * (f \div s) + (f % s)
  BY SMT

LEMMA Times ==
  ASSUME NEW s \in Nat \ {0}, NEW a \in Int, NEW b \in Int
  PROVE  /\ s * a \in Int /\ s * b \in Int
         /\ s * (b - 1) = s * b - s /\ s * (b + 1) = s * b + s
         /\ a <= b => s * a <= s * b
         /\ a < b => s * a + s <= s * b
<1>1. s * a \in Int /\ s * b \in Int /\ s * (b - 1) = s * b - s
  BY SMT
<1>2. s * (b + 1) = s * b + s
  BY SMT
<1>3. ASSUME a <= b PROVE s * a <= s * b
  <2> DEFINE d == b - a
  <2>1. d \in Nat /\ b = a + d
    BY <1>3, SMT
  <2>2. s * b = s * a + s * d /\ s * d >= 0 /\ s * d \in Int
    BY <2>1, SMT
  <2> QED
    BY <2>2, <1>1, SMT
<1>4. ASSUME a < b PROVE s * a + s <= s * b
  <2> DEFINE d == b - a - 1
  <2>1. d \in Nat /\ b = (a + d) + 1
    BY <1>4, SMT
  <2> HIDE DEF d
  <2>2. /\ s * d >= 0 /\ s * d \in Int /\ s * (a + d) = s * a + s * d
        /\ s * ((a + d) + 1) = s * (a + d) + s
    BY <2>1, SMT
  <2> QED
    BY <2>1, <2>2, <1>1, SMT
<1> QED
  BY <1>1, <1>2, <1>3, <1>4

\* The number of blocks, the place of each and the size of the last.
LEMMA Blocks ==
  ASSUME FilesAssumption, file_size \in Nat
  PROVE  /\ block_count \in Nat /\ (block_count = 0 <=> file_size = 0)
         /\ file_size <= BLOCK_SIZE * block_count
         /\ \A b \in 1 .. block_count :
              /\ BLOCK_SIZE * b \in Nat /\ Offset(b) \in Nat
              /\ Offset(b) = BLOCK_SIZE * b - BLOCK_SIZE
              /\ write_size(b) \in 1 .. BLOCK_SIZE
              /\ Offset(b) + write_size(b) = Lesser(BLOCK_SIZE * b, file_size)
              /\ Offset(b) + write_size(b) <= file_size
              /\ b < block_count => BLOCK_SIZE * b < file_size
<1> DEFINE s == BLOCK_SIZE
           q == file_size \div s
           r == file_size % s
           n == IF r = 0 THEN q ELSE q + 1
<1>0. s \in Nat \ {0}
  BY DEF FilesAssumption
<1>1. q \in Nat /\ r \in 0 .. s - 1 /\ file_size = s * q + r
  BY <1>0, Division
<1>2. block_count = n
  BY <1>1, SMT DEF block_count
<1> HIDE DEF s, q, r
<1>3. s * q \in Int /\ s * (q + 1) = s * q + s /\ s * 0 = 0
  BY <1>0, <1>1, Times, SMT
<1>4. n \in Nat /\ file_size <= s * n
  BY <1>0, <1>1, <1>3, SMT
<1>5. n = 0 <=> file_size = 0
  <2>1. CASE q = 0
    BY <1>0, <1>1, <1>3, <2>1, SMT
  <2>2. CASE q > 0
    <3>1. s * 0 + s <= s * q
      BY <1>0, <1>1, <2>2, Times
    <3> QED
      BY <1>0, <1>1, <1>3, <2>2, <3>1, SMT
  <2> QED
    BY <1>1, <2>1, <2>2, SMT
<1>6. ASSUME NEW b \in 1 .. n
      PROVE  /\ s * b \in Nat /\ Offset(b) \in Nat /\ Offset(b) = s * b - s
             /\ write_size(b) \in 1 .. s
             /\ Offset(b) + write_size(b) = Lesser(s * b, file_size)
             /\ Offset(b) + write_size(b) <= file_size
             /\ b < n => s * b < file_size
  <2>1. b \in Nat /\ 1 <= b /\ b <= n
    BY <1>4, SMT
  <2>2. s * b \in Int /\ s * (b - 1) = s * b - s /\ s * 0 + s <= s * b
    BY <1>0, <2>1, Times
  <2>3. s * b \in Nat /\ s <= s * b
    BY <1>0, <1>3, <2>2, SMT
  <2>4. Offset(b) = s * b - s /\ Offset(b) \in Nat
    BY <1>0, <2>1, <2>2, <2>3, SMT DEF Offset, s
  <2>5. write_size(b) = IF b = n /\ r # 0 THEN r ELSE s
    BY <1>2 DEF write_size, r, s
  <2>6. CASE b = n /\ r # 0
    <3>1. s * b = s * q + s
      BY <1>3, <2>6
    <3> QED
      BY <1>0, <1>1, <1>3, <2>3, <2>4, <2>5, <2>6, <3>1, SMT DEF Lesser
  <2>7. CASE ~(b = n /\ r # 0)
    <3>1. b <= q
      BY <1>1, <2>1, <2>7, SMT
    <3>2. s * b <= s * q
      BY <1>0, <1>1, <2>1, <3>1, Times
    <3>3. b < n => s * b < file_size
      <4> SUFFICES ASSUME b < n PROVE s * b < file_size
        OBVIOUS
      <4>1. CASE r = 0
        <5>1. s * b + s <= s * q
          BY <1>0, <1>1, <2>1, <4>1, Times, SMT
        <5> QED
          BY <1>0, <1>1, <1>3, <2>3, <5>1, SMT
      <4>2. CASE r # 0
        BY <1>1, <1>3, <2>3, <3>2, <4>2, SMT
      <4> QED
        BY <4>1, <4>2
    <3> QED
      BY <1>0, <1>1, <1>3, <2>3, <2>4, <2>5, <2>7, <3>2, <3>3, SMT DEF Lesser
  <2> QED
    BY <2>3, <2>4, <2>6, <2>7
<1> QED
  BY <1>2, <1>4, <1>5, <1>6 DEF s

\* Every byte of a file is in a block of it.
LEMMA BlocksCover ==
  ASSUME FilesAssumption, file_size \in Nat, NEW o \in 1 .. file_size
  PROVE  \E b \in 1 .. block_count : o \in BytesOf(b)
<1> DEFINE s == BLOCK_SIZE
           q == (o - 1) \div s
           r == (o - 1) % s
           b == q + 1
<1>0. s \in Nat \ {0} /\ o \in Nat /\ o - 1 \in Nat /\ o <= file_size
  BY SMT DEF FilesAssumption
<1>1. q \in Nat /\ r \in 0 .. s - 1 /\ o - 1 = s * q + r
  BY <1>0, Division
<1> HIDE DEF s, q, r
<1>2. s * q \in Int /\ s * b = s * q + s
  BY <1>0, <1>1, Times, SMT
<1>3. block_count \in Nat /\ file_size <= s * block_count
  BY Blocks DEF s
<1>4. b \in 1 .. block_count
  <2>1. ASSUME block_count < b PROVE FALSE
    <3>1. block_count <= q
      BY <1>1, <1>3, <2>1, SMT
    <3>2. s * block_count <= s * q /\ s * block_count \in Int
      BY <1>0, <1>1, <1>3, <3>1, Times
    <3> QED
      BY <1>0, <1>1, <1>2, <1>3, <3>2, SMT
  <2> QED
    BY <1>1, <1>3, <2>1, SMT
<1>5. Offset(b) = s * b - s /\ Offset(b) + write_size(b) = Lesser(s * b, file_size)
  BY <1>4, Blocks DEF s
<1>6. Offset(b) + 1 <= o /\ o <= Offset(b) + write_size(b)
  BY <1>0, <1>1, <1>2, <1>5, SMT DEF Lesser
<1>7. Offset(b) \in Nat /\ write_size(b) \in Nat
  BY <1>0, <1>4, Blocks, SMT DEF s
<1>8. o \in BytesOf(b)
  <2> HIDE DEF b
  <2> QED
    BY <1>0, <1>6, <1>7, SMT DEF BytesOf
<1> QED
  BY <1>4, <1>8

\* As long as the file is the same one, so are its blocks.
LEMMA SameBlocks ==
  ASSUME UNCHANGED fileVars
  PROVE  /\ transfer' = transfer /\ file_size' = file_size /\ block_count' = block_count
         /\ \A b : write_size(b)' = write_size(b) /\ BytesOf(b)' = BytesOf(b)
         /\ \A o : Original(o)' = Original(o)
<1>1. transfer' = transfer /\ file_size' = file_size
  BY DEF fileVars
<1>2. block_count' = block_count
  BY <1>1 DEF block_count
<1>3. ASSUME NEW b PROVE write_size(b)' = write_size(b)
  BY <1>1, <1>2 DEF write_size
<1>4. ASSUME NEW b PROVE BytesOf(b)' = BytesOf(b)
  BY <1>3 DEF BytesOf, Offset
<1>5. ASSUME NEW o PROVE Original(o)' = Original(o)
  BY <1>1 DEF Original
<1> QED
  BY <1>1, <1>2, <1>3, <1>4, <1>5

-----------------------------------------------------------------------------
(* Building a datagram. *)

LEMMA FileSize ==
  ASSUME FilesAssumption, FilesTypeOK
  PROVE  file_size \in Nat /\ sender \in Sender
BY DEF FilesAssumption, FilesTypeOK

\* A block is read at its place, by whichever way the server gets there, unless
\* the real-time server builds block 1 again.
LEMMA SeeksRight ==
  ASSUME FilesAssumption, FilesTypeOK, PositionIsKnown,
         NEW b \in 1 .. block_count, b <= highest + 1,
         sender = "server" \/ b > 1 \/ highest = 0
  PROVE  SeekTo(b) = Offset(b)
<1>1. file_size \in Nat /\ BLOCK_SIZE \in Nat \ {0}
  BY FileSize DEF FilesAssumption
<1>2. /\ block_count \in Nat /\ file_size > 0 /\ Offset(b) = BLOCK_SIZE * b - BLOCK_SIZE
      /\ BLOCK_SIZE * b \in Nat
  <2>1. block_count \in Nat /\ block_count # 0
    BY <1>1, Blocks, SMT
  <2> QED
    BY <1>1, <2>1, Blocks, SMT
<1>3. highest \in Nat /\ last_block \in Nat /\ highest <= block_count /\ b \in Nat /\ 1 <= b
      /\ b <= block_count
  BY <1>2, SMT DEF FilesTypeOK
<1>4. CASE highest = 0
  <2>1. b = 1 /\ position = 0
    BY <1>2, <1>3, <1>4, SMT DEF PositionIsKnown
  <2>2. Offset(b) = 0
    BY <1>1, <1>2, <2>1, SMT
  <2> QED
    BY <2>1, <2>2 DEF SeekTo
<1>5. CASE highest # 0 /\ b = last_block + 1
  <2>1. sender = "server"
    BY <1>3, <1>5, FileSize, SMT DEF PositionIsKnown, Sender
  <2>2. last_block \in 1 .. highest /\ position = Lesser(BLOCK_SIZE * last_block, file_size)
    BY <1>3, <1>5, <2>1, SMT DEF PositionIsKnown
  <2>3. last_block \in 1 .. block_count /\ last_block < block_count
    BY <1>2, <1>3, <1>5, <2>2, SMT
  <2>4. BLOCK_SIZE * last_block < file_size /\ BLOCK_SIZE * last_block \in Nat
    BY <1>1, <2>3, Blocks
  <2>5. BLOCK_SIZE * b = BLOCK_SIZE * last_block + BLOCK_SIZE
    BY <1>1, <1>3, <1>5, Times
  <2>6. position = BLOCK_SIZE * last_block
    BY <1>1, <2>2, <2>4, SMT DEF Lesser
  <2> QED
    BY <1>1, <1>2, <1>5, <2>4, <2>5, <2>6, SMT DEF SeekTo
<1>6. CASE b # last_block + 1
  BY <1>6 DEF SeekTo
<1> QED
  BY <1>4, <1>5, <1>6

LEMMA Reads ==
  ASSUME FilesAssumption, FilesTypeOK, NEW p \in Nat
  PROVE  /\ Available(p) \in 0 .. BLOCK_SIZE
         /\ Filled(p) \in [1 .. BLOCK_SIZE -> Byte]
         /\ \A i \in 1 .. Available(p) : Filled(p)[i] = << transfer, p + i >>
<1>1. file_size \in Nat /\ BLOCK_SIZE \in Nat \ {0} /\ transfer \in Nat
      /\ datagram \in [1 .. BLOCK_SIZE -> Byte]
  BY FileSize DEF FilesAssumption, FilesTypeOK
<1>2. Available(p) \in 0 .. BLOCK_SIZE
  BY <1>1, SMT DEF Available
<1>3. ASSUME NEW i \in 1 .. BLOCK_SIZE
      PROVE  (IF i <= Available(p) THEN << transfer, p + i >> ELSE datagram[i]) \in Byte
  <2>1. p + i \in Nat /\ datagram[i] \in Byte
    BY <1>1, SMT
  <2> QED
    BY <1>1, <2>1 DEF Byte
<1>4. Filled(p) \in [1 .. BLOCK_SIZE -> Byte]
  BY <1>3 DEF Filled
<1>5. ASSUME NEW i \in 1 .. Available(p) PROVE Filled(p)[i] = << transfer, p + i >>
  <2>1. i \in 1 .. BLOCK_SIZE /\ i <= Available(p)
    BY <1>1, <1>2, SMT
  <2> QED
    BY <2>1 DEF Filled
<1> QED
  BY <1>2, <1>4, <1>5

\* What is read at the place of a block is the block.
LEMMA ReadsBlock ==
  ASSUME FilesAssumption, FilesTypeOK, NEW b \in 1 .. block_count
  PROVE  /\ Filled(Offset(b)) \in [1 .. BLOCK_SIZE -> Byte]
         /\ \A i \in 1 .. write_size(b) : Filled(Offset(b))[i] = << transfer, Offset(b) + i >>
         /\ Offset(b) + Available(Offset(b)) \in Nat
         /\ sender = "server" =>
              Offset(b) + Available(Offset(b)) = Lesser(BLOCK_SIZE * b, file_size)
<1>1. file_size \in Nat /\ BLOCK_SIZE \in Nat \ {0} /\ sender \in Sender
  BY FileSize DEF FilesAssumption
<1>2. /\ Offset(b) \in Nat /\ BLOCK_SIZE * b \in Nat /\ Offset(b) = BLOCK_SIZE * b - BLOCK_SIZE
      /\ write_size(b) \in 1 .. BLOCK_SIZE
      /\ Offset(b) + write_size(b) = Lesser(BLOCK_SIZE * b, file_size)
  BY <1>1, Blocks
<1>3. /\ Available(Offset(b)) \in 0 .. BLOCK_SIZE /\ Filled(Offset(b)) \in [1 .. BLOCK_SIZE -> Byte]
      /\ \A i \in 1 .. Available(Offset(b)) : Filled(Offset(b))[i] = << transfer, Offset(b) + i >>
  BY <1>2, Reads
<1>4. sender = "server" => Available(Offset(b)) = write_size(b)
  BY <1>1, <1>2, SMT DEF Available, Lesser
<1>5. sender # "server" => Available(Offset(b)) = BLOCK_SIZE
  BY <1>1 DEF Available, Sender
<1>6. write_size(b) <= Available(Offset(b))
  BY <1>1, <1>2, <1>4, <1>5, SMT
<1>7. ASSUME NEW i \in 1 .. write_size(b)
      PROVE  Filled(Offset(b))[i] = << transfer, Offset(b) + i >>
  <2>1. i \in 1 .. Available(Offset(b))
    BY <1>1, <1>2, <1>3, <1>6, SMT
  <2> QED
    BY <2>1, <1>3
<1>8. Offset(b) + Available(Offset(b)) \in Nat
  BY <1>1, <1>2, <1>3, SMT
<1> QED
  BY <1>2, <1>3, <1>4, <1>7, <1>8

-----------------------------------------------------------------------------
(* Every datagram that is built keeps the invariant.  The send loop and a  *)
(* retransmission differ in the block and in what they count.              *)

Building(b) ==
  /\ b \in 0 .. block_count /\ b <= highest + 1 /\ (b = 0 => file_size = 0)
  /\ build_datagram(b)
  /\ highest' = (IF b > highest THEN b ELSE highest)
  /\ block' \in 0 .. highest'
  /\ UNCHANGED << sender, fileVars, clientVars >>

LEMMA BuildFacts ==
  ASSUME FilesAssumption, FilesTypeOK, NEW b, Building(b)
  PROVE  /\ b \in Nat /\ highest \in Nat /\ highest <= block_count /\ block_count \in Nat
         /\ file_size \in Nat /\ BLOCK_SIZE \in Nat \ {0}
         /\ b # 0 => b \in 1 .. block_count
         /\ b = 0 => highest = 0 /\ highest' = 0 /\ file_size = 0
         /\ highest' \in Nat /\ highest' <= block_count
         /\ SeekTo(b) \in Nat
<1>1. file_size \in Nat /\ BLOCK_SIZE \in Nat \ {0}
  BY FileSize DEF FilesAssumption
<1>2. block_count \in Nat /\ (block_count = 0 <=> file_size = 0)
  BY <1>1, Blocks
<1>3. /\ b \in Nat /\ highest \in Nat /\ highest <= block_count
      /\ b # 0 => b \in 1 .. block_count
      /\ b = 0 => highest = 0 /\ highest' = 0 /\ file_size = 0
      /\ highest' \in Nat /\ highest' <= block_count
  BY <1>2, SMT DEF FilesTypeOK, Building
<1>4. SeekTo(b) \in Nat
  <2>1. Offset(b) \in Nat
    <3>1. CASE b = 0
      <4>1. BLOCK_SIZE * FAR \in Nat
        BY SMT DEF FilesAssumption
      <4> QED
        BY <3>1, <4>1 DEF Offset
    <3>2. CASE b # 0
      BY <1>1, <1>3, <3>2, Blocks
    <3> QED
      BY <3>1, <3>2
  <2> QED
    BY <2>1 DEF SeekTo, FilesTypeOK
<1> QED
  BY <1>1, <1>2, <1>3, <1>4

\* The local copy takes the first bytes of a block.
LEMMA TakesBlock ==
  ASSUME FilesAssumption, FilesTypeOK, NEW b \in 1 .. block_count, NEW p \in Nat
  PROVE  LET part == SubSeq(Filled(p), 1, write_size(b))
         IN  /\ part \in Seq(Byte) /\ Len(part) = write_size(b)
             /\ \A i \in 1 .. write_size(b) : part[i] = Filled(p)[i]
<1>1. BLOCK_SIZE \in Nat /\ write_size(b) \in 1 .. BLOCK_SIZE
  BY FileSize, Blocks DEF FilesAssumption
<1>2. Filled(p) \in [1 .. BLOCK_SIZE -> Byte]
  BY Reads
<1> DEFINE w == write_size(b)
           f == Filled(p)
<1> HIDE DEF w, f
<1>3. w \in Nat /\ w >= 1 /\ w <= BLOCK_SIZE
  BY <1>1, SMT DEF w
<1>4. \A i \in 1 .. w : f[i] \in Byte
  BY <1>1, <1>2, <1>3, SMT DEF f
<1>5. /\ SubSeq(f, 1, w) \in Seq(Byte)
      /\ Len(SubSeq(f, 1, w)) = IF 1 <= w THEN w - 1 + 1 ELSE 0
      /\ \A i \in 1 .. w - 1 + 1 : SubSeq(f, 1, w)[i] = f[1 + i - 1]
  <2>1. 1 \in Int /\ w \in Int
    BY <1>3, SMT
  <2> QED
    BY <1>4, <2>1, SubSeqProperties
<1>6. w - 1 + 1 = w /\ \A i \in 1 .. w : 1 + i - 1 = i
  BY <1>3, SMT
<1>7. ASSUME NEW i \in 1 .. w PROVE SubSeq(f, 1, w)[i] = f[i]
  <2>1. 1 + i - 1 = i /\ i \in 1 .. w - 1 + 1
    BY <1>3, SMT
  <2> QED
    BY <1>5, <2>1
<1> QED
  BY <1>3, <1>5, <1>6, <1>7 DEF w, f

LEMMA BuildTypes ==
  ASSUME FilesAssumption, FilesTypeOK, NEW b, Building(b)
  PROVE  FilesTypeOK'
<1>1. b \in Nat /\ SeekTo(b) \in Nat /\ (b # 0 => b \in 1 .. block_count)
  BY BuildFacts
<1>2. transfer' = transfer /\ file_size' = file_size /\ block_count' = block_count
  BY SameBlocks DEF Building
<1>3. /\ Available(SeekTo(b)) \in Nat /\ Filled(SeekTo(b)) \in [1 .. BLOCK_SIZE -> Byte]
  <2>1. Available(SeekTo(b)) \in 0 .. BLOCK_SIZE /\ BLOCK_SIZE \in Nat
    BY <1>1, Reads DEF FilesAssumption
  <2> QED
    BY <1>1, <2>1, Reads, SMT
<1>4. datagram' \in [1 .. BLOCK_SIZE -> Byte] /\ position' \in Nat /\ last_block' \in Nat
  BY <1>1, <1>3, SMT DEF Building, build_datagram, Remembers
<1>5. wire' \subseteq [block : Nat, data : [1 .. BLOCK_SIZE -> Byte], of : Nat]
  <2>1. PICK arriving \in SUBSET wire :
          wire' = arriving \cup {[block |-> b, data |-> Filled(SeekTo(b)), of |-> transfer]}
    BY DEF Building, build_datagram, Transmit
  <2>2. transfer \in Nat /\ wire \subseteq [block : Nat, data : [1 .. BLOCK_SIZE -> Byte], of : Nat]
    BY DEF FilesTypeOK
  <2>3. [block |-> b, data |-> Filled(SeekTo(b)), of |-> transfer]
          \in [block : Nat, data : [1 .. BLOCK_SIZE -> Byte], of : Nat]
    BY <1>1, <1>3, <2>2
  <2> QED
    BY <2>1, <2>2, <2>3
<1>6. last_written_vsib_block' \in Nat /\ backup' \in Seq(Byte) /\ rewound' \in BOOLEAN
  <2>1. CASE sender # "rtserver"
    BY <2>1 DEF Building, build_datagram, backupVars, FilesTypeOK
  <2>2. CASE sender = "rtserver"
    <3> DEFINE part == SubSeq(Filled(SeekTo(b)), 1, write_size(b))
    <3>1. StoreBackup(b)
      BY <2>2 DEF Building, build_datagram
    <3>2. rewound' \in BOOLEAN /\ last_written_vsib_block' \in Nat
      BY <1>1, <3>1, SMT DEF StoreBackup, FilesTypeOK
    <3>3. backup' = backup \/ (b # 0 /\ backup' = backup \o part)
      BY <3>1 DEF StoreBackup
    <3>4. b # 0 => part \in Seq(Byte)
      BY <1>1, TakesBlock
    <3> HIDE DEF part
    <3>5. backup' \in Seq(Byte)
      <4>1. backup \in Seq(Byte)
        BY DEF FilesTypeOK
      <4>2. CASE backup' = backup
        BY <4>1, <4>2
      <4>3. CASE b # 0 /\ backup' = backup \o part
        <5>1. part \in Seq(Byte)
          BY <3>4, <4>3
        <5>2. backup \o part \in Seq(Byte)
          BY <4>1, <5>1, ConcatProperties, Zenon
        <5> QED
          BY <4>3, <5>2
      <4> QED
        BY <3>3, <4>2, <4>3
    <3> QED
      BY <3>2, <3>5
  <2> QED
    BY <2>1, <2>2
<1>7. highest' \in 0 .. block_count' /\ block' \in 0 .. highest'
  BY <1>2, BuildFacts, SMT DEF Building
<1>8. /\ sender' = sender /\ received' = received /\ file' = file /\ late' = late
  BY DEF Building, clientVars
<1> QED
  BY <1>2, <1>4, <1>5, <1>6, <1>7, <1>8 DEF FilesTypeOK

LEMMA BuildPosition ==
  ASSUME FilesAssumption, FilesTypeOK, PositionIsKnown, NEW b, Building(b)
  PROVE  PositionIsKnown'
<1>1. /\ b \in Nat /\ highest \in Nat
      /\ b # 0 => b \in 1 .. block_count
      /\ b = 0 => highest' = 0 /\ file_size = 0
  BY BuildFacts
<1>2. file_size' = file_size /\ sender' = sender
  BY SameBlocks DEF Building
<1>3. b # 0 => highest' # 0 /\ b \in 1 .. highest'
  BY <1>1, SMT DEF Building
<1>4. sender = "rtserver" => last_block' = 0
  BY DEF Building, build_datagram, Remembers
<1>5. ASSUME sender = "server", b # 0
      PROVE  last_block' = b /\ position' = Lesser(BLOCK_SIZE * b, file_size)
  <2>1. SeekTo(b) = Offset(b)
    BY <1>1, <1>5, SeeksRight DEF Building
  <2>2. Offset(b) + Available(Offset(b)) = Lesser(BLOCK_SIZE * b, file_size)
    <3>1. b \in 1 .. block_count
      BY <1>1, <1>5
    <3>2. sender = "server" => Offset(b) + Available(Offset(b)) = Lesser(BLOCK_SIZE * b, file_size)
      BY <3>1, ReadsBlock, Zenon
    <3> QED
      BY <1>5, <3>2
  <2> QED
    BY <1>5, <2>1, <2>2 DEF Building, build_datagram, Remembers
<1>6. highest' = 0 /\ file_size' > 0 => position' = 0
  BY <1>1, <1>2, <1>3, SMT
<1>7. ASSUME sender' = "server", highest' > 0
      PROVE  last_block' \in 1 .. highest' /\ position' = Lesser(BLOCK_SIZE * last_block', file_size')
  <2>1. b # 0
    BY <1>1, <1>7, SMT
  <2>2. last_block' = b /\ position' = Lesser(BLOCK_SIZE * b, file_size)
    BY <1>2, <1>5, <1>7, <2>1
  <2> QED
    BY <1>2, <1>3, <2>1, <2>2
<1> QED
  BY <1>2, <1>4, <1>6, <1>7 DEF PositionIsKnown, Lesser

\* Only a first block that the real-time server builds again differs from the
\* file.
LEMMA BuildWire ==
  ASSUME FilesAssumption, FilesTypeOK, PositionIsKnown, WireIsTrue, NEW b, Building(b)
  PROVE  WireIsTrue'
<1>1. /\ b \in Nat /\ highest \in Nat
      /\ b # 0 => b \in 1 .. block_count
  BY BuildFacts
<1>2. /\ transfer' = transfer
      /\ \A c : BytesOf(c)' = BytesOf(c)
      /\ \A o : Original(o)' = Original(o)
  BY SameBlocks DEF Building
<1>3. /\ rewound => rewound'
      /\ sender = "rtserver" /\ b = 1 /\ highest > 0 => rewound'
  BY DEF Building, build_datagram, StoreBackup, backupVars
<1>4. PICK arriving \in SUBSET wire :
        wire' = arriving \cup {[block |-> b, data |-> Filled(SeekTo(b)), of |-> transfer]}
  BY DEF Building, build_datagram, Transmit
<1> SUFFICES ASSUME NEW d \in wire'
    PROVE  /\ d.of <= transfer
           /\ d.of = transfer /\ d.block > 0 /\ ~(rewound' /\ d.block = 1) =>
                \A o \in BytesOf(d.block) : d.data[o - Offset(d.block)] = Original(o)
  BY <1>2 DEF WireIsTrue, Offset
<1>5. CASE d \in wire
  BY <1>3, <1>5 DEF WireIsTrue
<1>6. CASE d = [block |-> b, data |-> Filled(SeekTo(b)), of |-> transfer]
  <2>1. d.block = b /\ d.of = transfer /\ d.data = Filled(SeekTo(b)) /\ transfer \in Nat
    BY <1>6 DEF FilesTypeOK
  <2> SUFFICES ASSUME b > 0, ~(rewound' /\ b = 1), NEW o \in BytesOf(b)
      PROVE  Filled(SeekTo(b))[o - Offset(b)] = Original(o)
    BY <2>1, SMT
  <2>2. b \in 1 .. block_count
    BY <1>1, SMT
  <2>3. sender = "server" \/ b > 1 \/ highest = 0
    BY <1>1, <1>3, <2>2, FileSize, SMT DEF Sender
  <2>4. SeekTo(b) = Offset(b)
    BY <2>2, <2>3, SeeksRight DEF Building
  <2>5. /\ Offset(b) \in Nat /\ write_size(b) \in Nat
    <3>1. BLOCK_SIZE \in Nat /\ Offset(b) \in Nat /\ write_size(b) \in 1 .. BLOCK_SIZE
      BY <2>2, FileSize, Blocks DEF FilesAssumption
    <3> QED
      BY <3>1, SMT
  <2>6. o \in Int /\ o - Offset(b) \in 1 .. write_size(b) /\ Offset(b) + (o - Offset(b)) = o
    BY <2>5, SMT DEF BytesOf
  <2>7. \A i \in 1 .. write_size(b) : Filled(Offset(b))[i] = << transfer, Offset(b) + i >>
    BY <2>2, ReadsBlock, Zenon
  <2> QED
    BY <2>4, <2>6, <2>7 DEF Original
<1> QED
  BY <1>4, <1>5, <1>6

LEMMA BuildFile ==
  ASSUME FilesAssumption, FilesTypeOK, FileIsTrue, NEW b, Building(b)
  PROVE  FileIsTrue'
<1>1. /\ file_size' = file_size
      /\ \A c : BytesOf(c)' = BytesOf(c)
      /\ \A o : Original(o)' = Original(o)
  BY SameBlocks DEF Building
<1>2. /\ rewound => rewound'
      /\ received' = received /\ file' = file /\ late' = late
  BY DEF Building, build_datagram, StoreBackup, backupVars, clientVars
<1> QED
  BY <1>1, <1>2 DEF FileIsTrue, Offsets, Hole

\* The local copy grows by each new block and by no other.
LEMMA BuildBackup ==
  ASSUME FilesAssumption, FilesTypeOK, PositionIsKnown, BackupIsCurrent, BackupIsPrefix,
         NEW b, Building(b)
  PROVE  BackupIsCurrent' /\ BackupIsPrefix'
<1>1. /\ b \in Nat /\ highest \in Nat /\ highest <= block_count /\ block_count \in Nat
      /\ file_size \in Nat /\ BLOCK_SIZE \in Nat \ {0}
      /\ b # 0 => b \in 1 .. block_count
      /\ b = 0 => highest = 0 /\ highest' = 0 /\ file_size = 0
      /\ SeekTo(b) \in Nat
  BY BuildFacts
<1>2. /\ sender' = sender /\ transfer' = transfer /\ file_size' = file_size
      /\ \A o : Original(o)' = Original(o)
      /\ b <= highest + 1 /\ highest' = (IF b > highest THEN b ELSE highest)
  BY SameBlocks DEF Building
<1>3. CASE sender # "rtserver"
  <2>1. rewound' = rewound
    BY <1>3 DEF Building, build_datagram, backupVars
  <2> QED
    BY <1>2, <1>3, <2>1 DEF BackupIsCurrent, BackupIsPrefix
<1>4. CASE sender = "rtserver" /\ rewound'
  BY <1>2, <1>4 DEF BackupIsCurrent, BackupIsPrefix
<1>5. CASE sender = "rtserver" /\ ~rewound'
  <2> DEFINE part == SubSeq(Filled(SeekTo(b)), 1, write_size(b))
             written == IF b = 1 THEN 0 ELSE last_written_vsib_block
  <2>1. /\ ~rewound /\ ~(b = 1 /\ highest > 0)
        /\ IF b # 0 /\ b = written + 1
           THEN last_written_vsib_block' = b /\ backup' = backup \o part
           ELSE last_written_vsib_block' = written /\ backup' = backup
    BY <1>5 DEF Building, build_datagram, StoreBackup
  <2>2. highest > 0 => last_written_vsib_block = highest
    BY <1>5, <2>1 DEF BackupIsCurrent
  <2>3. /\ backup \in Seq(Byte) /\ last_written_vsib_block \in Nat
        /\ Len(backup) = Lesser(BLOCK_SIZE * highest, file_size)
        /\ \A i \in DOMAIN backup : backup[i] = Original(i)
    BY <1>5, <2>1 DEF BackupIsPrefix, FilesTypeOK
  <2>4. CASE b = 0 \/ b <= highest
    <3>1. highest' = highest
      BY <1>1, <1>2, <2>4, SMT
    <3>2. /\ backup' = backup
          /\ highest > 0 => last_written_vsib_block' = highest
      <4> HIDE DEF part
      <4> QED
        BY <1>1, <2>1, <2>2, <2>3, <2>4, SMT
    <3> QED
      BY <1>2, <1>5, <2>3, <3>1, <3>2 DEF BackupIsCurrent, BackupIsPrefix, Lesser
  <2>5. CASE b # 0 /\ b > highest
    <3>1. b = highest + 1 /\ b \in 1 .. block_count /\ highest' = b
      BY <1>1, <1>2, <2>5, SMT
    <3>2. b = written + 1
      BY <1>1, <2>1, <2>2, <3>1, SMT
    <3>3. last_written_vsib_block' = b /\ backup' = backup \o part
      BY <2>1, <2>5, <3>2
    <3>4. /\ Offset(b) = BLOCK_SIZE * b - BLOCK_SIZE /\ Offset(b) \in Nat
          /\ write_size(b) \in 1 .. BLOCK_SIZE
          /\ Offset(b) + write_size(b) = Lesser(BLOCK_SIZE * b, file_size)
          /\ Offset(b) + write_size(b) <= file_size
      BY <1>1, <3>1, Blocks
    <3>5. SeekTo(b) = Offset(b)
      BY <1>1, <2>1, <3>1, SeeksRight, SMT
    <3>6. /\ part \in Seq(Byte) /\ Len(part) = write_size(b)
          /\ \A i \in 1 .. write_size(b) : part[i] = << transfer, Offset(b) + i >>
      <4>1. /\ part \in Seq(Byte) /\ Len(part) = write_size(b)
            /\ \A i \in 1 .. write_size(b) : part[i] = Filled(Offset(b))[i]
        BY <3>1, <3>4, <3>5, TakesBlock
      <4>2. \A i \in 1 .. write_size(b) : Filled(Offset(b))[i] = << transfer, Offset(b) + i >>
        BY <3>1, ReadsBlock, Zenon
      <4> QED
        BY <4>1, <4>2
    <3>7. Len(backup) = Offset(b)
      <4>1. BLOCK_SIZE * b = BLOCK_SIZE * highest + BLOCK_SIZE /\ BLOCK_SIZE * highest \in Int
        BY <1>1, <3>1, Times
      <4> DEFINE x == BLOCK_SIZE * highest
                 y == BLOCK_SIZE * b
                 w == write_size(b)
                 p == Offset(b)
      <4>2. y = x + BLOCK_SIZE /\ x \in Int /\ p = y - BLOCK_SIZE /\ p \in Nat
            /\ p + w <= file_size /\ w \in 1 .. BLOCK_SIZE
        BY <3>4, <4>1
      <4>3. Len(backup) = IF x < file_size THEN x ELSE file_size
        BY <2>3 DEF Lesser
      <4> HIDE DEF x, y, w, p
      <4>4. Len(backup) = p
        BY <1>1, <4>2, <4>3, SMT
      <4> QED
        BY <4>4 DEF p
    <3> HIDE DEF part, written
    <3>8. /\ Len(backup') = Offset(b) + write_size(b) /\ backup' \in Seq(Byte)
          /\ \A i \in 1 .. Offset(b) + write_size(b) :
               backup'[i] = IF i <= Offset(b) THEN backup[i] ELSE part[i - Offset(b)]
      <4>1. backup \in Seq(Byte) /\ part \in Seq(Byte)
        BY <2>3, <3>6
      <4>2. /\ backup \o part \in Seq(Byte)
            /\ Len(backup \o part) = Len(backup) + Len(part)
            /\ \A i \in 1 .. Len(backup) + Len(part) :
                 (backup \o part)[i] = IF i <= Len(backup) THEN backup[i]
                                       ELSE part[i - Len(backup)]
        BY <4>1, ConcatProperties, Zenon
      <4>3. Len(backup) = Offset(b) /\ Len(part) = write_size(b) /\ backup' = backup \o part
        BY <3>3, <3>6, <3>7
      <4> QED
        BY <4>2, <4>3
    <3>9. DOMAIN backup' = 1 .. Offset(b) + write_size(b) /\ DOMAIN backup = 1 .. Offset(b)
      BY <2>3, <3>7, <3>8, LenProperties
    <3>10. ASSUME NEW i \in DOMAIN backup' PROVE backup'[i] = << transfer, i >>
      <4>0. i \in 1 .. Offset(b) + write_size(b) /\ i \in Int /\ write_size(b) \in Nat
        BY <1>1, <3>4, <3>9, SMT
      <4>1. CASE i <= Offset(b)
        <5>1. i \in DOMAIN backup /\ backup'[i] = backup[i]
          BY <3>4, <3>8, <3>9, <4>0, <4>1, SMT
        <5> QED
          BY <2>3, <5>1 DEF Original
      <4>2. CASE ~(i <= Offset(b))
        <5>1. i - Offset(b) \in 1 .. write_size(b) /\ Offset(b) + (i - Offset(b)) = i
          BY <3>4, <4>0, <4>2, SMT
        <5>2. backup'[i] = part[i - Offset(b)]
          BY <3>8, <4>0, <4>2
        <5> QED
          BY <3>6, <5>1, <5>2
      <4> QED
        BY <4>1, <4>2
    <3>11. Len(backup') = Lesser(BLOCK_SIZE * highest', file_size')
      BY <1>2, <3>1, <3>4, <3>8
    <3>12. \A i \in DOMAIN backup' : backup'[i] = Original(i)'
      BY <1>2, <3>10 DEF Original
    <3> QED
      BY <1>2, <1>5, <3>1, <3>3, <3>11, <3>12 DEF BackupIsCurrent, BackupIsPrefix, Lesser
  <2> QED
    BY <1>1, <2>4, <2>5, SMT
<1> QED
  BY <1>3, <1>4, <1>5

LEMMA BuildKeeps ==
  ASSUME FilesAssumption, FilesInv, NEW b, Building(b)
  PROVE  FilesInv'
BY BuildTypes, BuildPosition, BuildWire, BuildFile, BuildBackup DEF FilesInv

-----------------------------------------------------------------------------
(* The actions. *)

LEMMA InitOK ==
  ASSUME FilesAssumption, FilesInit
  PROVE  FilesInv
<1>1. /\ sender \in Sender /\ BLOCK_SIZE \in Nat \ {0} /\ file_size = 0
      /\ file_size \in Nat
  BY DEF FilesAssumption, FilesInit
<1>2. block_count \in Nat /\ block_count = 0
  BY <1>1, Blocks
<1>3. Hole \in Byte
  BY DEF Hole, Byte
<1>4. FilesTypeOK
  <2>1. 0 \in 0 .. block_count /\ 0 \in 0 .. 0 /\ 0 \in Nat
    BY <1>2, SMT
  <2> QED
    BY <1>1, <1>3, <2>1, EmptySeq DEF FilesInit, FilesTypeOK
<1>5. PositionIsKnown /\ WireIsTrue /\ FileIsTrue /\ BackupIsCurrent
  <2>1. ~(highest > 0) /\ file[1] = file[1]
    BY SMT DEF FilesInit
  <2> QED
    BY <2>1 DEF FilesInit, PositionIsKnown, WireIsTrue, FileIsTrue, BackupIsCurrent
<1>6. BackupIsPrefix
  <2>1. BLOCK_SIZE * 0 = 0
    BY <1>1, SMT
  <2> QED
    BY <1>1, <2>1 DEF FilesInit, BackupIsPrefix, Lesser
<1> QED
  BY <1>4, <1>5, <1>6 DEF FilesInv

\* The stop of one file and the start of the next leave last_block, the buffer
\* and the network as they are.
LEMMA NextTransferOK ==
  ASSUME FilesAssumption, FilesInv, NextTransfer
  PROVE  FilesInv'
<1>1. /\ BLOCK_SIZE \in Nat \ {0} /\ file_size' \in Nat /\ file_size' \in FILE_SIZES
      /\ transfer \in Nat /\ transfer' = transfer + 1
  BY DEF FilesAssumption, NextTransfer, FilesInv, FilesTypeOK
<1>2. block_count' \in Nat
  <2>1. file_size' \div BLOCK_SIZE \in Nat
    BY <1>1, Division
  <2>2. block_count' = (file_size' \div BLOCK_SIZE)
                       + (IF file_size' % BLOCK_SIZE = 0 THEN 0 ELSE 1)
    BY DEF block_count
  <2> QED
    BY <2>1, <2>2, SMT
<1>3. Hole \in Byte
  BY DEF Hole, Byte
<1>4. FilesTypeOK'
  <2>1. 0 \in 0 .. block_count' /\ 0 \in 0 .. 0 /\ 0 \in Nat /\ transfer' \in Nat
    BY <1>1, <1>2, SMT
  <2>2. file' \in [Offsets -> Byte]
    BY <1>3 DEF NextTransfer
  <2>3. /\ sender' = sender /\ last_block' = last_block /\ datagram' = datagram
        /\ wire' = wire /\ last_written_vsib_block' = last_written_vsib_block
        /\ highest' = 0 /\ block' = 0 /\ position' = 0 /\ received' = {} /\ late' = FALSE
        /\ backup' = <<>> /\ rewound' = FALSE
    BY DEF NextTransfer
  <2> QED
    BY <1>1, <2>1, <2>2, <2>3, EmptySeq DEF FilesInv, FilesTypeOK
<1>5. PositionIsKnown'
  <2>1. highest' = 0 /\ position' = 0 /\ sender' = sender /\ last_block' = last_block
        /\ ~(highest' > 0)
    BY SMT DEF NextTransfer
  <2> QED
    BY <2>1 DEF PositionIsKnown, FilesInv
<1>6. WireIsTrue'
  <2> SUFFICES ASSUME NEW d \in wire PROVE d.of <= transfer' /\ d.of # transfer'
    BY DEF WireIsTrue, NextTransfer
  <2>1. d.of \in Nat /\ d.of <= transfer
    BY DEF FilesInv, FilesTypeOK, WireIsTrue
  <2> QED
    BY <1>1, <2>1, SMT
<1>7. FileIsTrue'
  <2>1. received' = {} /\ file' = [o \in Offsets |-> Hole]
    BY DEF NextTransfer
  <2> QED
    BY <2>1 DEF FileIsTrue, Hole, Offsets
<1>8. BackupIsCurrent' /\ BackupIsPrefix'
  <2>1. BLOCK_SIZE * highest' = 0 /\ ~(highest' > 0)
    BY <1>1, SMT DEF NextTransfer
  <2>2. rewound' = FALSE /\ backup' = <<>>
    BY DEF NextTransfer
  <2>3. Len(backup') = Lesser(BLOCK_SIZE * highest', file_size')
    BY <1>1, <2>1, <2>2, SMT DEF Lesser
  <2>4. DOMAIN backup' = {}
    BY <2>2
  <2> QED
    BY <2>1, <2>2, <2>3, <2>4 DEF BackupIsCurrent, BackupIsPrefix, Lesser
<1> QED
  BY <1>4, <1>5, <1>6, <1>7, <1>8 DEF FilesInv

LEMMA SendNextBlockOK ==
  ASSUME FilesAssumption, FilesInv, SendNextBlock
  PROVE  FilesInv'
<1>1. file_size \in Nat /\ block_count \in Nat /\ (block_count = 0 <=> file_size = 0)
  BY FileSize, Blocks DEF FilesInv
<1>2. /\ highest \in Nat /\ highest <= block_count /\ block \in Nat /\ block <= highest
  BY <1>1, SMT DEF FilesInv, FilesTypeOK
<1>3. /\ block' = Lesser(block + 1, block_count) /\ build_datagram(block')
      /\ highest' = (IF block' > highest THEN block' ELSE highest)
      /\ UNCHANGED << sender, fileVars, clientVars >>
  BY DEF SendNextBlock
<1>4. /\ block' \in 0 .. block_count /\ block' <= highest + 1 /\ (block' = 0 => file_size = 0)
      /\ block' \in 0 .. highest'
  BY <1>1, <1>2, <1>3, SMT DEF Lesser
<1>5. ASSUME NEW b, b = block' PROVE FilesInv'
  BY <1>3, <1>4, <1>5, BuildKeeps DEF Building
<1> QED
  BY <1>5

LEMMA RetransmitOK ==
  ASSUME FilesAssumption, FilesInv, Retransmit
  PROVE  FilesInv'
<1>1. file_size \in Nat /\ block_count \in Nat
  BY FileSize, Blocks DEF FilesInv
<1>2. /\ highest \in Nat /\ highest <= block_count /\ block \in 0 .. highest
  BY <1>1, SMT DEF FilesInv, FilesTypeOK
<1>3. PICK b \in 1 .. highest : build_datagram(b)
  BY DEF Retransmit
<1>4. highest' = highest /\ block' = block /\ UNCHANGED << sender, fileVars, clientVars >>
  BY DEF Retransmit
<1>5. /\ b \in 0 .. block_count /\ b <= highest + 1 /\ (b = 0 => file_size = 0)
      /\ highest' = (IF b > highest THEN b ELSE highest)
  BY <1>1, <1>2, <1>4, SMT
<1> QED
  BY <1>2, <1>3, <1>4, <1>5, BuildKeeps DEF Building

LEMMA RestartOK ==
  ASSUME FilesAssumption, FilesInv, Restart
  PROVE  FilesInv'
<1>1. /\ block' \in 1 .. highest
      /\ UNCHANGED << sender, fileVars, highest, last_block, position, datagram, wire,
                      clientVars, backupVars >>
  BY DEF Restart
<1>2. block_count' = block_count /\ (\A b : BytesOf(b)' = BytesOf(b))
      /\ \A o : Original(o)' = Original(o)
  BY <1>1, SameBlocks
<1>3. FilesTypeOK'
  <2>1. block' \in 0 .. highest
    BY <1>1, SMT
  <2> QED
    BY <1>1, <1>2, <2>1 DEF FilesInv, FilesTypeOK, fileVars, clientVars, backupVars
<1>4. PositionIsKnown'
  BY <1>1 DEF FilesInv, PositionIsKnown, fileVars, Lesser
<1>5. WireIsTrue'
  BY <1>1, <1>2 DEF FilesInv, WireIsTrue, fileVars, backupVars, Offset
<1>6. FileIsTrue'
  BY <1>1, <1>2 DEF FilesInv, FileIsTrue, fileVars, clientVars, backupVars, Offsets, Hole
<1>7. BackupIsCurrent' /\ BackupIsPrefix'
  BY <1>1, <1>2 DEF FilesInv, BackupIsCurrent, BackupIsPrefix, fileVars, backupVars, Lesser
<1> QED
  BY <1>3, <1>4, <1>5, <1>6, <1>7 DEF FilesInv

\* A datagram of this file brings its bytes to their places; the first block
\* of a real-time server that has built it again stays apart.
LEMMA AcceptOK ==
  ASSUME FilesAssumption, FilesInv, accept_block
  PROVE  FilesInv'
<1>1. PICK d \in wire :
        /\ d.block <= block_count /\ d.block \notin received
        /\ received' = received \cup {d.block}
        /\ file' = IF d.block = 0 THEN file ELSE Written(d.block, d.data)
        /\ late' = (late \/ d.of # transfer)
        /\ UNCHANGED << sender, fileVars, serverVars, wire, backupVars >>
  BY DEF accept_block
<1>2. /\ block_count' = block_count /\ (\A b : BytesOf(b)' = BytesOf(b))
      /\ (\A o : Original(o)' = Original(o))
      /\ transfer' = transfer /\ file_size' = file_size
  BY <1>1, SameBlocks
<1>3. /\ d.block \in Nat /\ d.of \in Nat /\ d.data \in [1 .. BLOCK_SIZE -> Byte]
      /\ file_size \in Nat /\ BLOCK_SIZE \in Nat \ {0} /\ block_count \in Nat
  BY FileSize, Blocks DEF FilesInv, FilesTypeOK, FilesAssumption
<1>4. d.block # 0 =>
        /\ d.block \in 1 .. block_count /\ Offset(d.block) \in Nat
        /\ Offset(d.block) = BLOCK_SIZE * d.block - BLOCK_SIZE
        /\ write_size(d.block) \in 1 .. BLOCK_SIZE
        /\ Offset(d.block) + write_size(d.block) <= file_size
  <2> SUFFICES ASSUME d.block # 0
      PROVE  /\ d.block \in 1 .. block_count /\ Offset(d.block) \in Nat
             /\ Offset(d.block) = BLOCK_SIZE * d.block - BLOCK_SIZE
             /\ write_size(d.block) \in 1 .. BLOCK_SIZE
             /\ Offset(d.block) + write_size(d.block) <= file_size
    OBVIOUS
  <2>1. d.block \in 1 .. block_count
    BY <1>1, <1>3, SMT
  <2> QED
    BY <1>3, <2>1, Blocks
\* What the file holds at an offset afterwards.
<1>5. ASSUME NEW o \in Offsets
      PROVE  /\ d.block # 0 /\ o \in BytesOf(d.block) =>
                  /\ file'[o] = d.data[o - Offset(d.block)]
                  /\ o - Offset(d.block) \in 1 .. BLOCK_SIZE /\ o <= file_size
                  /\ d.block = 1 => o <= BLOCK_SIZE
             /\ d.block = 0 \/ o \notin BytesOf(d.block) => file'[o] = file[o]
  <2>1. o \in Int
    <3> DEFINE largest == CHOOSE n \in FILE_SIZES : \A m \in FILE_SIZES : m <= n
    <3>1. largest \in FILE_SIZES
      BY DEF FilesAssumption
    <3>2. o \in 1 .. BLOCK_SIZE + largest
      BY DEF Offsets
    <3> HIDE DEF largest
    <3> QED
      BY <1>3, <3>1, <3>2, SMT DEF FilesAssumption
  <2>2. DOMAIN file = Offsets
    BY DEF FilesInv, FilesTypeOK
  <2>3. CASE d.block = 0
    BY <1>1, <2>3
  <2>4. CASE d.block # 0
    <3> DEFINE p == Offset(d.block)
               w == write_size(d.block)
    <3>0. p = BLOCK_SIZE * d.block - BLOCK_SIZE
      BY <1>4, <2>4
    <3>1. p \in Nat /\ w \in 1 .. BLOCK_SIZE /\ p + w <= file_size
      BY <1>4, <2>4
    <3>2. file'[o] = IF p < o /\ o <= p + w THEN d.data[o - p] ELSE file[o]
      BY <1>1, <2>2, <2>4 DEF Written
    <3>3. o \in BytesOf(d.block) <=> o \in p + 1 .. p + w
      BY DEF BytesOf
    <3>4. d.block = 1 => p = 0
      BY <1>3, <3>0, SMT
    <3> HIDE DEF p, w
    <3>5. o \in Int /\ p \in Int /\ w \in Int /\ w <= BLOCK_SIZE /\ p + w <= file_size
          /\ BLOCK_SIZE \in Int /\ file_size \in Int
      BY <1>3, <2>1, <3>1
    <3>6. o \in p + 1 .. p + w <=> p < o /\ o <= p + w
      BY <3>5
    <3>7. p < o /\ o <= p + w =>
            o - p \in 1 .. BLOCK_SIZE /\ o <= file_size /\ (p = 0 => o <= BLOCK_SIZE)
      BY <3>5
    <3> QED
      BY <2>4, <3>2, <3>3, <3>4, <3>6, <3>7 DEF p
  <2> QED
    BY <2>3, <2>4
<1>6. FilesTypeOK'
  <2>1. received' \subseteq 0 .. block_count'
    <3>1. d.block \in 0 .. block_count
      BY <1>1, <1>3, SMT
    <3> QED
      BY <1>1, <1>2, <3>1 DEF FilesInv, FilesTypeOK
  <2>2. file' \in [Offsets -> Byte]
    <3>1. DOMAIN file' = Offsets
      BY <1>1 DEF Written, FilesInv, FilesTypeOK
    <3>2. ASSUME NEW o \in Offsets PROVE file'[o] \in Byte
      <4>1. file[o] \in Byte
        BY DEF FilesInv, FilesTypeOK
      <4>2. \A i \in 1 .. BLOCK_SIZE : d.data[i] \in Byte
        BY <1>3
      <4> QED
        BY <1>5, <4>1, <4>2
    <3>3. file' = [o \in Offsets |-> file'[o]]
      <4>1. CASE d.block = 0
        BY <1>1, <4>1 DEF FilesInv, FilesTypeOK
      <4>2. CASE d.block # 0
        BY <1>1, <3>1, <4>2 DEF Written
      <4> QED
        BY <4>1, <4>2
    <3> QED
      BY <3>2, <3>3
  <2> QED
    BY <1>1, <1>2, <2>1, <2>2 DEF FilesInv, FilesTypeOK, fileVars, serverVars, backupVars
<1>7. PositionIsKnown'
  BY <1>1 DEF FilesInv, PositionIsKnown, fileVars, serverVars, Lesser
<1>8. WireIsTrue'
  BY <1>1, <1>2 DEF FilesInv, WireIsTrue, fileVars, backupVars, Offset
<1>9. FileIsTrue'
  <2> SUFFICES ASSUME ~late', NEW o \in Offsets, ~(rewound /\ o <= BLOCK_SIZE)
      PROVE  /\ file'[o] = Hole \/ (o <= file_size /\ file'[o] = Original(o))
             /\ \A b \in received' \ {0} : o \in BytesOf(b) => file'[o] = Original(o)
    BY <1>1, <1>2 DEF FileIsTrue, Offsets, Hole, backupVars
  <2>1. /\ ~late /\ d.of = transfer
        /\ file[o] = Hole \/ (o <= file_size /\ file[o] = Original(o))
        /\ \A b \in received \ {0} : o \in BytesOf(b) => file[o] = Original(o)
    BY <1>1 DEF FilesInv, FileIsTrue
  <2>2. CASE d.block # 0 /\ o \in BytesOf(d.block)
    <3>1. d.block > 0 /\ ~(rewound /\ d.block = 1)
      BY <1>3, <1>5, <2>2, SMT
    <3>2. d.data[o - Offset(d.block)] = Original(o)
      BY <2>1, <2>2, <3>1 DEF FilesInv, WireIsTrue
    <3> QED
      BY <1>5, <2>2, <3>2
  <2>3. CASE d.block = 0 \/ o \notin BytesOf(d.block)
    BY <1>1, <1>5, <2>1, <2>3
  <2> QED
    BY <2>2, <2>3
<1>10. BackupIsCurrent' /\ BackupIsPrefix'
  BY <1>1, <1>2 DEF FilesInv, BackupIsCurrent, BackupIsPrefix, fileVars, serverVars,
                    backupVars, Lesser
<1> QED
  BY <1>6, <1>7, <1>8, <1>9, <1>10 DEF FilesInv

-----------------------------------------------------------------------------
(* The theorems. *)

\* FilesInv is inductive: where the servers stand in their file, what is in
\* flight, what the bitmap records and what both copies hold fit together, for
\* every size of block and files (build_datagram, accept_block).
THEOREM FilesInvariant ==
  ASSUME FilesAssumption
  PROVE  FilesSpec => []FilesInv
<1>1. FilesInit => FilesInv
  BY InitOK
<1>2. FilesInv /\ [FilesNext]_filesVars => FilesInv'
  <2> SUFFICES ASSUME FilesInv, [FilesNext]_filesVars PROVE FilesInv'
    OBVIOUS
  <2>1. CASE UNCHANGED filesVars
    <3>1. /\ UNCHANGED << sender, fileVars, serverVars, wire, clientVars, backupVars >>
          /\ UNCHANGED fileVars
      BY <2>1 DEF filesVars
    <3>2. /\ block_count' = block_count /\ (\A b : BytesOf(b)' = BytesOf(b))
          /\ \A o : Original(o)' = Original(o)
      BY <3>1, SameBlocks
    <3> USE <3>1, <3>2 DEF fileVars, serverVars, clientVars, backupVars
    <3>3. FilesTypeOK' /\ PositionIsKnown'
      BY DEF FilesInv, FilesTypeOK, PositionIsKnown, Lesser
    <3>4. WireIsTrue' /\ FileIsTrue'
      BY DEF FilesInv, WireIsTrue, FileIsTrue, Offset, Offsets, Hole
    <3>5. BackupIsCurrent' /\ BackupIsPrefix'
      BY DEF FilesInv, BackupIsCurrent, BackupIsPrefix, Lesser
    <3> QED
      BY <3>3, <3>4, <3>5 DEF FilesInv
  <2>2. CASE NextTransfer
    BY <2>2, NextTransferOK
  <2>3. CASE SendNextBlock
    BY <2>3, SendNextBlockOK
  <2>4. CASE Retransmit
    BY <2>4, RetransmitOK
  <2>5. CASE Restart
    BY <2>5, RestartOK
  <2>6. CASE accept_block
    BY <2>6, AcceptOK
  <2> QED
    BY <2>1, <2>2, <2>3, <2>4, <2>5, <2>6 DEF FilesNext
<1> QED
  BY <1>1, <1>2, PTL DEF FilesSpec

\* The client's file is the server's: byte by byte in its place, nothing that
\* is not in it, and all of it once every block has arrived (accept_block,
\* build_datagram).
THEOREM FilesAreCopied ==
  ASSUME FilesAssumption
  PROVE  FilesSpec => []FileIsCopy
<1>1. FilesInv => FileIsCopy
  <2> SUFFICES ASSUME FilesInv, ~late,
                      NEW o \in DOMAIN file \ (IF rewound THEN 1 .. BLOCK_SIZE ELSE {})
      PROVE  /\ file[o] \in {Hole} \cup (IF o <= file_size THEN {Original(o)} ELSE {})
             /\ Complete /\ o <= file_size => file[o] = Original(o)
    BY DEF FileIsCopy
  <2>1. o \in Offsets /\ o \in Nat /\ 1 <= o
    <3> DEFINE largest == CHOOSE n \in FILE_SIZES : \A m \in FILE_SIZES : m <= n
    <3>1. largest \in FILE_SIZES
      BY DEF FilesAssumption
    <3>2. o \in Offsets /\ o \in 1 .. BLOCK_SIZE + largest
      BY DEF FilesInv, FilesTypeOK, Offsets
    <3> HIDE DEF largest
    <3> QED
      BY <3>1, <3>2, SMT DEF FilesAssumption
  <2>2. ~(rewound /\ o <= BLOCK_SIZE)
    <3>1. BLOCK_SIZE \in Nat
      BY DEF FilesAssumption
    <3> QED
      BY <2>1, <3>1, SMT
  <2>3. /\ file[o] = Hole \/ (o <= file_size /\ file[o] = Original(o))
        /\ \A b \in received \ {0} : o \in BytesOf(b) => file[o] = Original(o)
    BY <2>1, <2>2 DEF FilesInv, FileIsTrue
  <2>4. ASSUME Complete, o <= file_size PROVE file[o] = Original(o)
    <3>1. file_size \in Nat /\ o \in 1 .. file_size
      BY <2>1, <2>4, FileSize, SMT DEF FilesInv
    <3>2. PICK b \in 1 .. block_count : o \in BytesOf(b)
      BY <3>1, BlocksCover
    <3>3. b \in received \ {0}
      <4>1. block_count \in Nat
        BY <3>1, Blocks
      <4>2. b # 0
        BY <4>1, SMT
      <4> QED
        BY <2>4, <4>2 DEF Complete
    <3> QED
      BY <2>3, <3>2, <3>3
  <2> QED
    BY <2>3, <2>4
<1> QED
  BY <1>1, FilesInvariant, PTL

\* The local copy of the real-time server has everything it has sent once and
\* in order, until it builds block 1 again (rtserver/io.c).
THEOREM BackupHasNoGap ==
  ASSUME FilesAssumption
  PROVE  FilesSpec => []BackupIsPrefix
<1>1. FilesInv => BackupIsPrefix
  BY DEF FilesInv
<1> QED
  BY <1>1, FilesInvariant, PTL

\* What the documentation says of a retransmission is true of the file server,
\* which seeks whenever it must: a datagram carries the block it names.
THEOREM ServerSendsWhatItNames ==
  ASSUME FilesAssumption
  PROVE  FilesSpec => [](sender = "server" => CarriesItsBlock)
<1>1. FilesInv => (sender = "server" => CarriesItsBlock)
  <2> SUFFICES ASSUME FilesInv, sender = "server", NEW d \in wire, d.of = transfer, d.block > 0,
                      NEW i \in 1 .. write_size(d.block)
      PROVE  d.data[i] = Original(Offset(d.block) + i)
    BY DEF CarriesItsBlock
  <2>1. d.block \in Nat /\ BLOCK_SIZE \in Nat /\ Offset(d.block) \in Int
    <3>1. d.block \in Nat /\ BLOCK_SIZE \in Nat /\ FAR \in Nat
      BY DEF FilesInv, FilesTypeOK, FilesAssumption
    <3>2. BLOCK_SIZE * FAR \in Int /\ BLOCK_SIZE * (d.block - 1) \in Int
      BY <3>1, SMT
    <3> QED
      BY <3>1, <3>2 DEF Offset
  <2>2. write_size(d.block) \in Int
    <3>1. file_size \in Nat /\ BLOCK_SIZE \in Nat \ {0}
      BY FileSize DEF FilesInv, FilesAssumption
    <3>2. file_size % BLOCK_SIZE \in Int
      BY <3>1, SMT
    <3> QED
      BY <3>1, <3>2 DEF write_size
  <2>3. ~rewound
    BY DEF FilesInv, BackupIsCurrent
  <2>4. \A o \in BytesOf(d.block) : d.data[o - Offset(d.block)] = Original(o)
    BY <2>3 DEF FilesInv, WireIsTrue
  <2>5. /\ Offset(d.block) + i \in BytesOf(d.block)
        /\ (Offset(d.block) + i) - Offset(d.block) = i
    BY <2>1, <2>2, SMT DEF BytesOf
  <2> QED
    BY <2>4, <2>5
<1> QED
  BY <1>1, FilesInvariant, PTL
=============================================================================
