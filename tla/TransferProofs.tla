---------------------------- MODULE TransferProofs ----------------------------
(***************************************************************************)
(* Proofs about Transfer, for every file, every limit of the table and     *)
(* every setting of a session.                                             *)
(***************************************************************************)
EXTENDS Transfer, SequenceTheorems, FiniteSetTheorems, WellFoundedInduction, TLAPS

\* A set of natural numbers has a least element.
LEMMA Least ==
  ASSUME NEW T \in SUBSET Nat, T # {}
  PROVE  \E m \in T : \A k \in T : m <= k
<1>1. IsWellFoundedOn(OpToRel(<, Nat), Nat)
  BY NatLessThanWellFounded, Zenon
<1> DEFINE R == OpToRel(<, Nat)
<1>2. \E m \in T : \A k \in T : ~ (<<k, m>> \in R)
  <2>1. IsWellFoundedOn(R, Nat)
    BY <1>1
  <2> HIDE DEF R
  <2> QED
    BY <2>1, WFMin, Zenon
<1>3. \A k, m \in Nat : k < m => <<k, m>> \in R
  BY DEF OpToRel
<1> HIDE DEF R
<1>4. PICK m \in T : \A k \in T : ~ (<<k, m>> \in R)
  BY <1>2, Zenon
<1>5. ASSUME NEW k \in T PROVE m <= k
  <2>1. ~ (k < m)
    <3>1. k \in Nat /\ m \in Nat
      OBVIOUS
    <3> QED BY <1>3, <1>4, <3>1, Zenon
  <2> QED BY <2>1
<1> QED
  BY <1>5

\* f is the recursive function of Pick on the first n entries.
Picks(f, n, s, S) ==
  f = [i \in 0 .. n |->
        IF i = 0 THEN <<>>
        ELSE IF s[i] \in S THEN Append(f[i - 1], s[i]) ELSE f[i - 1]]

\* The recursion of Pick has a solution: it is extended entry by entry.
LEMMA PickExists ==
  ASSUME NEW S, NEW s, NEW n \in Nat
  PROVE  \E f : Picks(f, n, s, S)
<1> DEFINE Bad == {m \in Nat : ~ \E f : Picks(f, m, s, S)}
<1> SUFFICES ASSUME Bad # {} PROVE FALSE
  OBVIOUS
<1>1. PICK m \in Bad : \A k \in Bad : m <= k
  <2> HIDE DEF Bad
  <2>1. Bad \in SUBSET Nat BY DEF Bad
  <2> QED BY <2>1, Least
<1>2. CASE m = 0
  <2> DEFINE f == [i \in 0 .. 0 |-> <<>>]
  <2>1. Picks(f, 0, s, S)
    <3>1. [i \in 0 .. 0 |->
        IF i = 0 THEN <<>>
        ELSE IF s[i] \in S THEN Append(f[i - 1], s[i]) ELSE f[i - 1]] = f
      OBVIOUS
    <3> QED BY <3>1, Zenon DEF Picks
  <2> QED BY <1>1, <1>2, <2>1
<1>3. CASE m # 0
  <2>1. m \in Nat /\ m - 1 \in Nat
    BY <1>1, <1>3
  <2>2. PICK g : Picks(g, m - 1, s, S)
    BY <1>1, <2>1
  <2> DEFINE f == [i \in 0 .. m |-> IF i < m THEN g[i] ELSE IF s[m] \in S THEN Append(g[m - 1], s[m]) ELSE g[m - 1]]
  <2>3. Picks(f, m, s, S)
    <3>1. \A i \in 0 .. m : i # 0 => f[i - 1] = g[i - 1]
      BY <2>1
    <3>2. \A i \in 0 .. m : f[i] = IF i = 0 THEN <<>>
        ELSE IF s[i] \in S THEN Append(f[i - 1], s[i]) ELSE f[i - 1]
      <4> TAKE i \in 0 .. m
      <4>1. CASE i = m
        BY <4>1, <3>1, <2>1, <1>3
      <4>2. CASE i # m
        <5>1. i \in 0 .. m - 1 /\ f[i] = g[i]
          BY <4>2, <2>1
        <5> HIDE DEF f
        <5>2. g[i] = IF i = 0 THEN <<>>
        ELSE IF s[i] \in S THEN Append(g[i - 1], s[i]) ELSE g[i - 1]
          BY <5>1, <2>2 DEF Picks
        <5> QED BY <5>1, <5>2, <3>1
      <4> QED BY <4>1, <4>2
    <3>3. f = [i \in 0 .. m |-> f[i]]
      OBVIOUS
    <3> HIDE DEF f
    <3>4. f = [i \in 0 .. m |-> IF i = 0 THEN <<>>
        ELSE IF s[i] \in S THEN Append(f[i - 1], s[i]) ELSE f[i - 1]]
      BY <3>2, <3>3
    <3> QED BY <3>4, Zenon DEF Picks
  <2> QED BY <1>1, <2>3, Zenon
<1> QED BY <1>2, <1>3

\* Pick yields entries of the list that are in the set, and no more than it had.
LEMMA PickFacts ==
  ASSUME NEW T, NEW S \in SUBSET T, NEW s \in Seq(T)
  PROVE  Pick(s, S) \in Seq(S) /\ Len(Pick(s, S)) <= Len(s)
<1> DEFINE n == Len(s)
           p == CHOOSE f : Picks(f, n, s, S)
<1>0. n \in Nat
  OBVIOUS
<1>1. Pick(s, S) = p[n]
  BY Zenon DEF Pick, Picks
<1>2. Picks(p, n, s, S)
  BY <1>0, PickExists, Zenon
<1> HIDE DEF p
<1>p. p = [i \in 0 .. n |->
        IF i = 0 THEN <<>>
        ELSE IF s[i] \in S THEN Append(p[i - 1], s[i]) ELSE p[i - 1]]
  BY <1>2, Zenon DEF Picks
<1> DEFINE Bad == {m \in 0 .. n : ~ (p[m] \in Seq(S) /\ Len(p[m]) <= m)}
<1>3. ASSUME Bad # {} PROVE FALSE
  <2>1. PICK m \in Bad : \A k \in Bad : m <= k
    <3>1. Bad \in SUBSET Nat BY <1>0
    <3> HIDE DEF Bad
    <3> QED BY <3>1, <1>3, Least
  <2>2. m \in 0 .. n
    BY <2>1
  <2>3. CASE m = 0
    <3>1. p[m] = <<>>
      BY <1>p, <1>0, <2>2, <2>3
    <3>2. <<>> \in Seq(S) /\ Len(<<>>) = 0
      BY EmptySeq
    <3>3. p[m] \in Seq(S) /\ Len(p[m]) <= m
      BY <3>1, <3>2, <2>2, <2>3
    <3> QED BY <3>3, <2>1
  <2>4. CASE m # 0
    <3>1. m - 1 \in 0 .. n /\ m - 1 \notin Bad
      BY <2>1, <2>2, <2>4, <1>0
    <3>2. p[m - 1] \in Seq(S) /\ Len(p[m - 1]) <= m - 1
      BY <3>1
    <3>3. p[m] = IF s[m] \in S THEN Append(p[m - 1], s[m]) ELSE p[m - 1]
      BY <1>p, <2>2, <2>4, <1>0
    <3>4. p[m] \in Seq(S) /\ Len(p[m]) <= m
      BY <3>2, <3>3, <2>2, <1>0
    <3> QED BY <3>4, <2>1
  <2> QED BY <2>3, <2>4
<1>4. n \in 0 .. n /\ n \notin Bad
  BY <1>3, <1>0
<1> QED BY <1>1, <1>4
-----------------------------------------------------------------------------
(* The client's transfer state. *)

XferOK(x) == x \in XferRecord /\ Len(x.table) <= TABLE_LIMIT

Solid(x) == parameter.lossless => 1 .. x.gapless_to_block \subseteq x.received

Counted(x) == x.blocks_left = Cardinality(FileBlock \ x.received)

\* y has the bitmap and the count of x.
SameBitmap(x, y) == y.received = x.received /\ y.blocks_left = x.blocks_left

\* A block of the file that is new leaves the missing ones and is counted once.
LEMMA StoreOK ==
  ASSUME NEW x, XferOK(x), Counted(x), Solid(x), NEW b \in FileBlock
  PROVE  XferOK(Store(x, b)) /\ Counted(Store(x, b)) /\ Solid(Store(x, b))
<1>1. CASE got_block(x, b)
  BY <1>1 DEF Store
<1>2. CASE ~ got_block(x, b)
  <2> DEFINE y == Store(x, b)
             lack == FileBlock \ x.received
  <2>1. b \in lack
    BY <1>2 DEF got_block
  <2>2. IsFiniteSet(lack)
    <3>1. IsFiniteSet(FileBlock)
      BY FS_Interval, TransferAssumption DEF FileBlock, TransferAssumption
    <3>2. lack \in SUBSET FileBlock
      OBVIOUS
    <3>3. QED
      BY <3>1, <3>2, FS_Subset
  <2>3. Cardinality(lack \ {b}) = Cardinality(lack) - 1 /\ Cardinality(lack) \in Nat
        /\ Cardinality(lack) > 0
    <3>1. Cardinality(lack) \in Nat /\ (Cardinality(lack) = 0 <=> lack = {})
      BY <2>2, FS_CardinalityType, FS_EmptySet
    <3>2. QED
      BY <2>1, <2>2, <3>1, FS_RemoveElement
  <2>4. y = [x EXCEPT !.received = @ \cup {b}, !.blocks_left = IF @ > 0 THEN @ - 1 ELSE 0]
    BY <1>2 DEF Store
  <2>5. x.blocks_left = Cardinality(lack)
    BY DEF Counted
  <2>6. y.received = x.received \cup {b} /\ y.blocks_left = Cardinality(lack) - 1
        /\ y.gapless_to_block = x.gapless_to_block /\ y.table = x.table
    BY <2>3, <2>4, <2>5 DEF XferOK, XferRecord
  <2>7. y \in XferRecord
    <3> DEFINE R == x.received \cup {b}
               L == Cardinality(lack) - 1
    <3>1. y = [x EXCEPT !.received = R, !.blocks_left = L]
      BY <2>3, <2>4, <2>5
    <3>2. R \in SUBSET FileBlock
      BY DEF XferOK, XferRecord
    <3>3. L \in 0 .. BLOCK_COUNT
      BY <2>3, <2>5, TransferAssumption DEF XferOK, XferRecord, TransferAssumption
    <3> HIDE DEF R, L, y
    <3>4. QED
      BY <3>1, <3>2, <3>3 DEF XferOK, XferRecord
  <2>8. lack \ {b} = FileBlock \ y.received
    BY <2>6
  <2>9. Counted(y)
    BY <2>3, <2>6, <2>8 DEF Counted
  <2>10. QED
    BY <2>6, <2>7, <2>9 DEF XferOK, Solid
<1>3. QED
  BY <1>1, <1>2

\* Only blocks of the file, and block 0, can be missing.
LEMMA MissingBlocks ==
  ASSUME NEW x
  PROVE  Missing(x) \subseteq 0 .. BLOCK_COUNT
BY DEF Missing

\* The entries that are kept are blocks of the file, and no more than there were.
LEMMA OutstandingOK ==
  ASSUME NEW x, XferOK(x)
  PROVE  /\ Outstanding(x) \in Seq(FileBlock)
         /\ Outstanding(x) \in Seq(0 .. BLOCK_COUNT)
         /\ Len(Outstanding(x)) \in Nat
         /\ Len(Outstanding(x)) <= Len(x.table)
<1> DEFINE S == Missing(x) \ {0}
<1>1. x.table \in Seq(0 .. BLOCK_COUNT)
  BY DEF XferOK, XferRecord
<1>2. S \in SUBSET (0 .. BLOCK_COUNT) /\ S \subseteq FileBlock
  BY MissingBlocks, TransferAssumption DEF FileBlock, TransferAssumption
<1>3. Outstanding(x) \in Seq(S) /\ Len(Outstanding(x)) <= Len(x.table)
  <2> HIDE DEF S
  <2>1. Pick(x.table, S) \in Seq(S) /\ Len(Pick(x.table, S)) <= Len(x.table)
    BY <1>1, <1>2, PickFacts
  <2>2. QED
    BY <2>1 DEF Outstanding, S
<1>4. QED
  BY <1>2, <1>3, SeqMonotonic, LenProperties

\* Requests are only added to the table, and only up to its limit.
LEMMA RangeOK ==
  ASSUME NEW x, XferOK(x), NEW from \in 0 .. U32 - 1, NEW to \in FileBlock
  PROVE  /\ XferOK(RequestRange(x, from, to))
         /\ SameBitmap(x, RequestRange(x, from, to))
         /\ RequestRange(x, from, to).gapless_to_block = x.gapless_to_block
<1> DEFINE n     == IF from < to THEN to - from ELSE 0
           range == [i \in 1 .. n |-> from + i - 1]
           grown == x.table \o Pick(range, Missing(x))
           most  == min(Len(grown), TABLE_LIMIT)
           y     == RequestRange(x, from, to)
<1>0. BLOCK_COUNT \in Nat /\ TABLE_LIMIT \in Nat /\ U32 \in Nat
  BY TransferAssumption DEF TransferAssumption
<1>1. n \in Nat
  BY <1>0 DEF FileBlock
<1>2. range \in Seq(Nat)
  BY <1>0, <1>1
<1>3. Pick(range, Missing(x)) \in Seq(0 .. BLOCK_COUNT)
  <2> HIDE DEF range
  <2>1. Missing(x) \in SUBSET Nat
    BY <1>0, MissingBlocks
  <2>2. Pick(range, Missing(x)) \in Seq(Missing(x))
    BY <1>2, <2>1, PickFacts
  <2>3. QED
    BY <2>2, MissingBlocks, SeqMonotonic
<1>4. grown \in Seq(0 .. BLOCK_COUNT) /\ Len(grown) \in Nat
  <2> HIDE DEF range
  <2>1. x.table \in Seq(0 .. BLOCK_COUNT)
    BY DEF XferOK, XferRecord
  <2>2. QED
    BY <1>3, <2>1, ConcatProperties, LenProperties
<1> HIDE DEF grown
<1>5. most \in Nat /\ most <= Len(grown) /\ most <= TABLE_LIMIT
  BY <1>0, <1>4 DEF min
<1> HIDE DEF most
<1>6. SubSeq(grown, 1, most) \in Seq(0 .. BLOCK_COUNT) /\ Len(SubSeq(grown, 1, most)) = most
  <2>1. ASSUME NEW i \in 1 .. most PROVE grown[i] \in 0 .. BLOCK_COUNT
    <3>1. i \in 1 .. Len(grown)
      BY <1>4, <1>5
    <3>2. QED
      BY <1>4, <3>1, ElementOfSeq
  <2>2. QED
    BY <1>5, <2>1, SubSeqProperties
<1>7. y = [x EXCEPT !.table = SubSeq(grown, 1, most)]
  BY DEF RequestRange, grown, most
<1>8. QED
  BY <1>5, <1>6, <1>7 DEF XferOK, XferRecord, SameBitmap

\* The first block still wanted is a 32-bit number.
LEMMA EarliestOK ==
  ASSUME NEW d \in Datagram, TypeOK, NEW e \in EarliestBlocks(xfer, d)
  PROVE  e \in 0 .. U32 - 1
<1>0. BLOCK_COUNT \in Nat /\ U32 \in Nat /\ U32 > BLOCK_COUNT /\ d.block \in FileBlock
      /\ U32 \in Int /\ U32 > 0
  BY TransferAssumption DEF TransferAssumption, Datagram
<1>1. CASE parameter.lossless \/ parameter.losswindow = 0 \/ d.block <= xfer.next_block
  BY <1>0, <1>1 DEF EarliestBlocks, FileBlock
<1>2. CASE ~ (parameter.lossless \/ parameter.losswindow = 0 \/ d.block <= xfer.next_block)
  <2> DEFINE span == (d.block - xfer.gapless_to_block) % U32
  <2>1. d.block - xfer.gapless_to_block \in Int
    BY <1>0 DEF TypeOK, XferRecord, FileBlock
  <2>2. span \in 0 .. U32 - 1
    BY <1>0, <2>1
  <2>3. parameter.losswindow \in Nat
    BY TransferAssumption DEF TransferAssumption, TypeOK
  <2>4. PICK w \in 0 .. parameter.losswindow : e \in FloatToU32(d.block - min(w, span))
    BY <1>2 DEF EarliestBlocks
  <2> HIDE DEF span
  <2> DEFINE v == d.block - min(w, span)
  <2>5. v \in Int /\ v <= BLOCK_COUNT
    BY <1>0, <2>2, <2>3 DEF min, FileBlock
  <2> HIDE DEF v
  <2>6. v % U32 \in 0 .. U32 - 1
    BY <1>0, <2>5
  <2>7. e \in FloatToU32(v)
    BY <2>4 DEF v
  <2>8. QED
    BY <1>0, <2>5, <2>6, <2>7 DEF FloatToU32
<1>3. QED
  BY <1>1, <1>2

\* Queueing a gap keeps the record well formed and, in lossless mode, the gapless part.
LEMMA QueueGapOK ==
  ASSUME NEW x, XferOK(x), Solid(x), NEW d \in Datagram, NEW e \in 0 .. U32 - 1
  PROVE  XferOK(QueueGap(x, d, e)) /\ SameBitmap(x, QueueGap(x, d, e)) /\ Solid(QueueGap(x, d, e))
<1>0. d.block \in FileBlock /\ x.next_block \in 0 .. U32 - 1
      /\ BLOCK_COUNT \in Nat /\ U32 \in Nat /\ U32 > BLOCK_COUNT
  BY TransferAssumption DEF TransferAssumption, Datagram, XferOK, XferRecord
<1>1. CASE d.block <= x.next_block
  BY <1>1 DEF QueueGap, SameBitmap
<1>2. CASE ~ (d.block <= x.next_block) /\ parameter.lossless
  <2>1. QueueGap(x, d, e) = RequestRange(x, x.next_block, d.block)
    BY <1>2 DEF QueueGap
  <2>2. QED
    BY <1>0, <2>1, RangeOK DEF Solid, SameBitmap
<1>3. CASE ~ (d.block <= x.next_block) /\ ~ parameter.lossless /\ parameter.losswindow = 0
  <2>1. QueueGap(x, d, e) = [x EXCEPT !.gapless_to_block = d.block]
    BY <1>3 DEF QueueGap
  <2>2. d.block \in 0 .. U32 - 1
    BY <1>0 DEF FileBlock
  <2>3. QED
    BY <1>3, <2>1, <2>2 DEF XferOK, XferRecord, SameBitmap, Solid
<1>4. CASE ~ (d.block <= x.next_block) /\ ~ parameter.lossless /\ parameter.losswindow # 0
  <2> DEFINE y == RequestRange(x, e, d.block)
  <2>1. QueueGap(x, d, e) = [y EXCEPT !.next_block = e, !.gapless_to_block = e]
    BY <1>4 DEF QueueGap
  <2>2. XferOK(y) /\ SameBitmap(x, y)
    BY <1>0, RangeOK
  <2> HIDE DEF y
  <2>3. QED
    BY <1>4, <2>1, <2>2 DEF XferOK, XferRecord, SameBitmap, Solid
<1>5. QED
  BY <1>1, <1>2, <1>3, <1>4

\* The run of received blocks has an end: the block before the first one missing.
LEMMA GaplessEnds ==
  ASSUME NEW x, NEW g \in 0 .. BLOCK_COUNT
  PROVE  \E e \in g .. BLOCK_COUNT :
           /\ \A b \in g + 1 .. e : got_block(x, b)
           /\ e = BLOCK_COUNT \/ ~ got_block(x, e + 1)
<1> DEFINE lack == {b \in g + 1 .. BLOCK_COUNT : ~ got_block(x, b)}
<1>0. BLOCK_COUNT \in Nat
  BY TransferAssumption DEF TransferAssumption
<1>1. CASE lack = {}
  <2>1. \A b \in g + 1 .. BLOCK_COUNT : got_block(x, b)
    BY <1>1
  <2>2. QED
    BY <1>0, <2>1
<1>2. CASE lack # {}
  <2>1. PICK m \in lack : \A k \in lack : m <= k
    <3>1. lack \in SUBSET Nat
      BY <1>0
    <3> HIDE DEF lack
    <3>2. QED
      BY <1>2, <3>1, Least
  <2>2. m \in g + 1 .. BLOCK_COUNT /\ ~ got_block(x, m)
    BY <2>1
  <2>3. \A b \in g + 1 .. m - 1 : got_block(x, b)
    <3>1. TAKE b \in g + 1 .. m - 1
    <3>2. b \in g + 1 .. BLOCK_COUNT /\ ~ (m <= b)
      BY <1>0, <2>2
    <3>3. b \notin lack
      BY <2>1, <3>2
    <3>4. QED
      BY <3>2, <3>3
  <2>4. m - 1 \in g .. BLOCK_COUNT /\ (m - 1) + 1 = m
    BY <1>0, <2>2
  <2>5. QED
    BY <2>2, <2>3, <2>4
<1>3. QED
  BY <1>1, <1>2

\* The gapless part is extended over received blocks only.
LEMMA AdvanceGaplessOK ==
  ASSUME NEW x, XferOK(x), Solid(x)
  PROVE  XferOK(AdvanceGapless(x)) /\ SameBitmap(x, AdvanceGapless(x)) /\ Solid(AdvanceGapless(x))
<1> DEFINE g == x.gapless_to_block
           e == GaplessFrom(x, g)
<1>0. BLOCK_COUNT \in Nat /\ U32 \in Nat /\ U32 > BLOCK_COUNT /\ g \in 0 .. U32 - 1
      /\ x.received \subseteq FileBlock
  BY TransferAssumption DEF TransferAssumption, XferOK, XferRecord
<1>1. AdvanceGapless(x) = [x EXCEPT !.gapless_to_block = e]
  BY DEF AdvanceGapless
<1>2. e \in 0 .. U32 - 1 /\ \A b \in g + 1 .. e : b \in x.received
  <2>1. CASE g >= BLOCK_COUNT
    BY <1>0, <2>1 DEF GaplessFrom
  <2>2. CASE ~ (g >= BLOCK_COUNT)
    <3>1. g \in 0 .. BLOCK_COUNT
      BY <1>0, <2>2
    <3>2. e = CHOOSE c \in g .. BLOCK_COUNT :
                /\ \A b \in g + 1 .. c : got_block(x, b)
                /\ c = BLOCK_COUNT \/ ~ got_block(x, c + 1)
      BY <2>2 DEF GaplessFrom
    <3> HIDE DEF g, e
    <3>3. e \in g .. BLOCK_COUNT /\ \A b \in g + 1 .. e : got_block(x, b)
      BY <3>1, <3>2, GaplessEnds
    <3>4. QED
      BY <1>0, <3>1, <3>3 DEF got_block
  <2>3. QED
    BY <2>1, <2>2
<1>3. parameter.lossless => 1 .. e \subseteq x.received
  <2> HIDE DEF e
  <2>1. ASSUME parameter.lossless, NEW b \in 1 .. e PROVE b \in x.received
    <3>1. CASE b <= g
      BY <1>0, <1>2, <2>1, <3>1 DEF Solid
    <3>2. CASE ~ (b <= g)
      BY <1>0, <1>2, <2>1, <3>2
    <3>3. QED
      BY <3>1, <3>2
  <2>2. QED
    BY <2>1
<1> HIDE DEF e
<1>4. QED
  BY <1>1, <1>2, <1>3 DEF XferOK, XferRecord, SameBitmap, Solid

\* Moving the head and ending a restart touch nothing else.
LEMMA HeadOK ==
  ASSUME NEW x, XferOK(x), Solid(x), NEW d \in Datagram
  PROVE  /\ XferOK(EndRestart(AdvanceHead(x, d)))
         /\ SameBitmap(x, EndRestart(AdvanceHead(x, d)))
         /\ Solid(EndRestart(AdvanceHead(x, d)))
<1> DEFINE y == AdvanceHead(x, d)
<1>1. XferOK(y) /\ SameBitmap(x, y) /\ Solid(y)
  <2>1. d.block + 1 \in 0 .. U32 - 1
    BY TransferAssumption DEF TransferAssumption, Datagram, FileBlock
  <2>2. QED
    BY <2>1 DEF AdvanceHead, XferOK, XferRecord, SameBitmap, Solid
<1> HIDE DEF y
<1>2. XferOK(EndRestart(y)) /\ SameBitmap(y, EndRestart(y)) /\ Solid(EndRestart(y))
  BY <1>1 DEF EndRestart, XferOK, XferRecord, SameBitmap, Solid
<1>3. QED
  BY <1>1, <1>2 DEF SameBitmap, y

\* A pass on a block of the file keeps the transfer state in order.
LEMMA TrackOK ==
  ASSUME NEW x, XferOK(x), Counted(x), Solid(x), NEW d \in Datagram, NEW e \in 0 .. U32 - 1
  PROVE  /\ XferOK(Track(x, d, e)) /\ Counted(Track(x, d, e)) /\ Solid(Track(x, d, e))
         /\ SameBitmap(x, Track(x, d, e))
<1>1. CASE OnTheWire(x, d)
  BY <1>1 DEF Track, SameBitmap
<1>2. CASE ~ OnTheWire(x, d)
  <2> DEFINE a == QueueGap(x, d, e)
             b == AdvanceGapless(a)
             c == EndRestart(AdvanceHead(b, d))
  <2>1. Track(x, d, e) = c
    BY <1>2 DEF Track
  <2>2. XferOK(a) /\ SameBitmap(x, a) /\ Solid(a)
    BY QueueGapOK
  <2> HIDE DEF a
  <2>3. XferOK(b) /\ SameBitmap(a, b) /\ Solid(b)
    BY <2>2, AdvanceGaplessOK
  <2> HIDE DEF b
  <2>4. XferOK(c) /\ SameBitmap(b, c) /\ Solid(c)
    BY <2>3, HeadOK
  <2> HIDE DEF c
  <2>5. QED
    BY <2>1, <2>2, <2>3, <2>4 DEF Counted, SameBitmap
<1>3. QED
  BY <1>1, <1>2

\* A restart starts at a block of the file, with nothing missing before it; only
\* in semi-lossy mode can the sum wrap and name block 0.
LEMMA RestartBlockOK ==
  ASSUME NEW x, XferOK(x), Solid(x)
  PROVE  /\ RestartBlock(x) \in 0 .. BLOCK_COUNT
         /\ AfterGapless(x) \in 0 .. U32 - 1
         /\ parameter.lossless => /\ RestartBlock(x) \in FileBlock
                                  /\ 1 .. RestartBlock(x) - 1 \subseteq x.received
<1> DEFINE g == x.gapless_to_block
<1>0. BLOCK_COUNT \in Nat \ {0} /\ U32 \in Nat /\ U32 > 0 /\ U32 > BLOCK_COUNT + 1 /\ g \in 0 .. U32 - 1
      /\ x.received \subseteq FileBlock
  BY TransferAssumption DEF TransferAssumption, XferOK, XferRecord
<1>1. AfterGapless(x) = (g + 1) % U32
  BY DEF AfterGapless
<1>2. Solid(x) => (parameter.lossless => 1 .. g \subseteq x.received)
  BY DEF Solid
<1> HIDE DEF g
<1>3. AfterGapless(x) \in 0 .. U32 - 1
  BY <1>0, <1>1
<1>4. RestartBlock(x) = min(BLOCK_COUNT, AfterGapless(x))
  BY DEF RestartBlock
<1>5. ASSUME parameter.lossless
      PROVE  RestartBlock(x) \in FileBlock /\ 1 .. RestartBlock(x) - 1 \subseteq x.received
  <2>1. g <= BLOCK_COUNT
    <3>1. g \in 1 .. g => g \in FileBlock
      BY <1>0, <1>2, <1>5
    <3>2. QED
      BY <1>0, <3>1 DEF FileBlock
  <2>2. AfterGapless(x) = g + 1
    BY <1>0, <1>1, <2>1
  <2>3. RestartBlock(x) \in 1 .. BLOCK_COUNT /\ RestartBlock(x) <= g + 1
    BY <1>0, <1>4, <2>1, <2>2 DEF min
  <2>4. QED
    BY <1>0, <1>2, <1>5, <2>3 DEF FileBlock
<1>6. QED
  BY <1>0, <1>3, <1>4, <1>5 DEF min

\* What ttp_repeat_retransmit leaves behind: the head moves only for a restart.
LEMMA RepeatOK ==
  ASSUME NEW x, XferOK(x), Solid(x)
  PROVE  /\ XferOK(AfterRepeat(x)) /\ SameBitmap(x, AfterRepeat(x)) /\ Solid(AfterRepeat(x))
         /\ AfterRepeat(x).gapless_to_block = x.gapless_to_block
         /\ AfterRepeat(x).next_block = IF TooMany(x) THEN RestartBlock(x) ELSE x.next_block
<1>0. BLOCK_COUNT \in Nat /\ TABLE_LIMIT \in Nat /\ ON_WIRE_ESTIMATE \in Nat /\ U32 \in Nat
      /\ MAX_RETRANSMISSION_BUFFER \in Nat \ {0} /\ U32 > BLOCK_COUNT
  BY TransferAssumption DEF TransferAssumption
<1>1. CASE TooMany(x)
  <2> DEFINE last  == x.table[Len(x.table)]
             clear == min(BLOCK_COUNT, last + ON_WIRE_ESTIMATE)
             r     == RestartBlock(x)
  <2>1. AfterRepeat(x) = [x EXCEPT !.restart_pending = TRUE, !.restart_lastidx = last,
                                   !.restart_wireclearidx = clear, !.table = <<>>,
                                   !.next_block = r]
    BY <1>1 DEF AfterRepeat
  <2>2. last \in 0 .. BLOCK_COUNT
    <3>1. x.table \in Seq(0 .. BLOCK_COUNT) /\ Len(x.table) \in Nat
      BY LenProperties DEF XferOK, XferRecord
    <3>2. Len(x.table) >= 1
      BY <1>0, <1>1, <3>1, OutstandingOK DEF TooMany
    <3>3. Len(x.table) \in 1 .. Len(x.table)
      BY <3>1, <3>2
    <3>4. QED
      BY <3>1, <3>3, ElementOfSeq
  <2> HIDE DEF last
  <2>3. clear \in 0 .. BLOCK_COUNT
    BY <1>0, <2>2 DEF min
  <2>4. r \in 0 .. U32 - 1
    BY <1>0, RestartBlockOK
  <2>5. <<>> \in Seq(0 .. BLOCK_COUNT) /\ Len(<<>>) <= TABLE_LIMIT
    BY <1>0, EmptySeq
  <2> HIDE DEF clear, r
  <2>6. XferOK(AfterRepeat(x)) /\ SameBitmap(x, AfterRepeat(x)) /\ Solid(AfterRepeat(x))
        /\ AfterRepeat(x).gapless_to_block = x.gapless_to_block
        /\ AfterRepeat(x).next_block = r
    BY <2>1, <2>2, <2>3, <2>4, <2>5 DEF XferOK, XferRecord, SameBitmap, Solid
  <2>7. QED
    BY <1>1, <2>6 DEF r
<1>2. CASE ~ TooMany(x)
  <2> DEFINE o == Outstanding(x)
  <2>1. AfterRepeat(x) = [x EXCEPT !.table = o]
    BY <1>2 DEF AfterRepeat
  <2>2. o \in Seq(0 .. BLOCK_COUNT) /\ Len(o) <= TABLE_LIMIT
    <3>1. Len(x.table) \in Nat /\ Len(x.table) <= TABLE_LIMIT
      BY LenProperties DEF XferOK, XferRecord
    <3>2. QED
      BY <1>0, <3>1, OutstandingOK
  <2> HIDE DEF o
  <2>3. QED
    BY <1>2, <2>1, <2>2 DEF XferOK, XferRecord, SameBitmap, Solid
<1>3. QED
  BY <1>1, <1>2

\* The requests at the end of the file keep the record well formed.
LEMMA StillMissingOK ==
  ASSUME NEW x, XferOK(x), Solid(x)
  PROVE  XferOK(StillMissing(x)) /\ SameBitmap(x, StillMissing(x)) /\ Solid(StillMissing(x))
<1>1. BLOCK_COUNT \in FileBlock
  BY TransferAssumption DEF TransferAssumption, FileBlock
<1>2. QED
  BY <1>1, RestartBlockOK, RangeOK DEF StillMissing, Solid, SameBitmap

-----------------------------------------------------------------------------
(* The requests the client sends. *)

\* What RequestsAreLegal says of one list of requests.
Legal(s) ==
  \A i \in 1 .. Len(s) :
    s[i].type = "retransmit" \/ (s[i].type = "restart" /\ parameter.lossless)
      => s[i].block \in FileBlock

\* Every restart in s names the block after the gapless part of x.
Restarts(s, x) == \A i \in 1 .. Len(s) : s[i].type = "restart" => s[i].block = RestartBlock(x)

\* What RestartsAtFirstGap says of the requests s, sent in a step to y.
Fits(s, y) ==
  \A i \in 1 .. Len(s) :
    parameter.lossless /\ s[i].type = "restart" =>
      /\ 1 .. s[i].block - 1 \subseteq y.received
      /\ y.next_block <= s[i].block

\* What ttp_repeat_retransmit sends: one restart, or retransmissions only.
LEMMA RequestsOK ==
  ASSUME NEW x, XferOK(x), Solid(x)
  PROVE  /\ Requests(x) \in Seq(RequestRecord)
         /\ Legal(Requests(x)) /\ Restarts(Requests(x), x)
         /\ ~ TooMany(x) => \A i \in 1 .. Len(Requests(x)) : Requests(x)[i].type = "retransmit"
<1>1. CASE TooMany(x)
  <2> DEFINE r == Request("restart", RestartBlock(x))
  <2>1. Requests(x) = <<r>>
    BY <1>1 DEF Requests
  <2>2. r \in RequestRecord /\ r.type = "restart" /\ r.block = RestartBlock(x)
    BY RestartBlockOK DEF Request, RequestRecord
  <2> HIDE DEF r
  <2>3. QED
    BY <1>1, <2>1, <2>2, RestartBlockOK DEF Legal, Restarts
<1>2. CASE ~ TooMany(x)
  <2> DEFINE o == Outstanding(x)
             n == Len(o)
             s == [i \in 1 .. n |-> Request("retransmit", o[i])]
  <2>1. Requests(x) = s
    BY <1>2 DEF Requests
  <2>2. n \in Nat /\ \A i \in 1 .. n : o[i] \in FileBlock
    BY OutstandingOK, ElementOfSeq
  <2> HIDE DEF n, o
  <2>3. \A i \in 1 .. n : s[i] \in RequestRecord /\ s[i].type = "retransmit" /\ s[i].block \in FileBlock
    BY <2>2, TransferAssumption DEF Request, RequestRecord, FileBlock, TransferAssumption
  <2>4. s \in Seq(RequestRecord) /\ Len(s) = n
    <3>1. \A i \in 1 .. n : Request("retransmit", o[i]) \in RequestRecord
      BY <2>3
    <3>2. QED
      BY <2>2, <3>1
  <2> HIDE DEF s
  <2>5. QED
    BY <1>2, <2>1, <2>3, <2>4 DEF Legal, Restarts
<1>3. QED
  BY <1>1, <1>2

\* A step that sends the requests s and leaves the transfer state in order.
Outcome(s) ==
  /\ s \in Seq(RequestRecord) /\ Legal(s) /\ Fits(s, xfer')
  /\ tcp' = tcp \o s /\ Len(tcp') <= TCP_BOUND
  /\ XferOK(xfer') /\ Counted(xfer') /\ Solid(xfer')

\* Two lists of requests in order are in order one after the other.
LEMMA ConcatRequests ==
  ASSUME NEW s \in Seq(RequestRecord), NEW t \in Seq(RequestRecord), NEW y
  PROVE  /\ s \o t \in Seq(RequestRecord)
         /\ Legal(s) /\ Legal(t) => Legal(s \o t)
         /\ Fits(s, y) /\ Fits(t, y) => Fits(s \o t, y)
<1> DEFINE u == s \o t
<1>1. Len(s) \in Nat /\ Len(t) \in Nat
  BY LenProperties
<1>2. u \in Seq(RequestRecord) /\ Len(u) = Len(s) + Len(t)
  BY ConcatProperties
<1>3. ASSUME NEW i \in 1 .. Len(u)
      PROVE  (\E j \in 1 .. Len(s) : u[i] = s[j]) \/ (\E j \in 1 .. Len(t) : u[i] = t[j])
  <2>1. u[i] = IF i <= Len(s) THEN s[i] ELSE t[i - Len(s)]
    BY <1>2, ConcatProperties
  <2>2. CASE i <= Len(s)
    BY <1>1, <1>2, <2>1, <2>2
  <2>3. CASE ~ (i <= Len(s))
    <3>1. i - Len(s) \in 1 .. Len(t)
      BY <1>1, <1>2, <2>3
    <3>2. QED
      BY <2>1, <2>3, <3>1
  <2>4. QED
    BY <2>2, <2>3
<1> HIDE DEF u
<1>4. Legal(s) /\ Legal(t) => Legal(u)
  BY <1>3, Zenon DEF Legal
<1>5. Fits(s, y) /\ Fits(t, y) => Fits(u, y)
  BY <1>3, Zenon DEF Fits
<1>6. QED
  BY <1>2, <1>4, <1>5 DEF u

\* Restarts that name the block after the gapless part fit every state with this
\* gapless part whose head is not beyond it.
LEMMA RestartsFit ==
  ASSUME NEW x, XferOK(x), Solid(x), NEW y, SameBitmap(x, y),
         NEW s \in Seq(RequestRecord), Restarts(s, x),
         y.next_block = RestartBlock(x) \/ \A i \in 1 .. Len(s) : s[i].type # "restart"
  PROVE  Fits(s, y)
<1>1. RestartBlock(x) \in Nat
  BY RestartBlockOK, TransferAssumption DEF TransferAssumption
<1>2. QED
  BY <1>1, RestartBlockOK DEF Fits, Restarts, SameBitmap

\* A write adds the requests to the stream and waits for room.
LEMMA SendOK ==
  ASSUME tcp \in Seq(RequestRecord), NEW s \in Seq(RequestRecord), Send(s)
  PROVE  tcp' = tcp \o s /\ Len(tcp') <= TCP_BOUND
<1>1. Len(tcp \o s) = Len(tcp) + Len(s)
  BY ConcatProperties
<1>2. QED
  BY <1>1 DEF Send

\* The statistics repeat the table or they do not; what was sent before them, if
\* it has a restart, has moved the head.
LEMMA UpdateStatsOK ==
  ASSUME tcp \in Seq(RequestRecord),
         NEW x, XferOK(x), Counted(x), Solid(x),
         NEW s \in Seq(RequestRecord), Legal(s), Restarts(s, x),
         x.next_block = RestartBlock(x) \/ \A i \in 1 .. Len(s) : s[i].type # "restart",
         UpdateStats(x, s)
  PROVE  \E t : Outcome(t)
<1>1. CASE xfer' = x /\ Send(s)
  <2>1. Fits(s, x)
    BY RestartsFit DEF SameBitmap
  <2>2. tcp' = tcp \o s /\ Len(tcp') <= TCP_BOUND
    BY <1>1, SendOK
  <2>3. Outcome(s)
    BY <1>1, <2>1, <2>2, Zenon DEF Outcome
  <2>4. QED
    BY <2>3, Zenon
<1>2. CASE xfer' = AfterRepeat(x) /\ Send(s \o Requests(x))
  <2> DEFINE y == AfterRepeat(x)
             r == Requests(x)
  <2>1. XferOK(y) /\ SameBitmap(x, y) /\ Solid(y)
        /\ y.next_block = IF TooMany(x) THEN RestartBlock(x) ELSE x.next_block
    BY RepeatOK
  <2>2. r \in Seq(RequestRecord) /\ Legal(r) /\ Restarts(r, x)
        /\ (~ TooMany(x) => \A i \in 1 .. Len(r) : r[i].type = "retransmit")
    BY RequestsOK
  <2> HIDE DEF y, r
  <2>3. Fits(s, y)
    BY <2>1, RestartsFit
  <2>4. Fits(r, y)
    <3>1. y.next_block = RestartBlock(x) \/ \A i \in 1 .. Len(r) : r[i].type # "restart"
      BY <2>1, <2>2
    <3>2. QED
      BY <2>1, <2>2, <3>1, RestartsFit
  <2>5. s \o r \in Seq(RequestRecord) /\ Legal(s \o r) /\ Fits(s \o r, y)
    BY <2>2, <2>3, <2>4, ConcatRequests
  <2>6. tcp' = tcp \o (s \o r) /\ Len(tcp') <= TCP_BOUND
    BY <1>2, <2>5, SendOK DEF r
  <2>7. Counted(y)
    BY <2>1 DEF Counted, SameBitmap
  <2>8. xfer' = y
    BY <1>2 DEF y
  <2>9. Outcome(s \o r)
    BY <2>1, <2>5, <2>6, <2>7, <2>8, Zenon DEF Outcome
  <2>10. QED
    BY <2>9, Zenon
<1>3. QED
  BY <1>1, <1>2 DEF UpdateStats

\* An empty list of requests is in order.
LEMMA NoRequests ==
  ASSUME NEW x
  PROVE  /\ <<>> \in Seq(RequestRecord) /\ Legal(<<>>) /\ Restarts(<<>>, x)
         /\ Fits(<<>>, x) /\ \A i \in 1 .. Len(<<>>) : <<>>[i].type # "restart"
BY EmptySeq DEF Legal, Restarts, Fits

\* A datagram leaves the transfer state in order, and the client leaves its loop
\* only with nothing left to receive, if the transfer is lossless.
LEMMA AcceptOK ==
  ASSUME TypeOK, Counted(xfer), Solid(xfer), NEW d \in Datagram, Accept(d)
  PROVE  /\ \E s : Outcome(s)
         /\ \/ client' = client
            \/ client' = "done" /\ (parameter.lossless => xfer'.blocks_left = 0)
<1>1. tcp \in Seq(RequestRecord) /\ XferOK(xfer)
  BY DEF TypeOK, XferOK
<1>2. PICK x \in Tracked(d) :
        \/ ~ Interesting(xfer, d) /\ UpdateStats(xfer, <<>>) /\ UNCHANGED client
        \/ Interesting(xfer, d) /\ d.type # "terminate" /\ UpdateStats(x, <<>>) /\ UNCHANGED client
        \/ /\ d.type = "terminate" /\ ~ Complete(x)
           /\ UpdateStats(AfterRepeat(StillMissing(x)), Requests(StillMissing(x)))
           /\ UNCHANGED client
        \/ /\ d.type = "terminate" /\ Complete(x)
           /\ xfer' = x /\ Send(<< Request("stop", 0) >>) /\ client' = "done"
  BY Zenon DEF Accept
<1>3. XferOK(x) /\ Counted(x) /\ Solid(x)
  <2>1. PICK e \in EarliestBlocks(xfer, d) : x = Track(Store(xfer, d.block), d, e)
    BY DEF Tracked
  <2>2. e \in 0 .. U32 - 1
    BY EarliestOK
  <2>3. d.block \in FileBlock
    BY DEF Datagram
  <2> DEFINE y == Store(xfer, d.block)
  <2>4. XferOK(y) /\ Counted(y) /\ Solid(y)
    BY <1>1, <2>3, StoreOK
  <2> HIDE DEF y
  <2>5. XferOK(Track(y, d, e)) /\ Counted(Track(y, d, e)) /\ Solid(Track(y, d, e))
    BY <2>2, <2>4, TrackOK
  <2>6. QED
    BY <2>1, <2>5 DEF y
<1>4. CASE UpdateStats(xfer, <<>>) /\ UNCHANGED client
  BY <1>1, <1>4, NoRequests, UpdateStatsOK
<1>5. CASE UpdateStats(x, <<>>) /\ UNCHANGED client
  BY <1>1, <1>3, <1>5, NoRequests, UpdateStatsOK
<1>6. CASE /\ UpdateStats(AfterRepeat(StillMissing(x)), Requests(StillMissing(x)))
           /\ UNCHANGED client
  <2> DEFINE m == StillMissing(x)
             y == AfterRepeat(m)
             r == Requests(m)
  <2>1. XferOK(m) /\ SameBitmap(x, m) /\ Solid(m)
    BY <1>3, StillMissingOK
  <2> HIDE DEF m
  <2>2. XferOK(y) /\ SameBitmap(m, y) /\ Solid(y)
        /\ y.gapless_to_block = m.gapless_to_block
        /\ y.next_block = IF TooMany(m) THEN RestartBlock(m) ELSE m.next_block
    BY <2>1, RepeatOK
  <2>3. r \in Seq(RequestRecord) /\ Legal(r) /\ Restarts(r, m)
        /\ (~ TooMany(m) => \A i \in 1 .. Len(r) : r[i].type = "retransmit")
    BY <2>1, RequestsOK
  <2> HIDE DEF y, r
  <2>4. RestartBlock(y) = RestartBlock(m)
    BY <2>2 DEF RestartBlock, AfterGapless
  <2>5. Counted(y) /\ Restarts(r, y)
    BY <1>3, <2>1, <2>2, <2>3, <2>4 DEF Counted, SameBitmap, Restarts
  <2>6. y.next_block = RestartBlock(y) \/ \A i \in 1 .. Len(r) : r[i].type # "restart"
    BY <2>2, <2>3, <2>4
  <2>7. UpdateStats(y, r)
    BY <1>6 DEF m, y, r
  <2>8. QED
    BY <1>1, <1>6, <2>2, <2>3, <2>5, <2>6, <2>7, UpdateStatsOK
<1>7. CASE Complete(x) /\ xfer' = x /\ Send(<< Request("stop", 0) >>) /\ client' = "done"
  <2> DEFINE s == << Request("stop", 0) >>
  <2>1. s \in Seq(RequestRecord) /\ Len(s) = 1 /\ s[1].type = "stop"
    BY TransferAssumption DEF Request, RequestRecord, TransferAssumption
  <2> HIDE DEF s
  <2>2. Legal(s) /\ Fits(s, x)
    BY <2>1 DEF Legal, Fits
  <2>3. tcp' = tcp \o s /\ Len(tcp') <= TCP_BOUND
    BY <1>1, <1>7, <2>1, SendOK DEF s
  <2>4. Outcome(s)
    BY <1>3, <1>7, <2>1, <2>2, <2>3, Zenon DEF Outcome
  <2>5. parameter.lossless => x.blocks_left = 0
    BY <1>7 DEF Complete
  <2>6. QED
    BY <1>7, <2>4, <2>5
<1>8. QED
  BY <1>2, <1>4, <1>5, <1>6, <1>7

-----------------------------------------------------------------------------
(* The invariant: the properties TLC checks are inductive together. *)

TransferInv ==
  /\ TypeOK
  /\ CountdownMatchesBitmap
  /\ GaplessHasNoGap
  /\ RequestsAreLegal
  /\ LosslessIsComplete

\* What RestartsAtFirstGap says of one step.
RestartFits ==
  \A i \in Len(tcp) + 1 .. Len(tcp') :
    parameter.lossless /\ tcp'[i].type = "restart" =>
      /\ 1 .. tcp'[i].block - 1 \subseteq xfer'.received
      /\ xfer'.next_block <= tcp'[i].block

\* The first state has nothing received, nothing in flight and everything to come.
LEMMA InitTransfer == Init => TransferInv
<1> SUFFICES ASSUME Init PROVE TransferInv
  OBVIOUS
<1>0. BLOCK_COUNT \in Nat \ {0} /\ U32 \in Nat /\ U32 > BLOCK_COUNT + 1 /\ TABLE_LIMIT \in Nat
      /\ TCP_BOUND \in Nat
  BY TransferAssumption DEF TransferAssumption
<1>1. tcp \in Seq(RequestRecord) /\ Len(tcp) = 0 /\ Len(tcp) <= TCP_BOUND
  BY <1>0, EmptySeq DEF Init
<1>2. xfer \in XferRecord /\ Len(xfer.table) <= TABLE_LIMIT
  <2>1. <<>> \in Seq(0 .. BLOCK_COUNT) /\ Len(<<>>) = 0
    BY EmptySeq
  <2>2. QED
    BY <1>0, <2>1 DEF Init, XferRecord
<1>3. TypeOK
  BY <1>0, <1>1, <1>2 DEF Init, TypeOK
<1>4. CountdownMatchesBitmap
  <2>1. FileBlock \ {} = 1 .. BLOCK_COUNT
    BY DEF FileBlock
  <2>2. Cardinality(1 .. BLOCK_COUNT) = BLOCK_COUNT
    BY <1>0, FS_Interval
  <2>3. QED
    BY <2>1, <2>2 DEF Init, CountdownMatchesBitmap
<1>5. GaplessHasNoGap /\ RequestsAreLegal /\ LosslessIsComplete
  BY <1>1 DEF Init, GaplessHasNoGap, RequestsAreLegal, LosslessIsComplete
<1>6. QED
  BY <1>3, <1>4, <1>5 DEF TransferInv

\* The server takes the oldest request and leaves the others in order.
LEMMA TailIsLegal ==
  ASSUME NEW s \in Seq(RequestRecord), s # <<>>, Legal(s)
  PROVE  /\ Head(s) \in RequestRecord /\ Tail(s) \in Seq(RequestRecord)
         /\ Len(Tail(s)) = Len(s) - 1 /\ Len(s) \in Nat \ {0}
         /\ Legal(Tail(s))
         /\ Head(s).type = "retransmit" => Head(s).block \in FileBlock
<1>1. Len(s) \in Nat \ {0} /\ Head(s) \in RequestRecord /\ Tail(s) \in Seq(RequestRecord)
      /\ Len(Tail(s)) = Len(s) - 1
  BY EmptySeq, HeadTailProperties
<1>2. \A i \in 1 .. Len(Tail(s)) : i + 1 \in 1 .. Len(s) /\ Tail(s)[i] = s[i + 1]
  BY <1>1
<1>3. Legal(Tail(s))
  BY <1>2 DEF Legal
<1>4. Head(s) = s[1] /\ 1 \in 1 .. Len(s)
  BY <1>1
<1>5. Head(s).type = "retransmit" => Head(s).block \in FileBlock
  BY <1>4 DEF Legal
<1>6. QED
  BY <1>1, <1>3, <1>5

\* Legal, Solid and Counted are the properties of the same meaning.
LEMMA PropertiesOfParts ==
  /\ Counted(xfer) <=> CountdownMatchesBitmap
  /\ Solid(xfer) <=> GaplessHasNoGap
  /\ tcp \in Seq(RequestRecord) => (Legal(tcp) <=> RequestsAreLegal)
<1>1. tcp \in Seq(RequestRecord) => DOMAIN tcp = 1 .. Len(tcp)
  BY LenProperties
<1>2. QED
  BY <1>1 DEF Counted, CountdownMatchesBitmap, Solid, GaplessHasNoGap, Legal, RequestsAreLegal

\* With nothing left to receive the bitmap is full.
LEMMA NothingLeft ==
  ASSUME NEW x, XferOK(x), Counted(x), x.blocks_left = 0
  PROVE  x.received = FileBlock
<1>1. IsFiniteSet(FileBlock \ x.received)
  <2>1. IsFiniteSet(FileBlock)
    BY FS_Interval, TransferAssumption DEF FileBlock, TransferAssumption
  <2>2. FileBlock \ x.received \in SUBSET FileBlock
    OBVIOUS
  <2>3. QED
    BY <2>1, <2>2, FS_Subset
<1>2. FileBlock \ x.received = {}
  BY <1>1, FS_EmptySet DEF Counted
<1>3. x.received \subseteq FileBlock
  BY DEF XferOK, XferRecord
<1>4. QED
  BY <1>2, <1>3

ServerStates == {"sending", "stopped", "timed_out"}

\* Steps that leave the transfer state alone, send no request and do not end the
\* client's loop, but for an abort.
LEMMA KeepsClient ==
  ASSUME TransferInv, UNCHANGED <<parameter, xfer>>, client' \in {client, "aborted"},
         server' \in ServerStates, block' \in 0 .. BLOCK_COUNT, udp' \subseteq Datagram,
         tcp' \in Seq(RequestRecord), Len(tcp') <= Len(tcp), Legal(tcp')
  PROVE  TransferInv' /\ RestartFits
<1>1. Len(tcp) \in Nat /\ Len(tcp') \in Nat /\ Len(tcp) <= TCP_BOUND /\ TCP_BOUND \in Nat
  BY LenProperties, TransferAssumption DEF TransferInv, TypeOK, TransferAssumption
<1>2. TypeOK'
  BY <1>1 DEF TransferInv, TypeOK, ServerStates
<1>3. CountdownMatchesBitmap' /\ GaplessHasNoGap' /\ LosslessIsComplete'
  BY DEF TransferInv, CountdownMatchesBitmap, GaplessHasNoGap, LosslessIsComplete
<1>4. RequestsAreLegal'
  <2>1. DOMAIN tcp' = 1 .. Len(tcp')
    BY LenProperties
  <2>2. QED
    BY <2>1 DEF Legal, RequestsAreLegal
<1>5. RestartFits
  BY <1>1 DEF RestartFits
<1>6. QED
  BY <1>2, <1>3, <1>4, <1>5 DEF TransferInv

\* Steps of the client.
LEMMA ClientStep ==
  ASSUME TransferInv, UNCHANGED <<parameter, server, block>>, udp' \subseteq Datagram,
         NEW s, Outcome(s),
         \/ client' = client /\ client # "done"
         \/ client' = "done" /\ (parameter.lossless => xfer'.blocks_left = 0)
  PROVE  TransferInv' /\ RestartFits
<1>0. tcp \in Seq(RequestRecord) /\ Legal(tcp)
  BY PropertiesOfParts DEF TransferInv, TypeOK
<1>1. s \in Seq(RequestRecord) /\ Legal(s) /\ Fits(s, xfer') /\ tcp' = tcp \o s
      /\ Len(tcp') <= TCP_BOUND /\ XferOK(xfer') /\ Counted(xfer') /\ Solid(xfer')
  BY Zenon DEF Outcome
<1>2. tcp' \in Seq(RequestRecord) /\ Legal(tcp')
  BY <1>0, <1>1, ConcatRequests
<1>3. TypeOK'
  BY <1>1, <1>2 DEF TransferInv, TypeOK, XferOK
<1>4. CountdownMatchesBitmap' /\ GaplessHasNoGap'
  BY <1>1 DEF CountdownMatchesBitmap, GaplessHasNoGap, Counted, Solid
<1>5. RequestsAreLegal'
  <2>1. DOMAIN tcp' = 1 .. Len(tcp')
    BY <1>2, LenProperties
  <2>2. QED
    BY <1>2, <2>1 DEF Legal, RequestsAreLegal
<1>6. LosslessIsComplete'
  BY <1>1, NothingLeft DEF LosslessIsComplete
<1>7. RestartFits
  <2>1. ASSUME NEW i \in Len(tcp) + 1 .. Len(tcp')
        PROVE  i - Len(tcp) \in 1 .. Len(s) /\ tcp'[i] = s[i - Len(tcp)]
    <3>1. Len(tcp) \in Nat /\ Len(s) \in Nat /\ Len(tcp') = Len(tcp) + Len(s)
      BY <1>0, <1>1, LenProperties, ConcatProperties
    <3>2. i \in 1 .. Len(tcp) + Len(s) /\ ~ (i <= Len(tcp)) /\ i - Len(tcp) \in 1 .. Len(s)
      BY <3>1
    <3>3. QED
      BY <1>0, <1>1, <3>2, ConcatProperties
  <2>2. QED
    BY <1>1, <2>1 DEF RestartFits, Fits
<1>8. QED
  BY <1>3, <1>4, <1>5, <1>6, <1>7 DEF TransferInv

\* Every step keeps the invariant and asks for no restart beyond a gap.
LEMMA StepTransfer == TransferInv /\ [Next]_vars => TransferInv' /\ (RestartFits \/ UNCHANGED vars)
<1> SUFFICES ASSUME TransferInv, [Next]_vars PROVE TransferInv' /\ (RestartFits \/ UNCHANGED vars)
  OBVIOUS
<1>0. /\ TypeOK /\ tcp \in Seq(RequestRecord) /\ Legal(tcp) /\ Len(tcp) \in Nat
      /\ XferOK(xfer) /\ Counted(xfer) /\ Solid(xfer) /\ BLOCK_COUNT \in Nat \ {0}
  BY PropertiesOfParts, LenProperties, TransferAssumption
     DEF TransferInv, TypeOK, XferOK, TransferAssumption
<1>1. CASE HandleRequest
  <2> DEFINE r == Head(tcp)
  <2>1. tcp # <<>> /\ tcp' = Tail(tcp) /\ UNCHANGED <<parameter, client, xfer>>
    BY <1>1 DEF HandleRequest
  <2>2. /\ r \in RequestRecord /\ tcp' \in Seq(RequestRecord) /\ Len(tcp') <= Len(tcp) /\ Legal(tcp')
        /\ r.type = "retransmit" => r.block \in FileBlock
    BY <1>0, <2>1, TailIsLegal
  <2>3. CASE r.type = "stop" /\ server' = "stopped" /\ UNCHANGED <<block, udp>>
    BY <1>0, <2>1, <2>2, <2>3, KeepsClient DEF TypeOK, ServerStates
  <2>4. CASE /\ r.type = "restart"
             /\ block' = IF r.block \in FileBlock THEN r.block ELSE block
             /\ UNCHANGED <<server, udp>>
    <3>1. block' \in 0 .. BLOCK_COUNT /\ server' \in ServerStates /\ udp' \subseteq Datagram
      BY <1>0, <2>4 DEF TypeOK, FileBlock, ServerStates
    <3>2. QED
      BY <2>1, <2>2, <3>1, KeepsClient
  <2>5. CASE /\ r.type = "retransmit" /\ Transmit(r.block, "retransmission")
             /\ UNCHANGED <<server, block>>
    <3>1. udp' \subseteq Datagram
      BY <1>0, <2>2, <2>5 DEF Transmit, Datagram, BlockType, TypeOK
    <3>2. block' \in 0 .. BLOCK_COUNT /\ server' \in ServerStates
      BY <1>0, <2>5 DEF TypeOK, ServerStates
    <3>3. QED
      BY <2>1, <2>2, <3>1, <3>2, KeepsClient
  <2>6. QED
    BY <1>1, <2>3, <2>4, <2>5 DEF HandleRequest
<1>2. CASE SendNextBlock
  <2>1. block' \in FileBlock /\ UNCHANGED <<parameter, server, tcp, client, xfer>>
    BY <1>0, <1>2 DEF SendNextBlock, NextToSend, min, FileBlock, TypeOK
  <2>2. udp' \subseteq Datagram
    <3> DEFINE t == IF block' = BLOCK_COUNT THEN "terminate" ELSE "original"
    <3>1. Transmit(block', t) /\ t \in BlockType
      BY <1>2 DEF SendNextBlock, BlockType
    <3> HIDE DEF t
    <3>2. QED
      BY <1>0, <2>1, <3>1 DEF Transmit, Datagram, TypeOK
  <2>3. block' \in 0 .. BLOCK_COUNT /\ server' \in ServerStates
    BY <1>0, <2>1 DEF FileBlock, TypeOK, ServerStates
  <2>4. tcp' \in Seq(RequestRecord) /\ Len(tcp') <= Len(tcp) /\ Legal(tcp')
    BY <1>0, <2>1
  <2>5. QED
    BY <2>1, <2>2, <2>3, <2>4, KeepsClient
<1>3. ASSUME NEW d \in udp, Receive(d) \/ ReceiveWhenFull(d) PROVE TransferInv' /\ RestartFits
  <2>1. d \in Datagram /\ Deliver(d) /\ UNCHANGED <<parameter, server, block>>
    BY <1>0, <1>3 DEF TypeOK, Receive, ReceiveWhenFull
  <2>2. udp' \subseteq Datagram /\ client # "done"
    BY <1>0, <2>1 DEF Deliver, TypeOK
  <2>3. CASE Receive(d)
    <3>1. /\ \E s : Outcome(s)
          /\ \/ client' = client
             \/ client' = "done" /\ (parameter.lossless => xfer'.blocks_left = 0)
      BY <1>0, <2>1, <2>3, AcceptOK DEF Receive
    <3>2. QED
      BY <2>1, <2>2, <3>1, ClientStep
  <2>4. CASE ReceiveWhenFull(d)
    <3>1. UpdateStats(xfer, <<>>) /\ client' = client
      BY <2>4 DEF ReceiveWhenFull
    <3>2. \E s : Outcome(s)
      BY <1>0, <3>1, NoRequests, UpdateStatsOK
    <3>3. QED
      BY <2>1, <2>2, <3>1, <3>2, ClientStep
  <2>5. QED
    BY <1>3, <2>3, <2>4
<1>4. ASSUME NEW d \in udp, Lose(d) PROVE TransferInv' /\ RestartFits
  <2>1. udp' \subseteq Datagram /\ UNCHANGED <<parameter, server, block, tcp, client, xfer>>
    BY <1>0, <1>4 DEF Lose, TypeOK
  <2>2. /\ block' \in 0 .. BLOCK_COUNT /\ server' \in ServerStates
        /\ tcp' \in Seq(RequestRecord) /\ Len(tcp') <= Len(tcp) /\ Legal(tcp')
    BY <1>0, <2>1 DEF TypeOK, ServerStates
  <2>3. QED
    BY <2>1, <2>2, KeepsClient
<1>5. CASE HeartbeatTimeout \/ Abort
  <2>1. UNCHANGED <<parameter, block, udp, tcp, xfer>> /\ client' \in {client, "aborted"}
        /\ server' \in ServerStates
    BY <1>0, <1>5 DEF HeartbeatTimeout, Abort, TypeOK, ServerStates
  <2>2. /\ block' \in 0 .. BLOCK_COUNT /\ udp' \subseteq Datagram
        /\ tcp' \in Seq(RequestRecord) /\ Len(tcp') <= Len(tcp) /\ Legal(tcp')
    BY <1>0, <2>1 DEF TypeOK
  <2>3. QED
    BY <2>1, <2>2, KeepsClient
<1>6. CASE ReadAsFileName
  <2>1. tcp # <<>> /\ tcp' = Tail(tcp) /\ UNCHANGED <<parameter, server, block, udp, client, xfer>>
    BY <1>6 DEF ReadAsFileName
  <2>2. tcp' \in Seq(RequestRecord) /\ Len(tcp') <= Len(tcp) /\ Legal(tcp')
    BY <1>0, <2>1, TailIsLegal
  <2>3. block' \in 0 .. BLOCK_COUNT /\ udp' \subseteq Datagram /\ server' \in ServerStates
    BY <1>0, <2>1 DEF TypeOK, ServerStates
  <2>4. QED
    BY <2>1, <2>2, <2>3, KeepsClient
<1>7. CASE UNCHANGED vars
  BY <1>7 DEF vars, TransferInv, TypeOK, CountdownMatchesBitmap, GaplessHasNoGap,
              RequestsAreLegal, LosslessIsComplete
<1>8. QED
  BY <1>1, <1>2, <1>3, <1>4, <1>5, <1>6, <1>7 DEF Next, Finished

-----------------------------------------------------------------------------
(* The theorems. *)

\* The invariant holds in every reachable state.
THEOREM TransferInvariant == Spec => []TransferInv
BY InitTransfer, StepTransfer, PTL DEF Spec

\* blocks_left, which ends the transfer, is the number of blocks the bitmap
\* lacks, whatever is lost, repeated, reordered and restarted.
THEOREM CountdownIsRight == Spec => []CountdownMatchesBitmap
<1>1. TransferInv => CountdownMatchesBitmap
  BY DEF TransferInv
<1>2. QED
  BY <1>1, TransferInvariant, PTL

\* A lossless transfer is left only with every block of the file.
THEOREM LosslessTransferIsWhole == Spec => []LosslessIsComplete
<1>1. TransferInv => LosslessIsComplete
  BY DEF TransferInv
<1>2. QED
  BY <1>1, TransferInvariant, PTL

\* In lossless mode gapless_to_block never passes a missing block.
THEOREM GaplessPartIsWhole == Spec => []GaplessHasNoGap
<1>1. TransferInv => GaplessHasNoGap
  BY DEF TransferInv
<1>2. QED
  BY <1>1, TransferInvariant, PTL

\* No request asks the server for a block that is not in the file.
THEOREM RequestsNameBlocks == Spec => []RequestsAreLegal
<1>1. TransferInv => RequestsAreLegal
  BY DEF TransferInv
<1>2. QED
  BY <1>1, TransferInvariant, PTL

\* The counters, the table and the channels stay within their ranges.
THEOREM TransferTypeCorrect == Spec => []TypeOK
<1>1. TransferInv => TypeOK
  BY DEF TransferInv
<1>2. QED
  BY <1>1, TransferInvariant, PTL

\* A restart leaves no gap behind it.
THEOREM RestartsLeaveNoGap == Spec => RestartsAtFirstGap
<1>1. TransferInv /\ [Next]_vars => [RestartFits]_vars
  BY StepTransfer
<1>2. Spec => [][RestartFits]_vars
  BY <1>1, TransferInvariant, PTL DEF Spec
<1>3. QED
  BY <1>2 DEF RestartFits, RestartsAtFirstGap

-----------------------------------------------------------------------------
(* The transfer implements the copying of the file. *)

\* The client asks the server to stop only when it has left its loop, and the
\* server does what it was asked to only then.
StopFollowsClient ==
  /\ \A i \in 1 .. Len(tcp) : tcp[i].type = "stop" => client = "done"
  /\ server = "stopped" => client = "done"

NoStop(s) == s \in Seq(RequestRecord) /\ \A i \in 1 .. Len(s) : s[i].type # "stop"

\* What ttp_repeat_retransmit sends is no request to stop.
LEMMA RequestsNoStop ==
  ASSUME NEW x, XferOK(x), Solid(x)
  PROVE  NoStop(Requests(x))
<1>1. CASE TooMany(x)
  <2> DEFINE r == Request("restart", RestartBlock(x))
  <2>1. Requests(x) = <<r>> /\ r.type = "restart"
    BY <1>1 DEF Requests, Request
  <2> HIDE DEF r
  <2>2. Requests(x) \in Seq(RequestRecord)
    BY RequestsOK
  <2>3. QED
    BY <2>1, <2>2 DEF NoStop
<1>2. CASE ~ TooMany(x)
  BY <1>2, RequestsOK DEF NoStop
<1>3. QED
  BY <1>1, <1>2

LEMMA ConcatNoStop ==
  ASSUME NEW s, NEW t, NoStop(s), NoStop(t)
  PROVE  NoStop(s \o t)
<1> DEFINE u == s \o t
<1>1. Len(s) \in Nat /\ Len(t) \in Nat /\ u \in Seq(RequestRecord) /\ Len(u) = Len(s) + Len(t)
  BY LenProperties, ConcatProperties DEF NoStop
<1>2. ASSUME NEW i \in 1 .. Len(u) PROVE u[i].type # "stop"
  <2>1. u[i] = IF i <= Len(s) THEN s[i] ELSE t[i - Len(s)]
    BY <1>1, ConcatProperties DEF NoStop
  <2>2. CASE i <= Len(s)
    BY <1>1, <2>1, <2>2 DEF NoStop
  <2>3. CASE ~ (i <= Len(s))
    <3>1. i - Len(s) \in 1 .. Len(t)
      BY <1>1, <2>3
    <3>2. QED
      BY <2>1, <2>3, <3>1 DEF NoStop
  <2>4. QED
    BY <2>2, <2>3
<1> HIDE DEF u
<1>3. QED
  BY <1>1, <1>2 DEF NoStop, u

\* A step of the client without a request to stop, that leaves it with the
\* blocks R.
Copied(R) == xfer'.received = R /\ \E s : NoStop(s) /\ tcp' = tcp \o s

\* The statistics send no request to stop and leave the bitmap alone.
LEMMA StatsCopy ==
  ASSUME NEW x, XferOK(x), Solid(x), NEW s, NoStop(s), UpdateStats(x, s)
  PROVE  Copied(x.received)
<1>1. CASE xfer' = x /\ Send(s)
  BY <1>1 DEF Copied, Send
<1>2. CASE xfer' = AfterRepeat(x) /\ Send(s \o Requests(x))
  <2>1. NoStop(s \o Requests(x))
    BY RequestsNoStop, ConcatNoStop
  <2>2. xfer'.received = x.received
    BY <1>2, RepeatOK DEF SameBitmap
  <2>3. tcp' = tcp \o (s \o Requests(x))
    BY <1>2 DEF Send
  <2>4. QED
    BY <2>1, <2>2, <2>3, Zenon DEF Copied
<1>3. QED
  BY <1>1, <1>2 DEF UpdateStats

\* A datagram brings its block, or is dropped; only one that ends the transfer
\* makes the client leave its loop and ask the server to stop.
LEMMA AcceptCopies ==
  ASSUME TypeOK, Counted(xfer), Solid(xfer), NEW d \in Datagram, Accept(d)
  PROVE  \/ /\ Copied(xfer.received) \/ Copied(xfer.received \cup {d.block})
            /\ client' = client
         \/ /\ xfer'.received = xfer.received \cup {d.block}
            /\ client' = "done"
<1>1. XferOK(xfer) /\ d.block \in FileBlock
  BY DEF TypeOK, XferOK, Datagram
<1>2. PICK x \in Tracked(d) :
        \/ ~ Interesting(xfer, d) /\ UpdateStats(xfer, <<>>) /\ UNCHANGED client
        \/ Interesting(xfer, d) /\ d.type # "terminate" /\ UpdateStats(x, <<>>) /\ UNCHANGED client
        \/ /\ d.type = "terminate" /\ ~ Complete(x)
           /\ UpdateStats(AfterRepeat(StillMissing(x)), Requests(StillMissing(x)))
           /\ UNCHANGED client
        \/ /\ d.type = "terminate" /\ Complete(x)
           /\ xfer' = x /\ Send(<< Request("stop", 0) >>) /\ client' = "done"
  BY Zenon DEF Accept
<1>3. XferOK(x) /\ Solid(x) /\ x.received = xfer.received \cup {d.block}
  <2>1. PICK e \in EarliestBlocks(xfer, d) : x = Track(Store(xfer, d.block), d, e)
    BY DEF Tracked
  <2>2. e \in 0 .. U32 - 1
    BY EarliestOK
  <2> DEFINE y == Store(xfer, d.block)
  <2>3. XferOK(y) /\ Counted(y) /\ Solid(y)
    BY <1>1, StoreOK
  <2>4. y.received = xfer.received \cup {d.block}
    <3>1. got_block(xfer, d.block) => xfer.received \cup {d.block} = xfer.received
      BY <1>1, TransferAssumption DEF got_block, FileBlock, TransferAssumption
    <3>2. CASE got_block(xfer, d.block)
      BY <3>1, <3>2 DEF Store
    <3>3. CASE ~ got_block(xfer, d.block)
      BY <1>1, <3>3 DEF Store, XferOK, XferRecord
    <3>4. QED
      BY <3>2, <3>3
  <2> HIDE DEF y
  <2>5. XferOK(Track(y, d, e)) /\ Solid(Track(y, d, e)) /\ SameBitmap(y, Track(y, d, e))
    BY <2>2, <2>3, TrackOK
  <2>6. QED
    BY <2>1, <2>4, <2>5 DEF y, SameBitmap
<1>4. NoStop(<<>>)
  BY EmptySeq DEF NoStop
<1>5. CASE UpdateStats(xfer, <<>>) /\ UNCHANGED client
  BY <1>1, <1>4, <1>5, StatsCopy
<1>6. CASE UpdateStats(x, <<>>) /\ UNCHANGED client
  <2>1. Copied(x.received)
    BY <1>3, <1>4, <1>6, StatsCopy
  <2>2. QED
    BY <1>3, <1>6, <2>1
<1>7. CASE /\ UpdateStats(AfterRepeat(StillMissing(x)), Requests(StillMissing(x)))
           /\ UNCHANGED client
  <2> DEFINE m == StillMissing(x)
             y == AfterRepeat(m)
  <2>1. XferOK(m) /\ SameBitmap(x, m) /\ Solid(m)
    BY <1>3, StillMissingOK
  <2> HIDE DEF m
  <2>2. XferOK(y) /\ SameBitmap(m, y) /\ Solid(y)
    BY <2>1, RepeatOK
  <2>3. NoStop(Requests(m))
    BY <2>1, RequestsNoStop
  <2> HIDE DEF y
  <2>4. UpdateStats(y, Requests(m))
    BY <1>7 DEF m, y
  <2>5. Copied(y.received)
    BY <2>2, <2>3, <2>4, StatsCopy
  <2>6. QED
    BY <1>3, <1>7, <2>1, <2>2, <2>5 DEF SameBitmap
<1>8. CASE Complete(x) /\ xfer' = x /\ Send(<< Request("stop", 0) >>) /\ client' = "done"
  BY <1>3, <1>8
<1>9. QED
  BY <1>2, <1>5, <1>6, <1>7, <1>8

\* Steps without a request to stop keep the server behind the client.
LEMMA KeepsStopOrder ==
  ASSUME TypeOK, StopFollowsClient, UNCHANGED <<server, client>>,
         NEW s, NoStop(s), tcp' = tcp \o s
  PROVE  StopFollowsClient'
<1>1. tcp \in Seq(RequestRecord) /\ Len(tcp) \in Nat /\ Len(s) \in Nat /\ Len(tcp') = Len(tcp) + Len(s)
  BY LenProperties, ConcatProperties DEF TypeOK, NoStop
<1>2. ASSUME NEW i \in 1 .. Len(tcp'), tcp'[i].type = "stop" PROVE client' = "done"
  <2>1. tcp'[i] = IF i <= Len(tcp) THEN tcp[i] ELSE s[i - Len(tcp)]
    BY <1>1, ConcatProperties DEF NoStop
  <2>2. CASE i <= Len(tcp)
    BY <1>1, <1>2, <2>1, <2>2 DEF StopFollowsClient
  <2>3. CASE ~ (i <= Len(tcp))
    <3>1. i - Len(tcp) \in 1 .. Len(s)
      BY <1>1, <2>3
    <3>2. QED
      BY <1>2, <2>1, <2>3, <3>1 DEF NoStop
  <2>4. QED
    BY <2>2, <2>3
<1>3. QED
  BY <1>2 DEF StopFollowsClient

\* A step of the transfer in terms of its abstraction.
CopyStep ==
  \/ UNCHANGED <<parameter, server, client>> /\ xfer'.received = xfer.received
  \/ /\ client = "receiving" /\ client' = "receiving" /\ UNCHANGED <<parameter, server>>
     /\ \E b \in FileBlock : xfer'.received = xfer.received \cup {b}
  \/ /\ client = "receiving" /\ client' = "done" /\ UNCHANGED <<parameter, server>>
     /\ \E b \in FileBlock : xfer'.received = xfer.received \cup {b}
     /\ parameter.lossless => xfer'.received = FileBlock
  \/ /\ client = "done" /\ server = "sending" /\ server' = "stopped"
     /\ UNCHANGED <<parameter, client>> /\ xfer'.received = xfer.received
  \/ /\ client = "receiving" /\ client' = "aborted" /\ UNCHANGED <<parameter, server>>
     /\ xfer'.received = xfer.received
  \/ /\ server = "sending" /\ server' = "timed_out" /\ UNCHANGED <<parameter, client>>
     /\ xfer'.received = xfer.received

\* Every step adds a block, ends the client or then the server, gives the
\* transfer up on one side, or stutters.
LEMMA StepCopies ==
  ASSUME TransferInv, TransferInv', StopFollowsClient, [Next]_vars
  PROVE  StopFollowsClient' /\ CopyStep
<1>0. /\ TypeOK /\ tcp \in Seq(RequestRecord) /\ Len(tcp) \in Nat
      /\ XferOK(xfer) /\ Counted(xfer) /\ Solid(xfer)
  BY PropertiesOfParts, LenProperties DEF TransferInv, TypeOK, XferOK
<1>1. CASE HandleRequest
  <2> DEFINE r == Head(tcp)
  <2>1. tcp # <<>> /\ tcp' = Tail(tcp) /\ server = "sending" /\ UNCHANGED <<parameter, client, xfer>>
    BY <1>1 DEF HandleRequest
  <2>2. Len(tcp) \in Nat \ {0} /\ Len(tcp') = Len(tcp) - 1 /\ r = tcp[1]
        /\ \A i \in 1 .. Len(tcp') : tcp'[i] = tcp[i + 1]
    BY <1>0, <2>1, EmptySeq, HeadTailProperties
  <2>3. \A i \in 1 .. Len(tcp') : i + 1 \in 1 .. Len(tcp)
    BY <2>2
  <2>4. CASE r.type = "stop" /\ server' = "stopped"
    <3>1. client = "done"
      BY <2>2, <2>4 DEF StopFollowsClient
    <3>2. QED
      BY <2>1, <2>4, <3>1 DEF StopFollowsClient, CopyStep
  <2>5. CASE UNCHANGED server
    <3>1. StopFollowsClient'
      BY <2>1, <2>2, <2>3, <2>5 DEF StopFollowsClient
    <3>2. QED
      BY <2>1, <2>5, <3>1 DEF CopyStep
  <2>6. QED
    BY <1>1, <2>4, <2>5 DEF HandleRequest
<1>2. CASE SendNextBlock
  <2>1. UNCHANGED <<parameter, server, tcp, client, xfer>>
    BY <1>2 DEF SendNextBlock
  <2>2. QED
    BY <2>1 DEF StopFollowsClient, CopyStep
<1>3. ASSUME NEW d \in udp, Receive(d) PROVE StopFollowsClient' /\ CopyStep
  <2>1. d \in Datagram /\ client = "receiving" /\ Accept(d) /\ UNCHANGED <<parameter, server, block>>
    BY <1>0, <1>3 DEF TypeOK, Receive, Deliver
  <2>2. d.block \in FileBlock
    BY <2>1 DEF Datagram
  <2>3. \/ /\ Copied(xfer.received) \/ Copied(xfer.received \cup {d.block})
           /\ client' = client
        \/ /\ xfer'.received = xfer.received \cup {d.block}
           /\ client' = "done"
    BY <1>0, <2>1, AcceptCopies
  <2>4. CASE (Copied(xfer.received) \/ Copied(xfer.received \cup {d.block})) /\ client' = client
    <3>1. PICK s : NoStop(s) /\ tcp' = tcp \o s
      BY <2>4 DEF Copied
    <3>2. StopFollowsClient'
      BY <1>0, <2>1, <2>4, <3>1, KeepsStopOrder
    <3>3. CopyStep
      BY <2>1, <2>2, <2>4 DEF CopyStep, Copied
    <3>4. QED
      BY <3>2, <3>3
  <2>5. CASE xfer'.received = xfer.received \cup {d.block} /\ client' = "done"
    <3>1. parameter.lossless => xfer'.received = FileBlock
      BY <2>1, <2>5 DEF TransferInv, LosslessIsComplete
    <3>2. CopyStep
      BY <2>1, <2>2, <2>5, <3>1 DEF CopyStep
    <3>3. QED
      BY <2>1, <2>5, <3>2 DEF StopFollowsClient
  <2>6. QED
    BY <2>3, <2>4, <2>5
<1>4. ASSUME NEW d \in udp, ReceiveWhenFull(d) PROVE StopFollowsClient' /\ CopyStep
  <2>1. UpdateStats(xfer, <<>>) /\ UNCHANGED <<parameter, server, block, client>>
    BY <1>4 DEF ReceiveWhenFull
  <2>2. NoStop(<<>>)
    BY EmptySeq DEF NoStop
  <2>3. Copied(xfer.received)
    BY <1>0, <2>1, <2>2, StatsCopy
  <2>4. PICK s : NoStop(s) /\ tcp' = tcp \o s
    BY <2>3 DEF Copied
  <2>5. StopFollowsClient'
    BY <1>0, <2>1, <2>4, KeepsStopOrder
  <2>6. QED
    BY <2>1, <2>3, <2>5 DEF CopyStep, Copied
<1>5. ASSUME NEW d \in udp, Lose(d) PROVE StopFollowsClient' /\ CopyStep
  BY <1>5 DEF Lose, StopFollowsClient, CopyStep
<1>6. CASE HeartbeatTimeout \/ Abort
  BY <1>6 DEF HeartbeatTimeout, Abort, StopFollowsClient, CopyStep
<1>7. CASE ReadAsFileName
  <2>1. tcp # <<>> /\ tcp' = Tail(tcp) /\ UNCHANGED <<parameter, server, client, xfer>>
    BY <1>7 DEF ReadAsFileName
  <2>2. \A i \in 1 .. Len(tcp') : tcp'[i] = tcp[i + 1] /\ i + 1 \in 1 .. Len(tcp)
    BY <1>0, <2>1, EmptySeq, HeadTailProperties
  <2>3. QED
    BY <2>1, <2>2 DEF StopFollowsClient, CopyStep
<1>8. CASE UNCHANGED vars
  BY <1>8 DEF vars, StopFollowsClient, CopyStep
<1>9. QED
  BY <1>1, <1>2, <1>3, <1>4, <1>5, <1>6, <1>7, <1>8 DEF Next, Finished

\* A transfer adds blocks to what the client has, ends the client with what it
\* wants and stops the server after it, whatever the network and the restarts do
\* and whenever one side gives the transfer up.
THEOREM TransferCopiesFile == Spec => CopySteps
<1>1. Init => Copy!Init /\ StopFollowsClient
  <2> SUFFICES ASSUME Init PROVE Copy!Init /\ StopFollowsClient
    OBVIOUS
  <2>1. parameter.lossless \in BOOLEAN
    BY TransferAssumption DEF Init, TransferAssumption
  <2>2. client = "receiving" /\ server = "sending" /\ xfer.received = {}
    BY DEF Init
  <2>3. Len(tcp) = 0
    BY EmptySeq DEF Init
  <2>4. QED
    BY <2>1, <2>2, <2>3 DEF Copy!Init, StopFollowsClient, Init
<1>2. TransferInv /\ TransferInv' /\ StopFollowsClient /\ [Next]_vars
        => StopFollowsClient' /\ [Copy!Next]_(Copy!copyVars)
  <2> SUFFICES ASSUME TransferInv, TransferInv', CopyStep PROVE [Copy!Next]_(Copy!copyVars)
    BY StepCopies
  <2>1. CASE UNCHANGED <<parameter, server, client>> /\ xfer'.received = xfer.received
    BY <2>1 DEF Copy!copyVars
  <2>2. CASE /\ client = "receiving" /\ client' = "receiving" /\ UNCHANGED <<parameter, server>>
             /\ \E b \in FileBlock : xfer'.received = xfer.received \cup {b}
    <3>1. PICK b \in FileBlock : xfer'.received = xfer.received \cup {b}
      BY <2>2
    <3>2. Copy!Arrive(b)
      BY <2>2, <3>1 DEF Copy!Arrive
    <3>3. QED
      BY <3>2 DEF Copy!Next
  <2>3. CASE /\ client = "receiving" /\ client' = "done" /\ UNCHANGED <<parameter, server>>
             /\ \E b \in FileBlock : xfer'.received = xfer.received \cup {b}
             /\ parameter.lossless => xfer'.received = FileBlock
    <3>1. Copy!Finish
      BY <2>3 DEF Copy!Finish
    <3>2. QED
      BY <3>1 DEF Copy!Next
  <2>4. CASE /\ client = "done" /\ server = "sending" /\ server' = "stopped"
             /\ UNCHANGED <<parameter, client>> /\ xfer'.received = xfer.received
    <3>1. Copy!Stop
      BY <2>4 DEF Copy!Stop
    <3>2. QED
      BY <3>1 DEF Copy!Next
  <2>5. CASE /\ client = "receiving" /\ client' = "aborted" /\ UNCHANGED <<parameter, server>>
             /\ xfer'.received = xfer.received
    <3>1. Copy!Abort
      BY <2>5 DEF Copy!Abort
    <3>2. QED
      BY <3>1 DEF Copy!Next
  <2>6. CASE /\ server = "sending" /\ server' = "timed_out" /\ UNCHANGED <<parameter, client>>
             /\ xfer'.received = xfer.received
    <3>1. Copy!GiveUp
      BY <2>6 DEF Copy!GiveUp
    <3>2. QED
      BY <3>1 DEF Copy!Next
  <2>7. QED
    BY <2>1, <2>2, <2>3, <2>4, <2>5, <2>6 DEF CopyStep
<1>3. QED
  BY <1>1, <1>2, TransferInvariant, PTL DEF Spec, CopySteps, Copy!SafeSpec

-----------------------------------------------------------------------------
(* Gaps stay queued while the table has room. *)

\* Pick keeps every entry that is in the set.
LEMMA PickKeeps ==
  ASSUME NEW T, NEW S \in SUBSET T, NEW s \in Seq(T), NEW j \in 1 .. Len(s), s[j] \in S
  PROVE  \E i \in 1 .. Len(Pick(s, S)) : Pick(s, S)[i] = s[j]
<1> DEFINE n == Len(s)
           p == CHOOSE f : Picks(f, n, s, S)
           Holds(m) == \E i \in 1 .. Len(p[m]) : p[m][i] = s[j]
<1>0. n \in Nat /\ j \in 1 .. n
  OBVIOUS
<1>1. Pick(s, S) = p[n]
  BY Zenon DEF Pick, Picks
<1>2. Picks(p, n, s, S)
  BY <1>0, PickExists, Zenon
<1> HIDE DEF p
<1>p. p = [i \in 0 .. n |->
        IF i = 0 THEN <<>>
        ELSE IF s[i] \in S THEN Append(p[i - 1], s[i]) ELSE p[i - 1]]
  BY <1>2, Zenon DEF Picks
<1> DEFINE Bad == {m \in 0 .. n : ~ (p[m] \in Seq(S) /\ (j <= m => Holds(m)))}
<1>3. ASSUME Bad # {} PROVE FALSE
  <2>1. PICK m \in Bad : \A k \in Bad : m <= k
    <3>1. Bad \in SUBSET Nat BY <1>0
    <3> HIDE DEF Bad
    <3> QED BY <3>1, <1>3, Least
  <2>2. m \in 0 .. n
    BY <2>1
  <2>3. CASE m = 0
    <3>1. p[m] = <<>>
      BY <1>p, <1>0, <2>2, <2>3
    <3>2. p[m] \in Seq(S)
      BY <3>1, EmptySeq
    <3> QED BY <3>2, <2>1, <2>3, <1>0
  <2>4. CASE m # 0
    <3>1. m - 1 \in 0 .. n /\ m - 1 \notin Bad
      <4> HIDE DEF Bad
      <4>1. m - 1 \in 0 .. n /\ ~ (m <= m - 1)
        BY <2>2, <2>4, <1>0
      <4> QED BY <2>1, <4>1
    <3>2. p[m - 1] \in Seq(S) /\ (j <= m - 1 => Holds(m - 1))
      BY <3>1
    <3>3. p[m] = IF s[m] \in S THEN Append(p[m - 1], s[m]) ELSE p[m - 1]
      BY <1>p, <2>2, <2>4, <1>0
    <3>4. p[m] \in Seq(S)
      BY <3>2, <3>3
    <3>5. ASSUME j <= m PROVE Holds(m)
      <4>1. CASE s[m] \in S
        <5>1. /\ Len(p[m - 1]) \in Nat /\ Len(p[m]) = Len(p[m - 1]) + 1
              /\ \A i \in 1 .. Len(p[m - 1]) : p[m][i] = p[m - 1][i]
              /\ p[m][Len(p[m - 1]) + 1] = s[m]
          BY <3>2, <3>3, <4>1, LenProperties, AppendProperties
        <5>2. CASE j = m
          <6>1. Len(p[m]) \in 1 .. Len(p[m]) /\ p[m][Len(p[m])] = s[j]
            BY <5>1, <5>2
          <6> QED BY <6>1
        <5>3. CASE j # m
          <6>1. PICK i \in 1 .. Len(p[m - 1]) : p[m - 1][i] = s[j]
            BY <3>2, <3>5, <5>3, <2>2, <1>0
          <6>2. i \in 1 .. Len(p[m]) /\ p[m][i] = s[j]
            BY <5>1, <6>1
          <6> QED BY <6>2
        <5> QED BY <5>2, <5>3
      <4>2. CASE s[m] \notin S
        <5>1. j <= m - 1
          BY <3>5, <4>2, <2>2, <1>0
        <5> QED BY <5>1, <3>2, <3>3, <4>2
      <4> QED BY <4>1, <4>2
    <3> QED BY <3>4, <3>5, <2>1
  <2> QED BY <2>3, <2>4
<1>4. n \in 0 .. n /\ n \notin Bad
  BY <1>3, <1>0
<1> QED BY <1>0, <1>1, <1>4

\* Everything behind block n has arrived or is asked for.
QueuedBelow(x, n) == \A b \in 1 .. n - 1 : Queued(x, b)

\* y asks for whatever x asks for, or has it.
KeepsQueued(x, y) == \A b \in 1 .. BLOCK_COUNT : Queued(x, b) => Queued(y, b)

\* The record asks for blocks of the file only.
LEMMA QueuedIsBlock ==
  ASSUME NEW x, XferOK(x), NEW b, Queued(x, b)
  PROVE  b \in 0 .. BLOCK_COUNT
<1>1. x.table \in Seq(0 .. BLOCK_COUNT) /\ x.received \subseteq FileBlock
  BY DEF XferOK, XferRecord
<1>2. QED
  BY <1>1, LenProperties, ElementOfSeq, TransferAssumption DEF Queued, FileBlock, TransferAssumption

\* Requests that fit in the table are all in it, behind those it had.
LEMMA RangeQueues ==
  ASSUME NEW x, XferOK(x), NEW from \in 0 .. U32 - 1, NEW to \in FileBlock
  PROVE  LET y == RequestRange(x, from, to)
         IN  /\ KeepsQueued(x, y)
             /\ y.next_block = x.next_block
             /\ Len(x.table) + (to - from) <= TABLE_LIMIT
                  => \A b \in from .. to - 1 : b >= 1 => Queued(y, b)
<1> DEFINE n     == IF from < to THEN to - from ELSE 0
           range == [i \in 1 .. n |-> from + i - 1]
           more  == Pick(range, Missing(x))
           grown == x.table \o more
           most  == min(Len(grown), TABLE_LIMIT)
           y     == RequestRange(x, from, to)
<1>0. BLOCK_COUNT \in Nat /\ TABLE_LIMIT \in Nat /\ U32 \in Nat
  BY TransferAssumption DEF TransferAssumption
<1>1. n \in Nat
  BY <1>0 DEF FileBlock
<1>2. range \in Seq(Nat) /\ Len(range) = n
  BY <1>0, <1>1
<1>3. Missing(x) \in SUBSET Nat
  BY <1>0, MissingBlocks
<1>m. ASSUME NEW j \in 1 .. n, range[j] \in Missing(x)
      PROVE  \E i \in 1 .. Len(more) : more[i] = range[j]
  <2> HIDE DEF range
  <2>1. j \in 1 .. Len(range)
    BY <1>2
  <2> QED BY <1>2, <1>3, <1>m, <2>1, PickKeeps
<1>4. more \in Seq(0 .. BLOCK_COUNT) /\ Len(more) \in Nat /\ Len(more) <= n
  <2> HIDE DEF range
  <2>1. more \in Seq(Missing(x)) /\ Len(more) <= Len(range)
    BY <1>2, <1>3, PickFacts
  <2> HIDE DEF more
  <2>2. QED
    BY <1>2, <2>1, MissingBlocks, SeqMonotonic, LenProperties
<1>r. \A b \in from .. to - 1 : b - from + 1 \in 1 .. n /\ range[b - from + 1] = b
  BY <1>0, <1>1 DEF FileBlock
<1> HIDE DEF more, range
<1>5. x.table \in Seq(0 .. BLOCK_COUNT) /\ Len(x.table) \in Nat /\ Len(x.table) <= TABLE_LIMIT
      /\ DOMAIN x.table = 1 .. Len(x.table)
  BY LenProperties DEF XferOK, XferRecord
<1>6. /\ grown \in Seq(0 .. BLOCK_COUNT) /\ Len(grown) = Len(x.table) + Len(more)
      /\ \A i \in 1 .. Len(x.table) : grown[i] = x.table[i]
      /\ \A i \in 1 .. Len(more) : grown[Len(x.table) + i] = more[i]
  <2>1. grown \in Seq(0 .. BLOCK_COUNT) /\ Len(grown) = Len(x.table) + Len(more)
        /\ \A i \in 1 .. Len(x.table) + Len(more) :
             grown[i] = IF i <= Len(x.table) THEN x.table[i] ELSE more[i - Len(x.table)]
    BY <1>4, <1>5, ConcatProperties
  <2> HIDE DEF grown
  <2>2. \A i \in 1 .. Len(more) :
           /\ Len(x.table) + i \in 1 .. Len(x.table) + Len(more)
           /\ ~ (Len(x.table) + i <= Len(x.table))
           /\ Len(x.table) + i - Len(x.table) = i
    BY <1>4, <1>5
  <2>3. \A i \in 1 .. Len(x.table) : i \in 1 .. Len(x.table) + Len(more) /\ i <= Len(x.table)
    BY <1>4, <1>5
  <2>4. \A i \in 1 .. Len(x.table) : grown[i] = x.table[i]
    BY <2>1, <2>3
  <2>5. ASSUME NEW i \in 1 .. Len(more) PROVE grown[Len(x.table) + i] = more[i]
    <3>1. Len(x.table) + i \in 1 .. Len(x.table) + Len(more)
          /\ ~ (Len(x.table) + i <= Len(x.table)) /\ Len(x.table) + i - Len(x.table) = i
      BY <2>2
    <3> DEFINE k == Len(x.table) + i
    <3>2. k \in 1 .. Len(x.table) + Len(more) /\ ~ (k <= Len(x.table)) /\ k - Len(x.table) = i
      BY <3>1
    <3> HIDE DEF k
    <3>3. grown[k] = IF k <= Len(x.table) THEN x.table[k] ELSE more[k - Len(x.table)]
      BY <2>1, <3>2
    <3>4. grown[k] = more[i]
      BY <3>2, <3>3
    <3> QED BY <3>4 DEF k
  <2>6. QED
    BY <2>1, <2>4, <2>5
<1>l. Len(grown) = Len(x.table) + Len(more)
  BY <1>6
<1> HIDE DEF grown
<1>7. /\ most \in Nat /\ most <= Len(grown) /\ Len(x.table) <= most
      /\ Len(x.table) + Len(more) <= TABLE_LIMIT => most = Len(grown)
  <2>1. Len(x.table) \in Nat /\ Len(more) \in Nat /\ Len(x.table) <= TABLE_LIMIT
    BY <1>4, <1>5
  <2> QED BY <1>0, <1>l, <2>1 DEF min
<1> HIDE DEF most
<1>8. y = [x EXCEPT !.table = SubSeq(grown, 1, most)]
  BY DEF RequestRange, grown, most, more, range
<1>9. y.table = SubSeq(grown, 1, most) /\ y.next_block = x.next_block /\ y.received = x.received
  BY <1>8 DEF XferOK, XferRecord
<1>10. DOMAIN y.table = 1 .. most /\ \A i \in 1 .. most : y.table[i] = grown[i]
  <2>1. ASSUME NEW i \in 1 .. most PROVE grown[i] \in 0 .. BLOCK_COUNT
    <3>1. i \in 1 .. Len(grown)
      BY <1>6, <1>7, <1>4, <1>5
    <3>2. QED
      BY <1>6, <3>1, ElementOfSeq
  <2>2. SubSeq(grown, 1, most) = [i \in 1 .. most |-> grown[i]]
    BY <1>7, <2>1
  <2>3. QED
    BY <1>9, <2>2
<1> HIDE DEF y
<1>11. KeepsQueued(x, y)
  <2>1. ASSUME NEW b \in 1 .. BLOCK_COUNT, NEW i \in 1 .. Len(x.table), x.table[i] = b
        PROVE  \E k \in DOMAIN y.table : y.table[k] = b
    <3>1. i \in 1 .. most /\ grown[i] = b
      BY <1>5, <1>6, <1>7, <2>1
    <3>2. QED
      BY <1>10, <3>1
  <2>2. QED
    BY <1>5, <1>9, <2>1 DEF KeepsQueued, Queued
<1>12. ASSUME Len(x.table) + (to - from) <= TABLE_LIMIT, NEW b \in from .. to - 1, b >= 1
       PROVE  Queued(y, b)
  <2>1. CASE b \in x.received
    BY <1>9, <2>1 DEF Queued
  <2>2. CASE b \notin x.received
    <3>1. b \in Missing(x)
      BY <1>0, <1>12, <2>2 DEF Missing, got_block, FileBlock
    <3>2. b - from + 1 \in 1 .. n /\ range[b - from + 1] = b
      BY <1>r
    <3>3. PICK i \in 1 .. Len(more) : more[i] = b
      BY <1>m, <3>1, <3>2
    <3>n. n = to - from
      BY <1>0, <1>12 DEF FileBlock
    <3> HIDE DEF n
    <3>4. most = Len(grown)
      <4>1. Len(more) <= to - from
        BY <1>4, <3>n
      <4>2. to - from \in Int /\ Len(x.table) + (to - from) <= TABLE_LIMIT
        BY <1>0, <1>12 DEF FileBlock
      <4>3. Len(x.table) + Len(more) <= TABLE_LIMIT
        <5>1. Len(more) \in Nat /\ Len(x.table) \in Nat
          BY <1>4, <1>5
        <5> QED BY <1>0, <4>1, <4>2, <5>1
      <4> QED BY <1>7, <4>3
    <3>5. Len(x.table) + i \in 1 .. most /\ grown[Len(x.table) + i] = b
      BY <1>4, <1>5, <1>6, <3>3, <3>4
    <3>6. QED
      BY <1>10, <3>5 DEF Queued
  <2>3. QED
    BY <2>1, <2>2
<1>13. QED
  BY <1>9, <1>11, <1>12 DEF y

\* The block that came is stored; nothing that was asked for is forgotten.
LEMMA StoreQueues ==
  ASSUME NEW x, XferOK(x), NEW b \in FileBlock
  PROVE  /\ KeepsQueued(x, Store(x, b)) /\ Queued(Store(x, b), b)
         /\ Store(x, b).next_block = x.next_block /\ Store(x, b).table = x.table
<1>1. CASE got_block(x, b)
  <2>1. b \in x.received
    BY <1>1, TransferAssumption DEF got_block, FileBlock, TransferAssumption
  <2>2. QED
    BY <1>1, <2>1 DEF Store, KeepsQueued, Queued
<1>2. CASE ~ got_block(x, b)
  <2> DEFINE y == Store(x, b)
  <2>1. y.received = x.received \cup {b} /\ y.next_block = x.next_block /\ y.table = x.table
    BY <1>2 DEF Store, XferOK, XferRecord
  <2> HIDE DEF y
  <2>2. QED
    BY <2>1 DEF KeepsQueued, Queued, y
<1>3. QED
  BY <1>1, <1>2

\* The table has room for every block before d, or asks for them already.
HasRoom(x, d) ==
  \/ Len(x.table) + (d.block - x.next_block) <= TABLE_LIMIT
  \/ \A b \in x.next_block .. d.block - 1 : Queued(x, b)

\* A pass in lossless mode moves the head over blocks that are asked for.
LEMMA TrackQueues ==
  ASSUME parameter.lossless, NEW x, XferOK(x), Solid(x), QueuedBelow(x, x.next_block),
         NEW d \in Datagram, HasRoom(x, d), Queued(x, d.block), NEW e \in 0 .. U32 - 1
  PROVE  QueuedBelow(Track(x, d, e), Track(x, d, e).next_block)
<1>0. d.block \in FileBlock /\ x.next_block \in 0 .. U32 - 1 /\ BLOCK_COUNT \in Nat /\ U32 \in Nat
  BY TransferAssumption DEF Datagram, XferOK, XferRecord, TransferAssumption
<1>1. CASE OnTheWire(x, d)
  BY <1>1 DEF Track
<1>2. CASE ~ OnTheWire(x, d)
  <2> DEFINE q == QueueGap(x, d, e)
             a == AdvanceGapless(q)
             h == AdvanceHead(a, d)
             y == EndRestart(h)
  <2>1. Track(x, d, e) = y
    BY <1>2 DEF Track
  <2>2. /\ XferOK(q) /\ Solid(q)
        /\ KeepsQueued(x, q) /\ q.next_block = x.next_block
        /\ \A b \in 1 .. d.block : Queued(q, b)
    <3>1. XferOK(q) /\ Solid(q)
      BY QueueGapOK
    <3>2. CASE d.block <= x.next_block
      <4>1. q = x
        BY <3>2 DEF QueueGap
      <4>2. ASSUME NEW b \in 1 .. d.block PROVE Queued(q, b)
        <5>1. b = d.block \/ b \in 1 .. x.next_block - 1
          BY <1>0, <3>2 DEF FileBlock
        <5> HIDE DEF q
        <5>2. QED
          BY <4>1, <5>1 DEF QueuedBelow
      <4> QED BY <3>1, <4>1, <4>2 DEF KeepsQueued
    <3>3. CASE ~ (d.block <= x.next_block)
      <4>1. q = RequestRange(x, x.next_block, d.block)
        BY <3>3 DEF QueueGap
      <4> HIDE DEF q
      <4>2. /\ KeepsQueued(x, q) /\ q.next_block = x.next_block
            /\ Len(x.table) + (d.block - x.next_block) <= TABLE_LIMIT
                 => \A b \in x.next_block .. d.block - 1 : b >= 1 => Queued(q, b)
        BY <1>0, <4>1, RangeQueues
      <4>3. ASSUME NEW b \in 1 .. d.block PROVE Queued(q, b)
        <5>1. b \in 1 .. BLOCK_COUNT
              /\ (b = d.block \/ b \in 1 .. x.next_block - 1
                   \/ (b \in x.next_block .. d.block - 1 /\ b >= 1))
          BY <1>0 DEF FileBlock
        <5>2. CASE b = d.block \/ b \in 1 .. x.next_block - 1
          BY <4>2, <5>1, <5>2 DEF QueuedBelow, KeepsQueued
        <5>3. CASE b \in x.next_block .. d.block - 1 /\ b >= 1
          <6>1. CASE Len(x.table) + (d.block - x.next_block) <= TABLE_LIMIT
            BY <4>2, <5>3, <6>1
          <6>2. CASE \A c \in x.next_block .. d.block - 1 : Queued(x, c)
            BY <4>2, <5>1, <5>3, <6>2 DEF KeepsQueued
          <6> QED BY <6>1, <6>2 DEF HasRoom
        <5> QED BY <5>1, <5>2, <5>3
      <4> QED BY <3>1, <4>2, <4>3
    <3> QED BY <3>2, <3>3
  <2> HIDE DEF q
  <2>3. a.table = q.table /\ a.received = q.received /\ a.next_block = q.next_block /\ a \in XferRecord
    <3>1. a.table = q.table /\ a.received = q.received /\ a.next_block = q.next_block
      BY <2>2 DEF AdvanceGapless, XferOK, XferRecord
    <3>2. a \in XferRecord
      BY <2>2, AdvanceGaplessOK DEF XferOK
    <3> QED BY <3>1, <3>2
  <2> HIDE DEF a
  <2>4. /\ h.table = a.table /\ h.received = a.received
        /\ h.next_block = d.block + 1 \/ h.next_block = a.next_block
    BY <2>3 DEF AdvanceHead, XferRecord
  <2>5. y.table = h.table /\ y.received = h.received /\ y.next_block = h.next_block
    <3>1. h \in XferRecord \/ h = [a EXCEPT !.next_block = d.block + 1]
      BY <2>3 DEF AdvanceHead
    <3> HIDE DEF h
    <3>2. CASE h.next_block >= h.restart_lastidx
      BY <2>3, <3>1, <3>2 DEF EndRestart, XferRecord
    <3>3. CASE ~ (h.next_block >= h.restart_lastidx)
      BY <3>3 DEF EndRestart
    <3> QED BY <3>2, <3>3
  <2> HIDE DEF h, y
  <2>6. \A b : Queued(q, b) => Queued(y, b)
    BY <2>3, <2>4, <2>5 DEF Queued
  <2>7. CASE y.next_block = d.block + 1
    <3>1. \A b \in 1 .. y.next_block - 1 : b \in 1 .. d.block
      BY <1>0, <2>7 DEF FileBlock
    <3> QED BY <2>1, <2>2, <2>6, <3>1 DEF QueuedBelow
  <2>8. CASE y.next_block = x.next_block
    <3>1. \A b \in 1 .. x.next_block - 1 : Queued(y, b)
      <4> TAKE b \in 1 .. x.next_block - 1
      <4>1. Queued(x, b)
        BY DEF QueuedBelow
      <4>2. b \in 1 .. BLOCK_COUNT
        BY <1>0, <4>1, QueuedIsBlock
      <4> QED BY <2>2, <2>6, <4>1, <4>2 DEF KeepsQueued
    <3> QED BY <2>1, <2>8, <3>1 DEF QueuedBelow
  <2>9. QED
    BY <2>2, <2>3, <2>4, <2>5, <2>7, <2>8
<1>3. QED
  BY <1>1, <1>2

\* A restart moves the head behind the first gap; a repeat keeps what is missing.
LEMMA RepeatQueues ==
  ASSUME parameter.lossless, NEW x, XferOK(x), Solid(x), QueuedBelow(x, x.next_block)
  PROVE  QueuedBelow(AfterRepeat(x), AfterRepeat(x).next_block)
<1> DEFINE y == AfterRepeat(x)
<1>1. SameBitmap(x, y) /\ y.next_block = IF TooMany(x) THEN RestartBlock(x) ELSE x.next_block
  BY RepeatOK
<1>2. CASE TooMany(x)
  <2> HIDE DEF y
  <2>1. \A b \in 1 .. RestartBlock(x) - 1 : b \in x.received
    BY RestartBlockOK
  <2> QED BY <1>1, <1>2, <2>1 DEF QueuedBelow, Queued, SameBitmap, y
<1>3. CASE ~ TooMany(x)
  <2> DEFINE o == Outstanding(x)
  <2>1. y.table = o
    BY <1>3 DEF AfterRepeat, XferOK, XferRecord
  <2>2. ASSUME NEW b \in 1 .. x.next_block - 1 PROVE Queued(y, b)
    <3>1. Queued(x, b) /\ b \in 1 .. BLOCK_COUNT
      <4>1. Queued(x, b)
        BY <2>2 DEF QueuedBelow
      <4>2. b \in 0 .. BLOCK_COUNT
        BY <4>1, QueuedIsBlock
      <4>3. BLOCK_COUNT \in Nat /\ x.next_block \in Nat
        BY TransferAssumption DEF XferOK, XferRecord, TransferAssumption
      <4> QED BY <4>1, <4>2, <4>3
    <3> HIDE DEF y
    <3>2. CASE b \in x.received
      BY <1>1, <3>2 DEF Queued, SameBitmap
    <3>3. CASE b \notin x.received
      <4> DEFINE S == Missing(x) \ {0}
                 T == 0 .. BLOCK_COUNT
      <4>1. x.table \in Seq(T) /\ DOMAIN x.table = 1 .. Len(x.table) /\ S \in SUBSET T
        BY LenProperties, MissingBlocks DEF XferOK, XferRecord
      <4>2. b \in S
        BY <3>1, <3>3, TransferAssumption DEF Missing, got_block, TransferAssumption
      <4>3. PICK j \in 1 .. Len(x.table) : x.table[j] = b
        BY <3>1, <3>3, <4>1 DEF Queued
      <4> HIDE DEF S, T
      <4>4. x.table[j] \in S
        BY <4>2, <4>3
      <4>5. \E i \in 1 .. Len(Pick(x.table, S)) : Pick(x.table, S)[i] = x.table[j]
        BY <4>1, <4>3, <4>4, PickKeeps
      <4>6. \E i \in 1 .. Len(o) : o[i] = b
        BY <4>3, <4>5 DEF Outstanding, S
      <4> HIDE DEF o
      <4>7. DOMAIN o = 1 .. Len(o)
        BY OutstandingOK, LenProperties DEF o
      <4> QED BY <2>1, <4>6, <4>7 DEF Queued
    <3> QED BY <3>2, <3>3
  <2> HIDE DEF y
  <2> QED BY <1>1, <1>3, <2>2 DEF QueuedBelow, y
<1>4. QED
  BY <1>2, <1>3

\* The requests at the end of the file are added to those of the table.
LEMMA StillMissingQueues ==
  ASSUME NEW x, XferOK(x), Solid(x), QueuedBelow(x, x.next_block)
  PROVE  QueuedBelow(StillMissing(x), StillMissing(x).next_block)
<1> DEFINE y == StillMissing(x)
<1>0. BLOCK_COUNT \in FileBlock /\ AfterGapless(x) \in 0 .. U32 - 1
  BY RestartBlockOK, TransferAssumption DEF TransferAssumption, FileBlock
<1>1. KeepsQueued(x, y) /\ y.next_block = x.next_block
  BY <1>0, RangeQueues DEF StillMissing
<1> HIDE DEF y
<1>2. ASSUME NEW b \in 1 .. x.next_block - 1 PROVE Queued(y, b)
  <2>1. Queued(x, b)
    BY DEF QueuedBelow
  <2>2. b \in 0 .. BLOCK_COUNT
    BY <2>1, QueuedIsBlock
  <2>3. BLOCK_COUNT \in Nat /\ x.next_block \in Nat
    BY TransferAssumption DEF XferOK, XferRecord, TransferAssumption
  <2>4. b \in 1 .. BLOCK_COUNT
    BY <2>2, <2>3
  <2> QED BY <1>1, <2>1, <2>4 DEF KeepsQueued
<1>3. QED
  BY <1>1, <1>2 DEF QueuedBelow, y

\* The statistics keep every gap queued.
LEMMA StatsQueue ==
  ASSUME parameter.lossless, NEW x, XferOK(x), Solid(x), QueuedBelow(x, x.next_block),
         NEW s, UpdateStats(x, s)
  PROVE  QueuedBelow(xfer', xfer'.next_block)
BY RepeatQueues DEF UpdateStats

\* A datagram keeps every gap queued if the table has room for what it shows missing.
LEMMA AcceptQueues ==
  ASSUME parameter.lossless, TypeOK, Counted(xfer), Solid(xfer),
         QueuedBelow(xfer, xfer.next_block),
         NEW d \in Datagram, HasRoom(xfer, d), Accept(d)
  PROVE  QueuedBelow(xfer', xfer'.next_block)
<1>1. XferOK(xfer) /\ d.block \in FileBlock
  BY DEF TypeOK, XferOK, Datagram
<1>2. PICK x \in Tracked(d) :
        \/ UpdateStats(xfer, <<>>)
        \/ UpdateStats(x, <<>>)
        \/ UpdateStats(AfterRepeat(StillMissing(x)), Requests(StillMissing(x)))
        \/ xfer' = x
  BY Zenon DEF Accept
<1>3. XferOK(x) /\ Solid(x) /\ QueuedBelow(x, x.next_block)
  <2>1. PICK e \in EarliestBlocks(xfer, d) : x = Track(Store(xfer, d.block), d, e)
    BY DEF Tracked
  <2>2. e \in 0 .. U32 - 1
    BY EarliestOK
  <2> DEFINE y == Store(xfer, d.block)
  <2>3. XferOK(y) /\ Counted(y) /\ Solid(y)
    BY <1>1, StoreOK
  <2>4. KeepsQueued(xfer, y) /\ Queued(y, d.block) /\ y.next_block = xfer.next_block
        /\ y.table = xfer.table
    BY <1>1, StoreQueues
  <2> HIDE DEF y
  <2>5. \A b : Queued(xfer, b) => Queued(y, b)
    <3> TAKE b
    <3> HAVE Queued(xfer, b)
    <3>1. b \in 0 .. BLOCK_COUNT
      BY <1>1, QueuedIsBlock
    <3>2. CASE b \in xfer.received \/ b # 0
      <4>1. b \in 1 .. BLOCK_COUNT
        BY <1>1, <3>1, <3>2 DEF XferOK, XferRecord, FileBlock
      <4> QED BY <2>4, <4>1 DEF KeepsQueued
    <3>3. CASE b \notin xfer.received
      BY <2>4, <3>3 DEF Queued
    <3> QED BY <3>2, <3>3
  <2>6. QueuedBelow(y, y.next_block) /\ HasRoom(y, d)
    BY <2>4, <2>5 DEF QueuedBelow, HasRoom
  <2>7. QED
    BY <2>1, <2>2, <2>3, <2>4, <2>6, TrackOK, TrackQueues DEF y
<1>4. CASE UpdateStats(AfterRepeat(StillMissing(x)), Requests(StillMissing(x)))
  <2> DEFINE m == StillMissing(x)
             y == AfterRepeat(m)
  <2>1. XferOK(m) /\ Solid(m) /\ QueuedBelow(m, m.next_block)
    BY <1>3, StillMissingOK, StillMissingQueues
  <2> HIDE DEF m
  <2>2. XferOK(y) /\ Solid(y) /\ QueuedBelow(y, y.next_block)
    BY <2>1, RepeatOK, RepeatQueues
  <2> HIDE DEF y
  <2>3. UpdateStats(y, Requests(m))
    BY <1>4 DEF y, m
  <2> QED BY <2>2, <2>3, StatsQueue
<1>5. QED
  BY <1>1, <1>2, <1>3, <1>4, StatsQueue

\* While the table has room for the requests of every block that arrives, every
\* gap behind the head is asked for: a full table is the only way to lose one.
THEOREM GapsStayQueued == Spec /\ []TableHasRoom => []GapsAreQueued
<1>1. Init => GapsAreQueued
  BY DEF Init, GapsAreQueued
<1>2. TransferInv /\ TableHasRoom /\ GapsAreQueued /\ [Next]_vars => GapsAreQueued'
  <2> SUFFICES ASSUME TransferInv, TableHasRoom, GapsAreQueued, [Next]_vars, parameter.lossless'
               PROVE  QueuedBelow(xfer', xfer'.next_block)
    BY DEF GapsAreQueued, QueuedBelow
  <2>1. /\ TypeOK /\ XferOK(xfer) /\ Counted(xfer) /\ Solid(xfer)
    BY PropertiesOfParts DEF TransferInv, TypeOK, XferOK
  <2>2. UNCHANGED parameter
    BY DEF Next, HandleRequest, SendNextBlock, HeartbeatTimeout, ReadAsFileName, Abort,
           Receive, ReceiveWhenFull, Lose, Finished, vars
  <2>3. parameter.lossless /\ QueuedBelow(xfer, xfer.next_block)
    BY <2>2 DEF GapsAreQueued, QueuedBelow
  <2>4. ASSUME NEW d \in udp, Receive(d) PROVE QueuedBelow(xfer', xfer'.next_block)
    <3>1. d \in Datagram /\ Accept(d)
      BY <2>1, <2>4 DEF TypeOK, Receive
    <3>2. HasRoom(xfer, d)
      BY <2>3 DEF TableHasRoom, HasRoom
    <3> QED BY <2>1, <2>3, <3>1, <3>2, AcceptQueues
  <2>5. ASSUME NEW d \in udp, ReceiveWhenFull(d) PROVE QueuedBelow(xfer', xfer'.next_block)
    BY <2>1, <2>3, <2>5, StatsQueue DEF ReceiveWhenFull
  <2>6. CASE UNCHANGED xfer
    BY <2>3, <2>6
  <2>7. QED
    BY <2>4, <2>5, <2>6 DEF Next, HandleRequest, SendNextBlock, HeartbeatTimeout,
                            ReadAsFileName, Abort, Lose, Finished, vars
<1>3. QED
  BY <1>1, <1>2, TransferInvariant, PTL DEF Spec
=============================================================================
