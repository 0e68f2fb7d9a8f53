-------------------------- MODULE ChunkedMacProofs --------------------------
(***************************************************************************)
(* Proofs about ChunkedMac, for every block size, chunk size, growth and   *)
(* length of file: no branch of update runs past a boundary, and finish    *)
(* returns the reference MAC however the bytes came.                       *)
(***************************************************************************)
EXTENDS ChunkedMac, SequenceTheorems, TLAPS

USE MacAssumption DEF MacAssumption

Index  == 0..Block - 1
Bits   == [Index -> SUBSET Nat]

-----------------------------------------------------------------------------
(* The operators of the module keep the MAC well formed.                   *)

\* A chunk is never empty.
LEMMA ChunkSizePositive ==
  ASSUME NEW i \in Nat
  PROVE  MacChunkSize(i) \in Nat \ {0}
  <1>1. \A a, b \in Nat \ {0} : a * b \in Nat \ {0}
    OBVIOUS
  <1>2. i + 1 \in Nat \ {0}
    OBVIOUS
  <1>3. QED
    BY <1>1, <1>2 DEF MacChunkSize

\* A position within a block.
LEMMA OffsetInBlock == ASSUME NEW p \in Nat PROVE p % Block \in Index
  BY DEF Index

LEMMA EncryptType == ASSUME NEW v \in Value PROVE Encrypt(v) \in Value
  BY DEF Encrypt, Value, Zero

LEMMA IvType == Iv \in Value
  <1>1. Zero \in Bits
    BY DEF Zero, Bits, Index
  <1>2. <<>> \in Seq(Bits)
    OBVIOUS
  <1>3. QED
    BY <1>1, <1>2 DEF Iv, Value, Bits, Index

\* Closing a chunk moves the boundary ahead by the size of the next one.
LEMMA CloseChunkFacts ==
  ASSUME NEW s \in Mac
  PROVE  /\ CloseChunk(s) \in Mac
         /\ CloseChunk(s).chunk_idx = s.chunk_idx + 1
         /\ CloseChunk(s).next_boundary = s.next_boundary + MacChunkSize(s.chunk_idx + 1)
         /\ CloseChunk(s).pos = s.pos
  <1>1. s.chunk_idx + 1 \in Nat
    BY DEF Mac
  <1>2. MacChunkSize(s.chunk_idx + 1) \in Nat
    BY <1>1, ChunkSizePositive
  <1>3. Append(s.meta, s.chunk) \in Seq(Value)
    BY DEF Mac
  <1> DEFINE z == MacChunkSize(s.chunk_idx + 1)
             a == Append(s.meta, s.chunk)
  <1>4. CloseChunk(s) = [s EXCEPT !.meta = a, !.chunk = Iv, !.chunk_idx = s.chunk_idx + 1,
                                  !.next_boundary = s.next_boundary + z]
    BY DEF CloseChunk
  <1>5. z \in Nat /\ a \in Seq(Value) /\ s.next_boundary + z \in Nat
    BY <1>2, <1>3 DEF Mac
  <1> HIDE DEF z, a
  <1>6. CloseChunk(s) \in Mac
    BY <1>1, <1>4, <1>5, IvType DEF Mac
  <1>7. /\ CloseChunk(s).chunk_idx = s.chunk_idx + 1
        /\ CloseChunk(s).next_boundary = s.next_boundary + z
        /\ CloseChunk(s).pos = s.pos
    BY <1>4 DEF Mac
  <1>8. QED
    BY <1>6, <1>7 DEF z

\* A whole block advances pos by its length and nothing else of the counters.
LEMMA TakeBlockFacts ==
  ASSUME NEW s \in Mac, NEW d \in Nat
  PROVE  /\ TakeBlock(s, d) \in Mac /\ TakeBlock(s, d).pos = s.pos + Block
         /\ TakeBlock(s, d).chunk_idx = s.chunk_idx
         /\ TakeBlock(s, d).next_boundary = s.next_boundary
  <1> DEFINE mixed == [i \in 0..Block - 1 |-> Xor(s.chunk.cur[i], {d + i})]
             v     == [done |-> s.chunk.done, cur |-> mixed]
  <1>1. s.chunk \in Value
    BY DEF Mac
  <1>2. mixed \in Bits
    BY <1>1 DEF Value, Bits, Index, Xor
  <1>3. v \in Value
    BY <1>1, <1>2 DEF Value, Bits, Index
  <1>4. Encrypt(v) \in Value
    BY <1>3, EncryptType
  <1>5. TakeBlock(s, d) = [s EXCEPT !.chunk = Encrypt(v), !.pos = s.pos + Block]
    BY DEF TakeBlock
  <1>6. s.pos + Block \in Nat
    BY DEF Mac
  <1> HIDE DEF v
  <1>7. QED
    BY <1>4, <1>5, <1>6 DEF Mac

\* One byte advances pos by one and nothing else of the counters.
LEMMA TakeByteFacts ==
  ASSUME NEW s \in Mac, NEW d \in Nat
  PROVE  /\ TakeByte(s, d) \in Mac /\ TakeByte(s, d).pos = s.pos + 1
         /\ TakeByte(s, d).chunk_idx = s.chunk_idx
         /\ TakeByte(s, d).next_boundary = s.next_boundary
  <1> DEFINE k == s.pos % Block
             v == [s.chunk EXCEPT !.cur = [s.chunk.cur EXCEPT ![k] = Xor(s.chunk.cur[k], {d})]]
             t == [s EXCEPT !.chunk = v, !.pos = s.pos + 1]
  <1>1. s.chunk \in Value /\ s.pos \in Nat /\ s.pos + 1 \in Nat
    BY DEF Mac
  <1>2. k \in Index
    BY <1>1, OffsetInBlock
  <1>3. [s.chunk.cur EXCEPT ![k] = Xor(s.chunk.cur[k], {d})] \in Bits
    BY <1>1, <1>2 DEF Value, Bits, Index, Xor
  <1>4. v \in Value
    BY <1>1, <1>3 DEF Value, Bits, Index
  <1>5. TakeByte(s, d) = IF t.pos % Block = 0 THEN [t EXCEPT !.chunk = Encrypt(t.chunk)] ELSE t
    BY DEF TakeByte
  <1> HIDE DEF v
  <1>6. /\ t \in Mac /\ t.pos = s.pos + 1 /\ t.chunk_idx = s.chunk_idx
        /\ t.next_boundary = s.next_boundary /\ t.chunk \in Value
    BY <1>1, <1>4 DEF Mac
  <1> HIDE DEF t
  <1>7. Encrypt(t.chunk) \in Value
    BY <1>6, EncryptType
  <1>8. QED
    BY <1>5, <1>6, <1>7 DEF Mac

\* The end of the loop's body restores the bounds, when the step did not run
\* past the boundary.
LEMMA BoundaryRestored ==
  ASSUME NEW s \in Mac, s.pos <= s.next_boundary,
         s.next_boundary <= s.pos + MacChunkSize(s.chunk_idx)
  PROVE  LET t == AtBoundary(s) IN
         /\ t \in Mac /\ t.pos = s.pos
         /\ t.pos < t.next_boundary /\ t.next_boundary <= t.pos + MacChunkSize(t.chunk_idx)
  <1>1. CASE s.pos = s.next_boundary
    <2>0. s.chunk_idx + 1 \in Nat
      BY DEF Mac
    <2>1. MacChunkSize(s.chunk_idx + 1) \in Nat \ {0}
      BY <2>0, ChunkSizePositive
    <2>2. s.pos \in Nat /\ s.next_boundary \in Nat
      BY DEF Mac
    <2>3. QED
      BY <1>1, <2>1, <2>2, CloseChunkFacts DEF AtBoundary
  <1>2. CASE s.pos # s.next_boundary
    <2>1. s.pos \in Nat /\ s.next_boundary \in Nat
      BY DEF Mac
    <2>2. QED
      BY <1>2, <2>1 DEF AtBoundary
  <1>3. QED
    BY <1>1, <1>2

\* finish returns a sequence of chunk MACs.
LEMMA PadType == ASSUME NEW s \in Mac PROVE Pad(s) \in Mac
  <1> DEFINE e == Encrypt(s.chunk)
             p == s.pos + (Block - (s.pos % Block))
  <1>1. Pad(s) = s \/ Pad(s) = [s EXCEPT !.pos = p, !.chunk = e]
    BY DEF Pad
  <1>2. e \in Value /\ p \in Nat
    <2>1. s.pos \in Nat /\ s.chunk \in Value
      BY DEF Mac
    <2>2. s.pos % Block \in Index
      BY <2>1, OffsetInBlock
    <2>3. QED
      BY <2>1, <2>2, EncryptType DEF Index
  <1> HIDE DEF e, p
  <1>3. QED
    BY <1>1, <1>2 DEF Mac

LEMMA FinishType == ASSUME NEW s \in Mac PROVE FoldLast(Pad(s)) \in Seq(Value)
  <1>1. Pad(s) \in Mac
    BY PadType
  <1>2. Pad(s).meta \in Seq(Value) /\ CloseChunk(Pad(s)).meta \in Seq(Value)
    BY <1>1, CloseChunkFacts DEF Mac
  <1>3. QED
    BY <1>2 DEF FoldLast

-----------------------------------------------------------------------------
\* However the file is cut into calls of update, neither branch of its loop
\* runs past a chunk's boundary without closing the chunk, and pos counts
\* the bytes fed.
THEOREM BoundaryAlwaysAhead == Spec => [](TypeOK /\ BoundaryAhead)
  <1> DEFINE Inv == TypeOK /\ BoundaryAhead
  <1>1. Init => Inv
    <2> SUFFICES ASSUME Init PROVE Inv
      OBVIOUS
    <2>1. MacChunkSize(0) \in Nat \ {0}
      BY ChunkSizePositive
    <2>2. m \in Mac
      BY <2>1, IvType DEF Init, NewMac, Mac
    <2>3. m.pos = 0 /\ m.next_boundary = MacChunkSize(0) /\ m.chunk_idx = 0
      BY DEF Init, NewMac
    <2>4. BoundaryAhead
      BY <2>1, <2>3 DEF Init, BoundaryAhead
    <2>5. <<>> \in Seq(Value)
      OBVIOUS
    <2>6. QED
      BY <2>2, <2>4, <2>5 DEF Init, TypeOK
  <1>2. Inv /\ [Next]_vars => Inv'
    <2> SUFFICES ASSUME Inv, [Next]_vars PROVE Inv'
      OBVIOUS
    <2>t. /\ m.pos \in Nat /\ m.next_boundary \in Nat /\ MacChunkSize(m.chunk_idx) \in Nat
          /\ m \in Mac
      BY ChunkSizePositive DEF TypeOK, Mac
    <2>1. ASSUME NEW n \in 1..MaxLength, Update(n) PROVE Inv'
      BY <2>1 DEF Update, TypeOK, BoundaryAhead
    <2>2. CASE BlockStep
      <3>1. /\ m.pos + Block <= m.next_boundary /\ rest >= Block
            /\ m' = AtBoundary(TakeBlock(m, fed)) /\ fed' = fed + Block
            /\ rest' = rest - Block /\ UNCHANGED <<out, over>>
        BY <2>2 DEF BlockStep, FitsBlock
      <3>2. m' \in Mac /\ m'.pos = m.pos + Block /\ m'.pos < m'.next_boundary
            /\ m'.next_boundary <= m'.pos + MacChunkSize(m'.chunk_idx)
        <4> DEFINE s == TakeBlock(m, fed)
        <4>1. /\ s \in Mac /\ s.pos = m.pos + Block /\ s.chunk_idx = m.chunk_idx
              /\ s.next_boundary = m.next_boundary /\ m' = AtBoundary(s)
          BY <2>t, <3>1, TakeBlockFacts DEF TypeOK
        <4> HIDE DEF s
        <4>2. /\ s.pos <= s.next_boundary
              /\ s.next_boundary <= s.pos + MacChunkSize(s.chunk_idx)
          BY <2>t, <3>1, <4>1 DEF BoundaryAhead
        <4>3. QED
          BY <4>1, <4>2, BoundaryRestored
      <3>3. QED
        BY <2>t, <3>1, <3>2 DEF TypeOK, BoundaryAhead
    <2>3. CASE ByteStep
      <3>1. /\ rest > 0 /\ m' = AtBoundary(TakeByte(m, fed)) /\ fed' = fed + 1
            /\ rest' = rest - 1 /\ UNCHANGED <<out, over>>
        BY <2>3 DEF ByteStep
      <3>2. m' \in Mac /\ m'.pos = m.pos + 1 /\ m'.pos < m'.next_boundary
            /\ m'.next_boundary <= m'.pos + MacChunkSize(m'.chunk_idx)
        <4> DEFINE s == TakeByte(m, fed)
        <4>1. /\ s \in Mac /\ s.pos = m.pos + 1 /\ s.chunk_idx = m.chunk_idx
              /\ s.next_boundary = m.next_boundary /\ m' = AtBoundary(s)
          BY <2>t, <3>1, TakeByteFacts DEF TypeOK
        <4> HIDE DEF s
        <4>2. /\ s.pos <= s.next_boundary
              /\ s.next_boundary <= s.pos + MacChunkSize(s.chunk_idx)
          BY <2>t, <3>1, <4>1 DEF BoundaryAhead
        <4>3. QED
          BY <4>1, <4>2, BoundaryRestored
      <3>3. QED
        BY <2>t, <3>1, <3>2 DEF TypeOK, BoundaryAhead
    <2>4. CASE Finish
      BY <2>t, <2>4, FinishType DEF Finish, TypeOK, BoundaryAhead
    <2>5. CASE UNCHANGED vars
      BY <2>5 DEF vars, TypeOK, BoundaryAhead
    <2>6. QED
      BY <2>1, <2>2, <2>3, <2>4, <2>5 DEF Next
  <1>3. QED
    BY <1>1, <1>2, PTL DEF Spec

-----------------------------------------------------------------------------
(* Where the chunks lie.                                                   *)

\* A number is put together from a multiple of b and a rest in one way.
LEMMA OneRest ==
  ASSUME NEW b \in Nat \ {0}, NEW q \in Nat, NEW r \in 0..b - 1, NEW x, x = q * b + r
  PROVE  x % b = r /\ x \div b = q
<1> DEFINE d == x \div b
           e == x % b
<1>1. x \in Nat /\ q * b \in Nat
  OBVIOUS
<1>2. d \in Nat /\ e \in 0..b - 1 /\ x = b * d + e
  BY <1>1
<1>3. x = q * b + r
  OBVIOUS
<1> HIDE DEF d, e
<1>4. CASE d = q
  BY <1>2, <1>3, <1>4 DEF d, e
<1>5. CASE d < q
  <2>1. PICK z \in Nat : q = d + 1 + z
    <3>1. q - d - 1 \in Nat /\ q = d + 1 + (q - d - 1)
      BY <1>2, <1>5
    <3> QED
      BY <3>1
  <2>2. q * b = b * d + b + z * b /\ z * b \in Nat
    BY <2>1, <1>2
  <2> QED
    BY <2>2, <1>2, <1>3
<1>6. CASE q < d
  <2>1. PICK z \in Nat : d = q + 1 + z
    <3>1. d - q - 1 \in Nat /\ d = q + 1 + (d - q - 1)
      BY <1>2, <1>6
    <3> QED
      BY <3>1
  <2>2. b * d = q * b + b + z * b /\ z * b \in Nat
    BY <2>1, <1>2
  <2> QED
    BY <2>2, <1>2, <1>3
<1> QED
  BY <1>2, <1>4, <1>5, <1>6

LEMMA Triangle ==
  ASSUME NEW n \in Nat
  PROVE  /\ (n * (n + 1)) \div 2 \in Nat
         /\ ((n + 1) * ((n + 1) + 1)) \div 2 = (n * (n + 1)) \div 2 + (n + 1)
<1>1. n * (n + 1) \in Nat /\ (n + 1) * ((n + 1) + 1) = n * (n + 1) + 2 * (n + 1)
  OBVIOUS
<1> DEFINE x == n * (n + 1)
           y == (n + 1) * ((n + 1) + 1)
<1>2. x \in Nat /\ y = x + 2 * (n + 1)
  BY <1>1
<1> HIDE DEF x, y
<1>3. x \div 2 \in Nat /\ y \div 2 = x \div 2 + (n + 1)
  BY <1>2
<1> QED
  BY <1>3 DEF x, y

\* A chunk begins where the one before it ends.
LEMMA StartsFollow ==
  ASSUME NEW i \in Nat
  PROVE  /\ ChunkStart(0) = 0 /\ ChunkStart(i) \in Nat
         /\ ChunkStart(i + 1) = ChunkStart(i) + MacChunkSize(i)
<1> DEFINE T(n) == (n * (n + 1)) \div 2
<1>1. \A n \in Nat : T(n) \in Nat /\ T(n + 1) = T(n) + (n + 1)
  BY Triangle
<1>2. T(0) = 0
  OBVIOUS
<1>3. /\ ChunkStart(0) = ChunkUnit * (T(0) + (0 - 0) * Growth)
      /\ i < Growth => ChunkStart(i) = ChunkUnit * (T(i) + (i - i) * Growth)
      /\ i >= Growth => ChunkStart(i) = ChunkUnit * (T(Growth) + (i - Growth) * Growth)
      /\ i + 1 < Growth => ChunkStart(i + 1) = ChunkUnit * (T(i + 1) + ((i + 1) - (i + 1)) * Growth)
      /\ i + 1 >= Growth =>
           ChunkStart(i + 1) = ChunkUnit * (T(Growth) + ((i + 1) - Growth) * Growth)
  BY DEF ChunkStart
<1> HIDE DEF T
<1>4. ChunkStart(0) = 0
  BY <1>2, <1>3
<1>5. CASE i < Growth
  <2>1. T(i) \in Nat /\ T(i + 1) = T(i) + (i + 1)
    BY <1>1
  <2>2. ChunkStart(i) = ChunkUnit * T(i)
    BY <1>3, <1>5, <2>1
  <2>3. ChunkStart(i + 1) = ChunkUnit * T(i + 1)
    <3>1. CASE i + 1 < Growth
      BY <1>3, <2>1, <3>1
    <3>2. CASE i + 1 = Growth
      <4>1. /\ ChunkStart(i + 1) = ChunkUnit * (T(Growth) + ((i + 1) - Growth) * Growth)
            /\ T(i + 1) = T(Growth) /\ T(Growth) \in Nat
        BY <1>1, <1>3, <3>2
      <4>2. ((i + 1) - Growth) * Growth = 0
        BY <3>2
      <4> QED
        BY <4>1, <4>2
    <3> QED
      BY <1>5, <3>1, <3>2
  <2>4. ChunkUnit * (T(i) + (i + 1)) = ChunkUnit * T(i) + (i + 1) * ChunkUnit
    BY <2>1
  <2>5. MacChunkSize(i) = (i + 1) * ChunkUnit
    BY <1>5 DEF MacChunkSize
  <2> QED
    BY <1>4, <2>1, <2>2, <2>3, <2>4, <2>5
<1>6. CASE i >= Growth
  <2>1. PICK z \in Nat : i = Growth + z
    <3>1. i - Growth \in Nat /\ i = Growth + (i - Growth)
      BY <1>6
    <3> QED
      BY <3>1
  <2>2. T(Growth) \in Nat /\ i - Growth = z /\ (i + 1) - Growth = z + 1
    BY <1>1, <2>1
  <2>3. ChunkStart(i) = ChunkUnit * (T(Growth) + z * Growth)
    BY <1>3, <1>6, <2>2
  <2>4. ChunkStart(i + 1) = ChunkUnit * (T(Growth) + (z + 1) * Growth)
    BY <1>3, <1>6, <2>2
  <2>5. ChunkUnit * (T(Growth) + (z + 1) * Growth)
          = ChunkUnit * (T(Growth) + z * Growth) + Growth * ChunkUnit
    BY <2>2
  <2>6. MacChunkSize(i) = Growth * ChunkUnit
    BY <1>6 DEF MacChunkSize
  <2>7. ChunkUnit * (T(Growth) + z * Growth) \in Nat
    BY <2>2
  <2> QED
    BY <1>4, <2>3, <2>4, <2>5, <2>6, <2>7
<1> QED
  BY <1>5, <1>6

\* Every chunk is a number of whole blocks.
LEMMA ChunksAreBlocks ==
  ASSUME NEW i \in Nat
  PROVE  \E w \in Nat : MacChunkSize(i) = w * Block
<1>1. PICK u \in Nat : ChunkUnit = u * Block
  <2>1. ChunkUnit \div Block \in Nat /\ ChunkUnit = Block * (ChunkUnit \div Block) + 0
    OBVIOUS
  <2> QED
    BY <2>1
<1>2. \A k \in Nat : k * ChunkUnit = (k * u) * Block /\ k * u \in Nat
  BY <1>1
<1>3. PICK k \in Nat : MacChunkSize(i) = k * ChunkUnit
  BY DEF MacChunkSize
<1> QED
  BY <1>2, <1>3

-----------------------------------------------------------------------------
(* However the bytes come, the MAC so far is that of the bytes so far.     *)

\* The b-th block of the chunk that begins at byte `from'.
Cell(from, b) == [i \in Index |-> {from + (b - 1) * Block + i}]

\* The CBC-MAC of `full' whole blocks, with `part' bytes of the next one mixed in.
PartialMac(from, full, part) ==
  [done |-> [b \in 1..full |-> Cell(from, b)],
   cur |-> [i \in Index |-> IF i < part THEN {from + full * Block + i} ELSE {}]]

\* The open chunk of s begins at a block's beginning and holds this much.
Holds(s, before, full, part) ==
  /\ ChunkStart(s.chunk_idx) = before * Block
  /\ s.pos = (before + full) * Block + part
  /\ s.chunk = PartialMac(ChunkStart(s.chunk_idx), full, part)

\* The chunks closed are those behind the open one.
ClosedChunks(s) ==
  /\ s.next_boundary = ChunkStart(s.chunk_idx + 1)
  /\ Len(s.meta) = s.chunk_idx
  /\ \A c \in 1..s.chunk_idx : s.meta[c] = CbcMac(ChunkStart(c - 1), ChunkStart(c))
  /\ s.chunk_idx <= ChunkStart(s.chunk_idx)
  /\ \A d \in 0..s.chunk_idx - 1 : ChunkStart(d) < ChunkStart(s.chunk_idx)

SoFar(s) ==
  /\ ClosedChunks(s)
  /\ \E before, full \in Nat : \E part \in 0..Block - 1 : Holds(s, before, full, part)

MacInv == TypeOK /\ BoundaryAhead /\ SoFar(m) /\ (over => rest = 0 /\ out = MetaMac(fed))

LEMMA BlocksGrow ==
  ASSUME NEW from \in Nat, NEW full \in Nat
  PROVE  Append([b \in 1..full |-> Cell(from, b)], Cell(from, full + 1))
           = [b \in 1..(full + 1) |-> Cell(from, b)]
<1> DEFINE f == [b \in 1..full |-> Cell(from, b)]
           g == [b \in 1..(full + 1) |-> Cell(from, b)]
           x == Cell(from, full + 1)
<1>1. \A b \in 1..(full + 1) : Cell(from, b) \in Bits
  <2> TAKE b \in 1..(full + 1)
  <2>1. (b - 1) * Block \in Nat
    <3>1. b - 1 \in Nat
      OBVIOUS
    <3> QED
      BY <3>1
  <2>2. \A i \in Index : {from + (b - 1) * Block + i} \in SUBSET Nat
    BY <2>1 DEF Index
  <2> QED
    BY <2>2 DEF Cell, Bits
<1>2. f \in Seq(Bits) /\ Len(f) = full /\ \A b \in 1..full : f[b] = Cell(from, b)
  BY <1>1
<1>3. g \in Seq(Bits) /\ Len(g) = full + 1 /\ \A b \in 1..(full + 1) : g[b] = Cell(from, b)
  BY <1>1
<1>4. x \in Bits /\ x = Cell(from, full + 1)
  BY <1>1
<1> HIDE DEF f, g, x
<1>5. /\ Append(f, x) \in Seq(Bits) /\ Len(Append(f, x)) = full + 1
      /\ Append(f, x)[full + 1] = x
      /\ \A b \in 1..full : Append(f, x)[b] = f[b]
  BY <1>2, <1>4, AppendProperties
<1>6. \A b \in 1..(full + 1) : Append(f, x)[b] = g[b]
  BY <1>2, <1>3, <1>4, <1>5
<1>7. Append(f, x) = g
  BY <1>3, <1>5, <1>6, SeqEqual
<1> QED
  BY <1>7 DEF f, g, x

\* A whole block more.
LEMMA NextBlock ==
  ASSUME NEW from \in Nat, NEW full \in Nat, NEW v,
         v = [done |-> PartialMac(from, full, 0).done, cur |-> Cell(from, full + 1)]
  PROVE  Encrypt(v) = PartialMac(from, full + 1, 0)
<1>1. Encrypt(v) = [done |-> [b \in 1..(full + 1) |-> Cell(from, b)], cur |-> Zero]
  BY BlocksGrow DEF Encrypt, PartialMac
<1>2. Zero = PartialMac(from, full + 1, 0).cur
  BY DEF Zero, PartialMac, Index
<1> QED
  BY <1>1, <1>2 DEF PartialMac

\* The rest of pos tells how much of a block is there.
LEMMA RestOfPos ==
  ASSUME NEW s, NEW before \in Nat, NEW full \in Nat, NEW part \in 0..Block - 1
  PROVE  Holds(s, before, full, part) => s.pos % Block = part
<1> DEFINE q == before + full
           x == s.pos
<1>1. q \in Nat
  OBVIOUS
<1>2. Holds(s, before, full, part) => x = q * Block + part
  BY DEF Holds
<1> HIDE DEF q, x
<1>3. x = q * Block + part => x % Block = part
  BY <1>1, OneRest
<1> QED
  BY <1>2, <1>3 DEF x

LEMMA BlockKeeps ==
  ASSUME NEW s \in Mac, SoFar(s), NEW n, FitsBlock(s, n)
  PROVE  SoFar(TakeBlock(s, s.pos))
<1>1. PICK before \in Nat, full \in Nat, part \in 0..Block - 1 : Holds(s, before, full, part)
  BY DEF SoFar
<1>2. part = 0
  BY <1>1, RestOfPos DEF FitsBlock
<1> DEFINE from == ChunkStart(s.chunk_idx)
           mixed == [i \in 0..Block - 1 |-> Xor(s.chunk.cur[i], {s.pos + i})]
           v == [done |-> s.chunk.done, cur |-> mixed]
           t == TakeBlock(s, s.pos)
<1>3. from \in Nat /\ from = before * Block /\ s.chunk = PartialMac(from, full, 0)
  BY <1>1, <1>2 DEF Holds
<1>4. s.pos = from + ((full + 1) - 1) * Block
  BY <1>1, <1>2, <1>3 DEF Holds
<1>5. mixed = Cell(from, full + 1)
  <2>1. \A i \in Index : s.chunk.cur[i] = {}
    BY <1>3 DEF PartialMac, Index
  <2>2. \A i \in Index : Xor(s.chunk.cur[i], {s.pos + i}) = {s.pos + i}
    BY <2>1 DEF Xor
  <2> QED
    BY <2>2, <1>4 DEF Cell, Index
<1>6. Encrypt(v) = PartialMac(from, full + 1, 0)
  BY <1>3, <1>5, NextBlock
<1>7. t = [s EXCEPT !.chunk = Encrypt(v), !.pos = s.pos + Block]
  BY DEF TakeBlock
<1> HIDE DEF from, v, t
<1>8. /\ t.chunk = PartialMac(from, full + 1, 0) /\ t.pos = s.pos + Block
      /\ t.chunk_idx = s.chunk_idx /\ t.next_boundary = s.next_boundary /\ t.meta = s.meta
  BY <1>6, <1>7 DEF Mac
<1>9. t.pos = (before + (full + 1)) * Block + 0
  BY <1>1, <1>2, <1>8 DEF Holds
<1>10. Holds(t, before, full + 1, 0)
  BY <1>3, <1>8, <1>9 DEF Holds, from
<1>11. ClosedChunks(t)
  BY <1>8 DEF SoFar, ClosedChunks
<1> QED
  BY <1>10, <1>11 DEF SoFar, t

LEMMA ByteKeeps ==
  ASSUME NEW s \in Mac, SoFar(s)
  PROVE  SoFar(TakeByte(s, s.pos))
<1>1. PICK before \in Nat, full \in Nat, part \in 0..Block - 1 : Holds(s, before, full, part)
  BY DEF SoFar
<1> DEFINE from == ChunkStart(s.chunk_idx)
           cur == [s.chunk.cur EXCEPT ![part] = Xor(@, {s.pos})]
           v == [s.chunk EXCEPT !.cur = cur]
           t == [s EXCEPT !.chunk = v, !.pos = s.pos + 1]
           z == TakeByte(s, s.pos)
<1>2. s.pos % Block = part
  BY <1>1, RestOfPos
<1>3. /\ from \in Nat /\ from = before * Block /\ s.chunk = PartialMac(from, full, part)
      /\ s.pos = (before + full) * Block + part
  BY <1>1 DEF Holds
<1>4. s.pos = from + full * Block + part
  BY <1>3
<1>5. cur = [i \in Index |-> IF i < part + 1 THEN {from + full * Block + i} ELSE {}]
  <2>1. s.chunk.cur = [i \in Index |-> IF i < part THEN {from + full * Block + i} ELSE {}]
    BY <1>3 DEF PartialMac
  <2>2. part \in Index /\ s.chunk.cur[part] = {}
    BY <2>1 DEF Index
  <2>3. Xor(s.chunk.cur[part], {s.pos}) = {from + full * Block + part}
    BY <2>2, <1>4 DEF Xor
  <2>4. ASSUME NEW i \in Index
        PROVE  cur[i] = IF i < part + 1 THEN {from + full * Block + i} ELSE {}
    <3>1. cur[i] = IF i = part THEN {from + full * Block + part} ELSE s.chunk.cur[i]
      BY <2>1, <2>2, <2>3
    <3>2. s.chunk.cur[i] = IF i < part THEN {from + full * Block + i} ELSE {}
      BY <2>1
    <3>3. i \in Nat /\ part \in Nat
      BY DEF Index
    <3> HIDE DEF cur, from
    <3>4. CASE i = part
      BY <3>1, <3>3, <3>4
    <3>5. CASE i # part
      <4>1. i < part + 1 <=> i < part
        BY <3>3, <3>5
      <4> QED
        BY <3>1, <3>2, <3>5, <4>1
    <3> QED
      BY <3>4, <3>5
  <2>5. cur = [i \in Index |-> cur[i]]
    BY <2>1
  <2> HIDE DEF cur
  <2> QED
    BY <2>4, <2>5
<1>6. v = [done |-> s.chunk.done, cur |-> cur]
  <2>1. s.chunk = [done |-> s.chunk.done, cur |-> s.chunk.cur]
    BY <1>3 DEF PartialMac
  <2> HIDE DEF cur
  <2> QED
    BY <2>1
<1>7. z = IF t.pos % Block = 0 THEN [t EXCEPT !.chunk = Encrypt(t.chunk)] ELSE t
  BY <1>2 DEF TakeByte
<1> HIDE DEF from, cur, v, z
<1>8. /\ t.chunk = v /\ t.pos = s.pos + 1 /\ t.chunk_idx = s.chunk_idx
      /\ t.next_boundary = s.next_boundary /\ t.meta = s.meta
      /\ [t EXCEPT !.chunk = Encrypt(v)].chunk = Encrypt(v)
      /\ [t EXCEPT !.chunk = Encrypt(v)].pos = s.pos + 1
      /\ [t EXCEPT !.chunk = Encrypt(v)].chunk_idx = s.chunk_idx
      /\ [t EXCEPT !.chunk = Encrypt(v)].next_boundary = s.next_boundary
      /\ [t EXCEPT !.chunk = Encrypt(v)].meta = s.meta
  BY DEF Mac
<1> HIDE DEF t
<1>9. /\ z.pos = s.pos + 1 /\ z.chunk_idx = s.chunk_idx
      /\ z.next_boundary = s.next_boundary /\ z.meta = s.meta
      /\ z.chunk = IF (s.pos + 1) % Block = 0 THEN Encrypt(v) ELSE v
  BY <1>7, <1>8
<1>10. ClosedChunks(z)
  BY <1>9 DEF SoFar, ClosedChunks
<1>11. CASE part + 1 = Block
  <2>1. s.pos + 1 = (before + (full + 1)) * Block + 0
    BY <1>3, <1>11
  <2>2. (s.pos + 1) % Block = 0
    <3> DEFINE q == before + (full + 1)
               x == s.pos + 1
    <3>1. q \in Nat /\ x = q * Block + 0 /\ 0 \in 0..Block - 1
      BY <2>1
    <3> HIDE DEF q, x
    <3>2. x % Block = 0
      BY <3>1, OneRest
    <3> QED
      BY <3>2 DEF x
  <2>3. cur = Cell(from, full + 1)
    <3>1. \A i \in Index : i < part + 1 /\ full * Block = ((full + 1) - 1) * Block
      BY <1>11 DEF Index
    <3> QED
      BY <3>1, <1>5 DEF Cell
  <2>4. Encrypt(v) = PartialMac(from, full + 1, 0)
    <3>1. s.chunk.done = PartialMac(from, full, 0).done
      BY <1>3 DEF PartialMac
    <3> QED
      BY <1>3, <1>6, <2>3, <3>1, NextBlock
  <2>5. Holds(z, before, full + 1, 0)
    BY <1>3, <1>9, <2>1, <2>2, <2>4 DEF Holds, from
  <2> QED
    BY <1>10, <2>5 DEF SoFar, z
<1>12. CASE part + 1 # Block
  <2>1. s.pos + 1 = (before + full) * Block + (part + 1) /\ part + 1 \in 0..Block - 1
    BY <1>3, <1>12
  <2>2. (s.pos + 1) % Block = part + 1 /\ part + 1 # 0
    <3> DEFINE q == before + full
               p == part + 1
               x == s.pos + 1
    <3>1. q \in Nat /\ x = q * Block + p /\ p \in 0..Block - 1 /\ p # 0
      BY <2>1
    <3> HIDE DEF q, p, x
    <3>2. x % Block = p
      BY <3>1, OneRest
    <3> QED
      BY <3>1, <3>2 DEF p, x
  <2>3. v = PartialMac(from, full, part + 1)
    BY <1>3, <1>5, <1>6 DEF PartialMac
  <2>4. Holds(z, before, full, part + 1)
    BY <1>3, <1>9, <2>1, <2>2, <2>3 DEF Holds, from
  <2> QED
    BY <1>10, <2>1, <2>4 DEF SoFar, z
<1> QED
  BY <1>11, <1>12

LEMMA CbcWhole ==
  ASSUME NEW from \in Nat, NEW full \in Nat
  PROVE  CbcMac(from, from + full * Block) = PartialMac(from, full, 0)
<1> DEFINE to == from + full * Block
           n == (to - from + Block - 1) \div Block
           x == to - from + Block - 1
<1>1. n = full
  <2> DEFINE r == Block - 1
  <2>1. x = full * Block + r /\ r \in 0..Block - 1
    <3>1. full * Block \in Nat
      OBVIOUS
    <3> QED
      BY <3>1
  <2>2. n = x \div Block
    OBVIOUS
  <2> HIDE DEF x, r, n
  <2>3. x \div Block = full
    BY <2>1, OneRest
  <2> QED
    BY <2>2, <2>3
<1>2. ASSUME NEW b \in 1..full, NEW i \in Index
      PROVE  from + (b - 1) * Block + i < to
  <2>1. PICK z \in Nat : full = b + z
    <3>1. full - b \in Nat /\ full = b + (full - b)
      OBVIOUS
    <3> QED
      BY <3>1
  <2>2. full * Block = (b - 1) * Block + Block + z * Block /\ z * Block \in Nat
        /\ (b - 1) * Block \in Nat
    <3>1. b - 1 \in Nat
      OBVIOUS
    <3> QED
      BY <2>1, <3>1
  <2>3. i \in Nat /\ i < Block
    BY DEF Index
  <2> QED
    BY <2>2, <2>3
<1> DEFINE e(b) == [i \in Index |->
                      LET p == from + (b - 1) * Block + i IN IF p < to THEN {p} ELSE {}]
<1>3. CbcMac(from, to) = [done |-> [b \in 1..n |-> e(b)], cur |-> Zero]
  BY DEF CbcMac, Index
<1>4. \A b \in 1..full : e(b) = Cell(from, b)
  BY <1>2 DEF Cell
<1>5. PartialMac(from, full, 0) = [done |-> [b \in 1..full |-> Cell(from, b)], cur |-> Zero]
  <2>1. Zero = [i \in Index |-> IF i < 0 THEN {from + full * Block + i} ELSE {}]
    BY DEF Zero, Index
  <2> QED
    BY <2>1 DEF PartialMac
<1> HIDE DEF e, n, to
<1> QED
  BY <1>1, <1>3, <1>4, <1>5 DEF to

LEMMA CbcPart ==
  ASSUME NEW from \in Nat, NEW full \in Nat, NEW part \in 1..Block - 1
  PROVE  CbcMac(from, from + full * Block + part) = Encrypt(PartialMac(from, full, part))
<1> DEFINE to == from + full * Block + part
           n == (to - from + Block - 1) \div Block
           x == to - from + Block - 1
<1>1. n = full + 1
  <2> DEFINE r == part - 1
             q == full + 1
  <2>1. x = q * Block + r /\ r \in 0..Block - 1 /\ q \in Nat
    <3>1. full * Block \in Nat
      OBVIOUS
    <3> QED
      BY <3>1
  <2>2. n = x \div Block
    OBVIOUS
  <2> HIDE DEF x, r, n, q
  <2>3. x \div Block = q
    BY <2>1, OneRest
  <2> QED
    BY <2>2, <2>3 DEF q
<1>2. ASSUME NEW b \in 1..full, NEW i \in Index
      PROVE  from + (b - 1) * Block + i < to
  <2>1. PICK z \in Nat : full = b + z
    <3>1. full - b \in Nat /\ full = b + (full - b)
      OBVIOUS
    <3> QED
      BY <3>1
  <2>2. full * Block = (b - 1) * Block + Block + z * Block /\ z * Block \in Nat
        /\ (b - 1) * Block \in Nat
    <3>1. b - 1 \in Nat
      OBVIOUS
    <3> QED
      BY <2>1, <3>1
  <2>3. i \in Nat /\ i < Block
    BY DEF Index
  <2> QED
    BY <2>2, <2>3
<1> DEFINE e(b) == [i \in Index |->
                      LET p == from + (b - 1) * Block + i IN IF p < to THEN {p} ELSE {}]
           last == [i \in Index |-> IF i < part THEN {from + full * Block + i} ELSE {}]
           f == [b \in 1..full |-> Cell(from, b)]
<1>3. CbcMac(from, to) = [done |-> [b \in 1..n |-> e(b)], cur |-> Zero]
  BY DEF CbcMac, Index
<1>4. \A b \in 1..full : e(b) = Cell(from, b)
  BY <1>2 DEF Cell
<1>5. e(full + 1) = last
  <2>1. \A i \in Index : /\ from + ((full + 1) - 1) * Block + i = from + full * Block + i
                         /\ from + full * Block + i < to <=> i < part
    <3>1. full * Block \in Nat /\ Index \subseteq Nat
      BY DEF Index
    <3> QED
      BY <3>1
  <2> QED
    BY <2>1
<1>6. Encrypt(PartialMac(from, full, part)) = [done |-> Append(f, last), cur |-> Zero]
  BY DEF Encrypt, PartialMac
<1>7. Append(f, last) = [b \in 1..(full + 1) |-> IF b = full + 1 THEN last ELSE Cell(from, b)]
  <2>1. f = [b \in 1..full |-> f[b]] /\ Len(f) = full /\ \A b \in 1..full : f[b] = Cell(from, b)
    OBVIOUS
  <2> HIDE DEF f, last
  <2> QED
    BY <2>1
<1> HIDE DEF e, n, to, last, f
<1>8. [b \in 1..(full + 1) |-> e(b)]
        = [b \in 1..(full + 1) |-> IF b = full + 1 THEN last ELSE Cell(from, b)]
  <2>1. \A b \in 1..(full + 1) : e(b) = IF b = full + 1 THEN last ELSE Cell(from, b)
    <3> TAKE b \in 1..(full + 1)
    <3>1. b # full + 1 => b \in 1..full
      OBVIOUS
    <3> QED
      BY <3>1, <1>4, <1>5
  <2> QED
    BY <2>1
<1> QED
  BY <1>1, <1>3, <1>6, <1>7, <1>8 DEF to

\* Closing a full chunk leaves an empty one behind it.
LEMMA CloseKeeps ==
  ASSUME NEW s \in Mac, SoFar(s), s.pos = s.next_boundary
  PROVE  SoFar(CloseChunk(s))
<1>1. PICK before \in Nat, full \in Nat, part \in 0..Block - 1 : Holds(s, before, full, part)
  BY DEF SoFar
<1> DEFINE k == s.chunk_idx
           z == CloseChunk(s)
<1>2. k \in Nat /\ k + 1 \in Nat
  BY DEF Mac
<1>3. PICK w \in Nat : MacChunkSize(k) = w * Block
  BY <1>2, ChunksAreBlocks
<1>4. /\ ChunkStart(k) \in Nat /\ ChunkStart(k) = before * Block
      /\ ChunkStart(k + 1) = ChunkStart(k) + w * Block
      /\ ChunkStart(k + 2) = ChunkStart(k + 1) + MacChunkSize(k + 1)
      /\ MacChunkSize(k) \in Nat \ {0}
  <2>1. (k + 1) + 1 = k + 2
    BY <1>2
  <2> QED
    BY <1>1, <1>2, <1>3, <2>1, StartsFollow, ChunkSizePositive DEF Holds
<1>5. /\ z.chunk_idx = k + 1 /\ z.next_boundary = s.next_boundary + MacChunkSize(k + 1)
      /\ z.pos = s.pos /\ z.meta = Append(s.meta, s.chunk) /\ z.chunk = Iv
  <2>1. z.meta = Append(s.meta, s.chunk) /\ z.chunk = Iv
    BY DEF CloseChunk, Mac
  <2> QED
    BY <2>1, CloseChunkFacts
<1>6. part = 0 /\ full = w
  <2> DEFINE q == before + full
             p == before + w
             x == s.pos
             r == part
             o == 0
  <2>1. /\ q \in Nat /\ p \in Nat /\ r \in 0..Block - 1 /\ o \in 0..Block - 1
        /\ x = q * Block + r /\ x = p * Block + o
    <3>1. x = ChunkStart(k + 1)
      BY DEF SoFar, ClosedChunks
    <3> QED
      BY <1>1, <1>4, <3>1 DEF Holds
  <2> HIDE DEF q, p, x, r, o
  <2>2. x % Block = r /\ x \div Block = q
    BY <2>1, OneRest
  <2>3. x % Block = o /\ x \div Block = p
    BY <2>1, OneRest
  <2>4. r = o /\ q = p
    BY <2>2, <2>3
  <2> QED
    BY <2>4 DEF q, p, r, o
<1>7. s.chunk = CbcMac(ChunkStart(k), ChunkStart(k + 1))
  BY <1>1, <1>4, <1>6, CbcWhole DEF Holds
<1>8. Iv = PartialMac(ChunkStart(k + 1), 0, 0)
  <2>1. Zero = [i \in Index |-> IF i < 0 THEN {ChunkStart(k + 1) + 0 * Block + i} ELSE {}]
    BY DEF Zero, Index
  <2>2. <<>> = [b \in 1..0 |-> Cell(ChunkStart(k + 1), b)]
    OBVIOUS
  <2> QED
    BY <2>1, <2>2 DEF Iv, PartialMac
<1>9. Holds(z, before + w, 0, 0)
  <2>1. ChunkStart(k + 1) = (before + w) * Block
    BY <1>4
  <2>2. s.pos = ((before + w) + 0) * Block + 0
    BY <2>1, <1>2, <1>4 DEF SoFar, ClosedChunks
  <2> HIDE DEF z, k
  <2> QED
    BY <2>1, <2>2, <1>5, <1>8 DEF Holds
<1>10. ClosedChunks(z)
  <2>1. z.next_boundary = ChunkStart(z.chunk_idx + 1)
    <3>1. (k + 1) + 1 = k + 2 /\ s.next_boundary = ChunkStart(k + 1)
      BY <1>2 DEF SoFar, ClosedChunks
    <3> HIDE DEF z, k
    <3> QED
      BY <3>1, <1>4, <1>5
  <2>2. /\ s.meta \in Seq(Value) /\ s.chunk \in Value /\ Len(s.meta) = k
        /\ \A c \in 1..k : s.meta[c] = CbcMac(ChunkStart(c - 1), ChunkStart(c))
        /\ k <= ChunkStart(k)
        /\ \A d \in 0..k - 1 : ChunkStart(d) < ChunkStart(k)
    BY DEF SoFar, ClosedChunks, Mac
  <2>3. /\ Len(z.meta) = k + 1 /\ z.meta[k + 1] = s.chunk
        /\ \A c \in 1..k : z.meta[c] = s.meta[c]
    BY <2>2, <1>5, AppendProperties
  <2> HIDE DEF z, k
  <2>4. ASSUME NEW c \in 1..(k + 1)
        PROVE  z.meta[c] = CbcMac(ChunkStart(c - 1), ChunkStart(c))
    <3>1. CASE c = k + 1
      <4>1. c - 1 = k
        BY <3>1, <1>2
      <4> QED
        BY <3>1, <4>1, <2>3, <1>7 DEF k
    <3>2. CASE c # k + 1
      <4>1. c \in 1..k
        BY <3>2, <1>2
      <4> QED
        BY <4>1, <2>2, <2>3
    <3> QED
      BY <3>1, <3>2
  <2>5. ChunkStart(k) < ChunkStart(k + 1) /\ ChunkStart(k + 1) \in Nat
    BY <1>3, <1>4
  <2>6. k + 1 <= ChunkStart(k + 1)
    BY <2>2, <2>5, <1>2, <1>4
  <2>7. ASSUME NEW d \in 0..(k + 1) - 1 PROVE ChunkStart(d) < ChunkStart(k + 1)
    <3>1. CASE d = k
      BY <3>1, <2>5
    <3>2. CASE d # k
      <4>1. d \in 0..k - 1
        BY <3>2, <1>2
      <4>2. ChunkStart(d) < ChunkStart(k) /\ d \in Nat
        BY <4>1, <2>2
      <4>3. ChunkStart(d) \in Nat
        BY <4>2, StartsFollow
      <4> QED
        BY <4>2, <4>3, <2>5, <1>4
    <3> QED
      BY <3>1, <3>2
  <2> QED
    BY <2>1, <2>3, <2>4, <2>6, <2>7, <1>5 DEF ClosedChunks
<1> QED
  BY <1>9, <1>10 DEF SoFar

LEMMA BoundaryKeeps ==
  ASSUME NEW s \in Mac, SoFar(s) PROVE SoFar(AtBoundary(s))
  BY CloseKeeps DEF AtBoundary

LEMMA ChunksIs ==
  ASSUME NEW n \in Nat, NEW c \in 0..n, ChunkStart(c) >= n,
         \A d \in 0..c - 1 : ChunkStart(d) < n
  PROVE  Chunks(n) = c
<1> DEFINE P(e) == ChunkStart(e) >= n /\ \A d \in 0..e - 1 : ChunkStart(d) < n
<1>1. ASSUME NEW e \in 0..n, P(e) PROVE e = c
  <2>1. \A d \in 0..n : ChunkStart(d) \in Nat
    BY StartsFollow
  <2>2. CASE e < c
    <3>1. e \in 0..c - 1
      BY <2>2
    <3>2. ChunkStart(e) < n /\ ChunkStart(e) >= n
      BY <3>1, <1>1
    <3> QED
      BY <3>2, <2>1
  <2>3. CASE c < e
    <3>1. c \in 0..e - 1
      BY <2>3
    <3>2. ChunkStart(c) < n /\ ChunkStart(c) >= n
      BY <3>1, <1>1
    <3> QED
      BY <3>2, <2>1
  <2> QED
    BY <2>2, <2>3
<1>2. P(c)
  OBVIOUS
<1>3. Chunks(n) = CHOOSE e \in 0..n : P(e)
  BY DEF Chunks
<1> HIDE DEF P
<1> QED
  BY <1>1, <1>2, <1>3

\* Folding the open chunk or not, finish returns the reference MAC.
LEMMA FinishIsMeta ==
  ASSUME m \in Mac, BoundaryAhead, SoFar(m), fed \in Nat
  PROVE  FoldLast(Pad(m)) = MetaMac(fed)
<1>1. PICK before \in Nat, full \in Nat, part \in 0..Block - 1 : Holds(m, before, full, part)
  BY DEF SoFar
<1> DEFINE k == m.chunk_idx
           from == ChunkStart(k)
           R(c) == CbcMac(ChunkStart(c - 1), IF ChunkStart(c) < fed THEN ChunkStart(c) ELSE fed)
<1>2. /\ k \in Nat /\ k + 1 \in Nat /\ from \in Nat /\ MacChunkSize(k) \in Nat \ {0}
      /\ ChunkStart(k + 1) = from + MacChunkSize(k) /\ from = before * Block
  <2>1. k \in Nat
    BY DEF Mac
  <2> QED
    BY <2>1, <1>1, StartsFollow, ChunkSizePositive DEF Holds
<1>3. /\ m.next_boundary = ChunkStart(k + 1) /\ Len(m.meta) = k /\ m.meta \in Seq(Value)
      /\ \A c \in 1..k : m.meta[c] = CbcMac(ChunkStart(c - 1), ChunkStart(c))
      /\ k <= from /\ \A d \in 0..k - 1 : ChunkStart(d) < from
  BY DEF SoFar, ClosedChunks, Mac
<1>4. /\ m.pos = fed /\ fed = from + full * Block + part /\ full * Block \in Nat
      /\ fed < ChunkStart(k + 1) /\ from <= fed /\ m.chunk = PartialMac(from, full, part)
  <2>1. m.pos = fed /\ fed < ChunkStart(k + 1)
    BY <1>3 DEF BoundaryAhead
  <2>2. m.pos = (before + full) * Block + part /\ full * Block \in Nat
    BY <1>1 DEF Holds
  <2>3. fed = from + full * Block + part
    BY <2>1, <2>2, <1>2
  <2> QED
    BY <1>1, <1>2, <2>1, <2>2, <2>3 DEF Holds
<1>5. m.pos % Block = part
  BY <1>1, RestOfPos
<1>6. MetaMac(fed) = [c \in 1..Chunks(fed) |-> R(c)]
  BY DEF MetaMac
<1>7. ASSUME NEW c \in 1..k PROVE m.meta[c] = R(c)
  <2>1. c = k \/ c \in 0..k - 1
    BY <1>2
  <2>2. ChunkStart(c) < fed \/ ChunkStart(c) = fed
    <3>1. CASE c = k
      BY <3>1, <1>2, <1>4
    <3>2. CASE c \in 0..k - 1
      <4>1. ChunkStart(c) < from
        BY <3>2, <1>3
      <4>2. c \in Nat
        BY <3>2
      <4>3. ChunkStart(c) \in Nat
        BY <4>2, StartsFollow
      <4> QED
        BY <4>1, <4>3, <1>2, <1>4
    <3> QED
      BY <2>1, <3>1, <3>2
  <2> QED
    BY <2>2, <1>3
<1>8. CASE fed = from
  <2>1. part = 0 /\ Pad(m) = m
    <3>1. full * Block + part = 0
      <4> DEFINE x == full * Block
      <4>1. x \in Nat /\ fed = from + x + part
        BY <1>4
      <4> HIDE DEF x, from
      <4>2. x + part = 0
        BY <4>1, <1>2, <1>8
      <4> QED
        BY <4>2 DEF x
    <3>2. part = 0
      BY <3>1, <1>4
    <3> QED
      BY <3>2, <1>5 DEF Pad
  <2>2. FoldLast(Pad(m)) = m.meta
    <3> DEFINE size == MacChunkSize(k)
    <3>1. m.pos = from /\ m.next_boundary = from + size
      BY <1>2, <1>3, <1>4, <1>8
    <3>2. size \in Nat /\ from \in Nat
      BY <1>2
    <3> HIDE DEF size, from
    <3>3. ~(m.pos > m.next_boundary - size)
      BY <3>1, <3>2
    <3>4. ~(m.pos > m.next_boundary - MacChunkSize(m.chunk_idx))
      BY <3>3 DEF size
    <3> QED
      BY <2>1, <3>4 DEF FoldLast
  <2>3. Chunks(fed) = k
    BY <1>2, <1>3, <1>8, ChunksIs
  <2>4. m.meta = [c \in 1..k |-> m.meta[c]]
    BY <1>3
  <2> HIDE DEF R, k
  <2> QED
    BY <1>6, <1>7, <2>2, <2>3, <2>4
<1>9. CASE fed > from
  <2> DEFINE s == Pad(m)
             last == CbcMac(from, fed)
  <2>1. /\ s.next_boundary = m.next_boundary /\ s.chunk_idx = k /\ s.meta = m.meta
        /\ s.pos \in Nat /\ s.pos >= fed /\ s.chunk = last
    <3>1. CASE part = 0
      <4>1. s = m /\ fed = from + full * Block
        BY <3>1, <1>2, <1>4, <1>5 DEF Pad
      <4>2. m.chunk = last
        BY <3>1, <4>1, <1>2, <1>4, CbcWhole
      <4> QED
        BY <4>1, <4>2, <1>4
    <3>2. CASE part # 0
      <4>1. s = [m EXCEPT !.pos = m.pos + (Block - part), !.chunk = Encrypt(m.chunk)]
        BY <3>2, <1>5 DEF Pad
      <4>2. last = Encrypt(m.chunk)
        <5>1. part \in 1..Block - 1
          BY <3>2
        <5> QED
          BY <5>1, <1>2, <1>4, CbcPart
      <4>3. m.pos + (Block - part) \in Nat /\ m.pos + (Block - part) >= fed
        BY <1>4
      <4> HIDE DEF s, last
      <4> QED
        BY <4>1, <4>2, <4>3 DEF Mac
    <3> QED
      BY <3>1, <3>2
  <2> HIDE DEF s, last
  <2>2. FoldLast(s) = Append(m.meta, last)
    <3>1. s.pos > s.next_boundary - MacChunkSize(s.chunk_idx)
      BY <2>1, <1>2, <1>3, <1>9
    <3>2. CloseChunk(s).meta = Append(s.meta, s.chunk)
      <4>1. s \in Mac
        BY PadType DEF s
      <4> QED
        BY <4>1 DEF CloseChunk, Mac
    <3> QED
      BY <2>1, <3>1, <3>2 DEF FoldLast
  <2>3. Chunks(fed) = k + 1
    <3>1. k + 1 \in 0..fed /\ ChunkStart(k + 1) >= fed
      BY <1>2, <1>3, <1>4, <1>9
    <3>2. ASSUME NEW d \in 0..(k + 1) - 1 PROVE ChunkStart(d) < fed
      <4>1. CASE d = k
        BY <4>1, <1>9
      <4>2. CASE d # k
        <5>1. d \in 0..k - 1 /\ d \in Nat
          BY <4>2, <1>2
        <5>2. ChunkStart(d) < from /\ ChunkStart(d) \in Nat
          BY <5>1, <1>3, StartsFollow
        <5> QED
          BY <5>2, <1>2, <1>9
      <4> QED
        BY <4>1, <4>2
    <3> HIDE DEF k
    <3> QED
      BY <3>1, <3>2, ChunksIs
  <2>4. R(k + 1) = last
    <3>1. (k + 1) - 1 = k /\ ~(ChunkStart(k + 1) < fed)
      BY <1>2, <1>4
    <3> QED
      BY <3>1 DEF last
  <2>5. Append(m.meta, last) = [c \in 1..(k + 1) |-> IF c = k + 1 THEN last ELSE m.meta[c]]
    <3> HIDE DEF k
    <3> QED
      BY <1>3
  <2>6. \A c \in 1..(k + 1) : R(c) = IF c = k + 1 THEN last ELSE m.meta[c]
    <3> TAKE c \in 1..(k + 1)
    <3>1. c # k + 1 => c \in 1..k
      BY <1>2
    <3> HIDE DEF R, k
    <3> QED
      BY <3>1, <1>7, <2>4
  <2> HIDE DEF R, k
  <2> QED
    BY <1>6, <2>2, <2>3, <2>5, <2>6 DEF s
<1> QED
  BY <1>2, <1>4, <1>8, <1>9

LEMMA MacInit == Init => SoFar(m)
<1> SUFFICES ASSUME Init PROVE SoFar(m)
  OBVIOUS
<1>1. /\ m.chunk_idx = 0 /\ m.next_boundary = MacChunkSize(0) /\ m.pos = 0
      /\ m.chunk = Iv /\ m.meta = <<>>
  BY DEF Init, NewMac
<1>2. ChunkStart(0) = 0 /\ ChunkStart(0 + 1) = 0 + MacChunkSize(0) /\ MacChunkSize(0) \in Nat
  BY StartsFollow, ChunkSizePositive
<1>3. ClosedChunks(m)
  BY <1>1, <1>2 DEF ClosedChunks
<1>4. Iv = PartialMac(0, 0, 0)
  <2>1. Zero = [i \in Index |-> IF i < 0 THEN {0 + 0 * Block + i} ELSE {}]
    BY DEF Zero, Index
  <2>2. <<>> = [b \in 1..0 |-> Cell(0, b)]
    OBVIOUS
  <2> QED
    BY <2>1, <2>2 DEF Iv, PartialMac
<1>5. Holds(m, 0, 0, 0)
  BY <1>1, <1>2, <1>4 DEF Holds
<1>6. 0 \in 0..Block - 1
  OBVIOUS
<1> QED
  BY <1>3, <1>5, <1>6 DEF SoFar

LEMMA MacNext == MacInv /\ (TypeOK /\ BoundaryAhead)' /\ [Next]_vars => MacInv'
<1> SUFFICES ASSUME MacInv, (TypeOK /\ BoundaryAhead)', [Next]_vars PROVE MacInv'
  OBVIOUS
<1>1. m \in Mac /\ fed \in Nat /\ rest \in Nat /\ m.pos = fed /\ SoFar(m)
  BY DEF MacInv, TypeOK, BoundaryAhead
<1>2. ASSUME NEW n \in 1..MaxLength, Update(n) PROVE MacInv'
  BY <1>2 DEF Update, MacInv
<1>3. CASE BlockStep
  <2>1. SoFar(m')
    <3>1. SoFar(TakeBlock(m, fed)) /\ TakeBlock(m, fed) \in Mac
      BY <1>1, <1>3, BlockKeeps, TakeBlockFacts DEF BlockStep
    <3> QED
      BY <3>1, <1>3, BoundaryKeeps DEF BlockStep
  <2>2. ~over'
    BY <1>3 DEF BlockStep, MacInv
  <2> QED
    BY <2>1, <2>2 DEF MacInv
<1>4. CASE ByteStep
  <2>1. SoFar(m')
    <3>1. SoFar(TakeByte(m, fed)) /\ TakeByte(m, fed) \in Mac
      BY <1>1, ByteKeeps, TakeByteFacts
    <3> QED
      BY <3>1, <1>4, BoundaryKeeps DEF ByteStep
  <2>2. ~over'
    BY <1>4 DEF ByteStep, MacInv
  <2> QED
    BY <2>1, <2>2 DEF MacInv
<1>5. CASE Finish
  BY <1>1, <1>5, FinishIsMeta DEF Finish, MacInv
<1>6. CASE UNCHANGED vars
  BY <1>6 DEF vars, MacInv
<1> QED
  BY <1>2, <1>3, <1>4, <1>5, <1>6 DEF Next

\* For every block, chunk size and growth, every length and every cut of the data
\* into calls of update, finish returns the MAC that MEGA defines of the bytes fed
\* (crypto.rs:192-290): a resumed download is verified as an unbroken one is.
THEOREM MacIsTheReference == Spec => []SplitIndependent
<1>1. Init => SoFar(m) /\ ~over
  BY MacInit DEF Init
<1>2. MacInv => SplitIndependent
  BY DEF MacInv, SplitIndependent
<1>3. Init /\ TypeOK /\ BoundaryAhead => MacInv
  BY <1>1 DEF MacInv
<1> QED
  BY <1>2, <1>3, MacNext, BoundaryAlwaysAhead, PTL DEF Spec

=============================================================================
