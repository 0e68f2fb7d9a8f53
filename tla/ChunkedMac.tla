----------------------------- MODULE ChunkedMac -----------------------------
(***************************************************************************)
(* The chunked CBC-MAC of src/src/crypto.rs, fed with one file in calls of *)
(* any sizes, as fetch_range's reads and the resume loop of fetch_file     *)
(* feed it.                                                                *)
(*                                                                         *)
(* A byte is named by its offset in the file.  A 16-byte value of the code *)
(* is symbolic: what was encrypted so far, in order, and, for each byte of *)
(* the value, the set of file bytes XORed into it since (XORing a byte     *)
(* twice cancels it).  Encryption is then injective, as AES is.            *)
(***************************************************************************)
EXTENDS Naturals, Sequences, SequencesExt

CONSTANTS
  Block,      \* bytes in a cipher block (16)
  ChunkUnit,  \* bytes in the first chunk (128 KiB)
  Growth,     \* chunks that grow by ChunkUnit each (8)
  MaxLength   \* bound: the longest file

ASSUME MacAssumption ==
  /\ Block \in Nat \ {0} /\ ChunkUnit \in Nat \ {0} /\ Growth \in Nat \ {0}
  /\ ChunkUnit % Block = 0
  /\ MaxLength \in Nat

VARIABLES
  m,     \* the ChunkedMac
  fed,   \* bytes of the file given to update and consumed by it
  rest,  \* bytes of the current call's data still to consume
  out,   \* what finish returned
  over   \* finish has been called

vars == <<m, fed, rest, out, over>>

-----------------------------------------------------------------------------
Xor(a, b) == (a \ b) \cup (b \ a)

\* mac_chunk_size
MacChunkSize(idx) == IF idx < Growth THEN (idx + 1) * ChunkUnit ELSE Growth * ChunkUnit

Zero == [i \in 0..Block - 1 |-> {}]

\* A value equal to the iv, and one that has been encrypted once more.
Iv == [done |-> <<>>, cur |-> Zero]
Encrypt(v) == [done |-> Append(v.done, v.cur), cur |-> Zero]

NewMac == [chunk_idx |-> 0, next_boundary |-> MacChunkSize(0), pos |-> 0,
           chunk |-> Iv, meta |-> <<>>]

\* close_chunk: the meta-MAC is the sequence of the chunk MACs folded in.
CloseChunk(s) ==
  [s EXCEPT !.meta = Append(@, s.chunk), !.chunk = Iv,
            !.chunk_idx = @ + 1,
            !.next_boundary = @ + MacChunkSize(s.chunk_idx + 1)]

\* The whole-block branch of update's loop, with data[0] the file's byte d.
FitsBlock(s, n) ==
  s.pos % Block = 0 /\ n >= Block /\ s.pos + Block <= s.next_boundary
TakeBlock(s, d) ==
  LET mixed == [i \in 0..Block - 1 |-> Xor(s.chunk.cur[i], {d + i})] IN
  [s EXCEPT !.chunk = Encrypt([done |-> s.chunk.done, cur |-> mixed]),
            !.pos = @ + Block]

\* The one-byte branch.
TakeByte(s, d) ==
  LET t == [s EXCEPT !.chunk.cur[s.pos % Block] = Xor(@, {d}), !.pos = @ + 1] IN
  IF t.pos % Block = 0 THEN [t EXCEPT !.chunk = Encrypt(@)] ELSE t

\* The end of the loop's body.
PastBoundary(s) == IF s.pos > s.next_boundary THEN CloseChunk(s) ELSE s
AtBoundary(s) == IF s.pos = s.next_boundary THEN CloseChunk(s) ELSE s

\* finish: pad the last block, fold an unfinished chunk.
Pad(s) ==
  IF s.pos % Block = 0 THEN s
  ELSE [s EXCEPT !.pos = s.pos + (Block - (s.pos % Block)), !.chunk = Encrypt(@)]
FoldEagerly(s) == CloseChunk(s).meta
FoldLast(s) ==
  IF s.pos > s.next_boundary - MacChunkSize(s.chunk_idx)
  THEN CloseChunk(s).meta ELSE s.meta

-----------------------------------------------------------------------------
Init == m = NewMac /\ fed = 0 /\ rest = 0 /\ out = <<>> /\ over = FALSE

\* A call of update with n bytes.
Update(n) ==
  /\ rest = 0 /\ ~over /\ fed + n <= MaxLength
  /\ rest' = n
  /\ UNCHANGED <<m, fed, out, over>>

BlockStep ==
  /\ rest > 0 /\ FitsBlock(m, rest)
  /\ m' = AtBoundary(TakeBlock(m, fed))
  /\ fed' = fed + Block /\ rest' = rest - Block
  /\ UNCHANGED <<out, over>>

ByteStep ==
  /\ rest > 0 /\ ~FitsBlock(m, rest)
  /\ m' = AtBoundary(TakeByte(m, fed))
  /\ fed' = fed + 1 /\ rest' = rest - 1
  /\ UNCHANGED <<out, over>>

\* finish consumes the MAC: nothing is fed to it afterwards.
Finish ==
  /\ rest = 0 /\ ~over
  /\ over' = TRUE
  /\ out' = FoldLast(Pad(m))
  /\ UNCHANGED <<m, fed, rest>>

Next == (\E n \in 1..MaxLength : Update(n)) \/ BlockStep \/ ByteStep \/ Finish

Spec == Init /\ [][Next]_vars

-----------------------------------------------------------------------------
(* The MAC as MEGA defines it ("128 KiB, 256 KiB, ... growing to 1 MiB,    *)
(* then 1 MiB forever"; "a CBC-MAC per chunk", zero padded).               *)

\* Where chunk i begins, counting from 0: behind chunks of 1, 2, ... Growth units
\* and then of Growth units each.
ChunkStart(i) ==
  LET grown == IF i < Growth THEN i ELSE Growth
  IN  ChunkUnit * ((grown * (grown + 1)) \div 2 + (i - grown) * Growth)

\* The CBC-MAC of the bytes from .. to - 1, zero padded to whole blocks.
CbcMac(from, to) ==
  [done |-> [b \in 1..((to - from + Block - 1) \div Block) |->
              [i \in 0..Block - 1 |->
                LET p == from + (b - 1) * Block + i IN IF p < to THEN {p} ELSE {}]],
   cur |-> Zero]

\* The number of chunks that begin before byte n.
Chunks(n) == CHOOSE c \in 0..n : ChunkStart(c) >= n /\ \A d \in 0..c - 1 : ChunkStart(d) < n

MetaMac(n) ==
  [c \in 1..Chunks(n) |->
    CbcMac(ChunkStart(c - 1), IF ChunkStart(c) < n THEN ChunkStart(c) ELSE n)]

-----------------------------------------------------------------------------
Value == [done : Seq([0..Block - 1 -> SUBSET Nat]), cur : [0..Block - 1 -> SUBSET Nat]]

Mac == [chunk_idx : Nat, next_boundary : Nat, pos : Nat, chunk : Value, meta : Seq(Value)]

TypeOK ==
  /\ m \in Mac
  /\ fed \in Nat /\ rest \in Nat /\ out \in Seq(Value) /\ over \in BOOLEAN

\* The chunk being built is the one that holds pos: its boundary is ahead of
\* pos and the last one is not, so neither branch of update can run past a
\* boundary without closing the chunk, however the data was cut into calls.
BoundaryAhead ==
  /\ m.pos < m.next_boundary
  /\ m.next_boundary <= m.pos + MacChunkSize(m.chunk_idx)
  /\ m.pos = fed

\* The MAC after n bytes does not depend on the reads they came in (a resume
\* feeds them in other sizes than the download did): it is the reference MAC.
SplitIndependent == over => out = MetaMac(fed)

=============================================================================
