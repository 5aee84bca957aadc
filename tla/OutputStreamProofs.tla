------------------------- MODULE OutputStreamProofs -------------------------
(***************************************************************************)
(* Proofs about OutputStream, for every chunk, packet and block size and   *)
(* every bound: what flush promises, the checksums, the packets a pipeline *)
(* is given, and what close leaves at the namenode.                        *)
(*                                                                         *)
(* The inductive invariant says, for a stream that is open and has thrown  *)
(* no exception, where the bytes that append took are: in the blocks       *)
(* before the current one (base), handed over to the pipeline (fed), in    *)
(* the packet being filled, or in the buffer of the partial chunk.         *)
(***************************************************************************)
EXTENDS OutputStream, TLAPS

-----------------------------------------------------------------------------
(* The inductive invariant.                                                *)

Chunks == [len : Nat, sum : Nat]
Packets == [off : Int, max : Nat, chunks : Seq(Chunks), data : Nat]

FlagsOK ==
    closed \in BOOLEAN /\ lastError \in BOOLEAN /\ isAppend \in BOOLEAN /\ pipeline \in BOOLEAN

TypeOK ==
    /\ FlagsOK
    /\ chunkSize \in Nat /\ chunksPerPacket \in Nat
    /\ position \in Nat /\ bytesWritten \in Nat /\ checksum \in Nat
    /\ cursor \in Nat /\ lastFlushed \in Nat
    /\ currentPacket \in Packets /\ packet \in Packets
    /\ lastBlock \in [start : Int, len : Nat]
    /\ pc \in {"idle", "append", "send", "closeBlock", "complete"}
    /\ size \in Nat /\ todo \in Nat
    /\ fed \in Nat /\ acked \in Nat /\ base \in Nat /\ accepted \in Nat
    /\ file \in [st : {"none", "open", "complete"}, len : Nat]
    /\ lease \in Int /\ opens \in Nat

\* The stream is open, has thrown nothing and is not past its last block.
Working == ~closed /\ ~lastError /\ pc # "complete"

\* A stream that is not open is as the constructor left it.
ClosedIsReset ==
    /\ closed =>
        /\ ~lastError /\ ~isAppend /\ pc = "idle"
        /\ chunkSize = 0 /\ chunksPerPacket = 0
        /\ position = 0 /\ bytesWritten = 0 /\ currentPacket = NoPacket /\ checksum = 0
        /\ cursor = 0 /\ lastFlushed = 0 /\ lastBlock = NoBlock
        /\ ~pipeline /\ fed = 0 /\ acked = 0 /\ packet = NoPacket
    /\ lastError => pc = "idle"
    /\ ~closed => file.st = "open"

SumsCover(p) == \A i \in DOMAIN p.chunks : p.chunks[i].sum = p.chunks[i].len

\* The checksum has seen what is in the buffer.
ChecksumInv ==
    /\ checksum = position
    /\ SumsCover(currentPacket) /\ SumsCover(packet)

\* The chunk being filled ends on a chunk boundary of the block, and inside of the
\* block; a chunk that is shorter than the others fills a packet of its own.
GeometryInv ==
    Working =>
        /\ chunkSize \in 1 .. ChunkSize /\ chunksPerPacket >= 1
        /\ position < chunkSize
        /\ ~isAppend => chunkSize = ChunkSize
        /\ chunkSize < ChunkSize => chunksPerPacket = 1
        /\ pc \in {"idle", "append"} =>
              /\ bytesWritten % ChunkSize = ChunkSize - chunkSize
              /\ bytesWritten < BlockSize
              /\ chunkSize < ChunkSize => currentPacket = NoPacket
              /\ currentPacket # NoPacket => ~IsFull(currentPacket)
        /\ pc = "send" =>
              /\ currentPacket # NoPacket /\ position = 0
              /\ bytesWritten <= BlockSize /\ bytesWritten % ChunkSize = 0
        /\ pc = "closeBlock" =>
              /\ currentPacket = NoPacket /\ position = 0 /\ ~isAppend /\ pipeline
              /\ bytesWritten = BlockSize

\* Every byte is counted once.
CountInv ==
    Working =>
        /\ base % BlockSize = 0
        /\ base + bytesWritten + position = cursor + (IF pc = "idle" THEN 0 ELSE size - todo)
        /\ pc # "idle" => todo <= size /\ size > 0
        /\ accepted = cursor /\ lastFlushed <= cursor

\* Where the next packet starts, how far the pipeline may have got, and where the file
\* ends for the namenode.
Start == IF currentPacket = NoPacket THEN bytesWritten ELSE currentPacket.off
Limit == bytesWritten + (IF currentPacket = NoPacket THEN position ELSE 0)
FileEnd == IF lastBlock = NoBlock THEN file.len ELSE lastBlock.start + lastBlock.len

\* What the pipeline got ends where the packet being filled starts, or inside of it,
\* or in the buffer when the partial chunk was flushed.  A block without a pipeline is
\* as it was found.
BlockInv ==
    Working =>
        /\ currentPacket # NoPacket => currentPacket.off >= 0 /\ End(currentPacket) = bytesWritten
        /\ pipeline =>
              /\ packet.off <= Start /\ acked <= fed
              /\ Start <= fed /\ fed <= Limit
        /\ ~pipeline =>
              /\ FileEnd = base + Start
              /\ IF isAppend THEN lastBlock.start = base /\ lastBlock.len = Start ELSE Start = 0

\* Nothing is left to send when lastFlushed is the cursor.
FlushedInv ==
    Working /\ pc = "idle" /\ lastFlushed = cursor =>
        /\ currentPacket = NoPacket
        /\ cursor = base + (IF pipeline THEN acked ELSE bytesWritten)

\* After the last block every byte is in a block.
CompleteInv == pc = "complete" => ~closed /\ ~lastError /\ accepted = FileEnd

IInv ==
    /\ TypeOK /\ ClosedIsReset /\ ChecksumInv /\ GeometryInv /\ CountInv /\ BlockInv
    /\ FlushedInv /\ CompleteInv /\ CloseEndsFile

-----------------------------------------------------------------------------
(* Remainders.                                                             *)

\* Division with remainder.
LEMMA DivMod ==
    ASSUME NEW m \in Nat \ {0}, NEW a \in Int
    PROVE  \E q \in Int : \E r \in 0 .. m - 1 : a = m * q + r /\ a % m = r
<1>1. a = m * (a \div m) + (a % m) /\ a % m \in 0 .. m - 1 /\ a \div m \in Int
  OBVIOUS
<1> QED
  BY <1>1, Zenon

\* The remainder is the only one.
LEMMA ModUnique ==
    ASSUME NEW m \in Nat \ {0}, NEW q \in Int, NEW r \in 0 .. m - 1
    PROVE  (m * q + r) % m = r
  OBVIOUS

\* A multiple of m does not change a remainder.
LEMMA ModAdd ==
    ASSUME NEW m \in Nat \ {0}, NEW a \in Int, NEW b \in Int, a % m = 0
    PROVE  (a + b) % m = b % m
<1>1. PICK j \in Int, s \in 0 .. m - 1 : a = m * j + s /\ a % m = s
  BY DivMod, Zenon
<1>2. PICK k \in Int, r \in 0 .. m - 1 : b = m * k + r /\ b % m = r
  BY DivMod, Zenon
<1> DEFINE q == j + k
<1>3. a + b = m * q + r /\ q \in Int
  BY <1>1, <1>2
<1> HIDE DEF q
<1>4. (m * q + r) % m = r
  BY <1>3, ModUnique, Zenon
<1> QED
  BY <1>2, <1>3, <1>4, Zenon

\* The next multiple of m after a is one, and is not after any other.
LEMMA NextMultiple ==
    ASSUME NEW m \in Nat \ {0}, NEW a \in Nat
    PROVE  /\ (a + (m - (a % m))) % m = 0
           /\ \A b \in Nat : b % m = 0 /\ a < b => a + (m - (a % m)) <= b
<1> a \in Int
  OBVIOUS
<1>1. PICK j \in Int, r \in 0 .. m - 1 : a = m * j + r /\ a % m = r
  BY DivMod, Zenon
<1> DEFINE q == j + 1
<1>2. a + (m - (a % m)) = m * q + 0 /\ q \in Int /\ 0 \in 0 .. m - 1
  BY <1>1
<1>3. ASSUME NEW b \in Nat, b % m = 0, a < b
      PROVE  a + (m - (a % m)) <= b
  <2> b \in Int
    OBVIOUS
  <2>1. PICK k \in Int, s \in 0 .. m - 1 : b = m * k + s /\ b % m = s
    BY DivMod, Zenon
  <2>2. j < k
    BY <1>1, <1>3, <2>1
  <2>3. m * (j + 1) <= m * k
    BY <2>2
  <2> QED
    BY <1>1, <1>3, <2>1, <2>3
<1> HIDE DEF q
<1>4. (m * q + 0) % m = 0
  BY <1>2, ModUnique, Zenon
<1> QED
  BY <1>2, <1>3, <1>4, Zenon

\* A multiple of a multiple of m is a multiple of m.
LEMMA ModOfMultiple ==
    ASSUME NEW m \in Nat \ {0}, NEW n \in Nat \ {0}, n % m = 0, NEW a \in Int, a % n = 0
    PROVE  a % m = 0
<1> n \in Int
  OBVIOUS
<1>1. PICK k \in Int, r \in 0 .. m - 1 : n = m * k + r /\ n % m = r
  BY DivMod, Zenon
<1>2. PICK j \in Int, s \in 0 .. n - 1 : a = n * j + s /\ a % n = s
  BY DivMod, Zenon
<1> DEFINE q == k * j
<1>3. a = m * q + 0 /\ q \in Int /\ 0 \in 0 .. m - 1
  BY <1>1, <1>2
<1> HIDE DEF q
<1>4. (m * q + 0) % m = 0
  BY <1>3, ModUnique, Zenon
<1> QED
  BY <1>3, <1>4, Zenon

\* What is left of a after its last whole multiple of m.
LEMMA ModRest ==
    ASSUME NEW m \in Nat \ {0}, NEW a \in Nat
    PROVE  a % m \in 0 .. m - 1 /\ a % m <= a /\ (a - (a % m)) % m = 0
<1> a \in Int
  OBVIOUS
<1>1. PICK j \in Int, r \in 0 .. m - 1 : a = m * j + r /\ a % m = r
  BY DivMod, Zenon
<1>2. a - (a % m) = m * j + 0 /\ 0 \in 0 .. m - 1
  BY <1>1
<1>3. (m * j + 0) % m = 0
  BY <1>2, ModUnique, Zenon
<1>4. j >= 0
  BY <1>1
<1>5. m * j >= 0
  BY <1>4
<1> QED
  BY <1>1, <1>2, <1>3, <1>5

-----------------------------------------------------------------------------
(* Packets.                                                                *)

\* A packet with one more chunk: it starts where it started, or at the chunk if it is
\* new, is longer by the chunk, and its checksums cover its chunks if this one's does.
LEMMA WithChunkFacts ==
    ASSUME TypeOK, NEW p \in Packets, NEW n \in Nat, NEW s \in Nat
    PROVE  /\ WithChunk(p, n, s) \in Packets
           /\ WithChunk(p, n, s) # NoPacket
           /\ WithChunk(p, n, s).off = IF p = NoPacket THEN bytesWritten ELSE p.off
           /\ WithChunk(p, n, s).data = IF p = NoPacket THEN n ELSE p.data + n
           /\ p = NoPacket /\ chunksPerPacket = 1 => IsFull(WithChunk(p, n, s))
           /\ SumsCover(p) /\ s = n => SumsCover(WithChunk(p, n, s))
<1> DEFINE q == IF p = NoPacket THEN NewPacket ELSE p
<1>1. q \in Packets /\ q.off = (IF p = NoPacket THEN bytesWritten ELSE p.off)
      /\ q.data = (IF p = NoPacket THEN 0 ELSE p.data)
      /\ (p = NoPacket => q.chunks = <<>> /\ q.max = chunksPerPacket)
      /\ (SumsCover(p) => SumsCover(q))
  BY DEF TypeOK, Packets, Chunks, NewPacket, EmptyPacket, SumsCover
<1> DEFINE chunk == [len |-> n, sum |-> s]
           c == Append(q.chunks, chunk)
           w == [q EXCEPT !.chunks = c, !.data = q.data + n]
<1>2. WithChunk(p, n, s) = w
  BY Zenon DEF WithChunk
<1> HIDE DEF q
<1>3. q.chunks \in Seq(Chunks) /\ chunk \in Chunks
  BY <1>1, Zenon DEF Packets, Chunks
<1> HIDE DEF chunk
<1>4. /\ c \in Seq(Chunks)
      /\ Len(c) = Len(q.chunks) + 1 /\ Len(q.chunks) \in Nat
      /\ \A i \in DOMAIN c : c[i] = chunk \/ (i \in DOMAIN q.chunks /\ c[i] = q.chunks[i])
  BY <1>3
<1> HIDE DEF c
<1>5. /\ w \in Packets /\ w.off = q.off /\ w.data = q.data + n /\ w.max = q.max
      /\ w.chunks = c
  <2> DEFINE d == q.data + n
  <2>1. d \in Nat
    BY <1>1 DEF Packets
  <2> HIDE DEF d
  <2>2. /\ [q EXCEPT !.chunks = c, !.data = d] \in Packets
        /\ [q EXCEPT !.chunks = c, !.data = d].off = q.off
        /\ [q EXCEPT !.chunks = c, !.data = d].data = d
        /\ [q EXCEPT !.chunks = c, !.data = d].max = q.max
        /\ [q EXCEPT !.chunks = c, !.data = d].chunks = c
    BY <1>1, <1>4, <2>1, Zenon DEF Packets
  <2> QED
    BY <2>2, Zenon DEF d
<1> HIDE DEF w
<1>6. w # NoPacket
  BY <1>4, <1>5 DEF NoPacket, EmptyPacket
<1>7. SumsCover(q) /\ s = n => SumsCover(w)
  BY <1>4, <1>5 DEF SumsCover, chunk
<1>8. p = NoPacket /\ chunksPerPacket = 1 => IsFull(w)
  BY <1>1, <1>4, <1>5 DEF IsFull
<1> QED
  BY <1>1, <1>2, <1>5, <1>6, <1>7, <1>8 DEF Packets

-----------------------------------------------------------------------------
(* The inductive invariant holds initially and is kept by every action.    *)

LEMMA NoPacketFacts == NoPacket \in Packets /\ SumsCover(NoPacket) /\ NoPacket.off = -1
  BY DEF NoPacket, EmptyPacket, Packets, Chunks, SumsCover

LEMMA InitInv == Init => IInv
<1> SUFFICES ASSUME Init PROVE IInv
  BY Zenon
<1> USE OutputStreamAssumption, NoPacketFacts
<1>1. TypeOK
  <2>1. FlagsOK
    BY Zenon DEF Init, FlagsOK
  <2> QED
    BY <2>1 DEF Init, TypeOK, NoBlock
<1>2. ClosedIsReset /\ CloseEndsFile
  BY Zenon DEF Init, ClosedIsReset, CloseEndsFile
<1>3. ChecksumInv
  BY Zenon DEF Init, ChecksumInv
<1>4. GeometryInv /\ CountInv /\ BlockInv /\ FlushedInv /\ CompleteInv
  BY Zenon DEF Init, GeometryInv, CountInv, BlockInv, FlushedInv, CompleteInv, Working
<1> QED
  BY <1>1, <1>2, <1>3, <1>4, Zenon DEF IInv

\* A stream that is not open afterwards needs only its reset fields.
LEMMA ResetInv ==
    ASSUME IInv, ResetStream, pc' = "idle",
           file' \in [st : {"none", "open", "complete"}, len : Nat],
           base' \in Nat, accepted' \in Nat, opens' \in Nat, size' \in Nat, todo' \in Nat,
           CloseEndsFile'
    PROVE  IInv'
<1> USE NoPacketFacts
<1>1. TypeOK'
  <2>1. FlagsOK'
    BY Zenon DEF ResetStream, NoPipeline, FlagsOK
  <2> QED
    BY <2>1 DEF ResetStream, NoPipeline, TypeOK, NoBlock, CloseEndsFile
<1>2. ClosedIsReset'
  BY Zenon DEF ResetStream, NoPipeline, ClosedIsReset
<1>3. ChecksumInv'
  BY Zenon DEF ResetStream, NoPipeline, ChecksumInv, SumsCover
<1>4. GeometryInv' /\ CountInv' /\ BlockInv' /\ FlushedInv' /\ CompleteInv'
  BY Zenon DEF ResetStream, GeometryInv, CountInv, BlockInv, FlushedInv, CompleteInv, Working
<1> QED
  BY <1>1, <1>2, <1>3, <1>4, Zenon DEF IInv

LEMMA OpenCreateInv == ASSUME IInv, OpenCreate PROVE IInv'
<1> USE OutputStreamAssumption, NoPacketFacts DEF IInv
<1>1. TypeOK'
  <2>1. FlagsOK'
    BY Zenon DEF TypeOK, FlagsOK, OpenCreate, DefaultGeometry, block
  <2> QED
    BY <2>1 DEF TypeOK, OpenCreate, DefaultGeometry, fill, call, block
<1>2. ClosedIsReset' /\ CompleteInv'
  BY Zenon DEF ClosedIsReset, CompleteInv, OpenCreate, DefaultGeometry, fill, call, block
<1>3. CloseEndsFile'
  BY DEF TypeOK, CloseEndsFile, OpenCreate
<1>4. ChecksumInv'
  BY Zenon DEF ChecksumInv, SumsCover, OpenCreate, fill, block
<1>5. 0 % ChunkSize = 0 /\ 0 % BlockSize = 0
  BY ModUnique
<1>6. GeometryInv'
  BY <1>5 DEF GeometryInv, TypeOK, ClosedIsReset, OpenCreate, DefaultGeometry, fill, call
<1>7. CountInv' /\ FlushedInv'
  BY <1>5 DEF CountInv, FlushedInv, TypeOK, ClosedIsReset, OpenCreate, fill, call, block
<1>8. BlockInv'
  BY DEF BlockInv, Start, Limit, FileEnd, TypeOK, ClosedIsReset, OpenCreate, DefaultGeometry,
     fill, call, block
<1> QED
  BY <1>1, <1>2, <1>3, <1>4, <1>6, <1>7, <1>8, Zenon

LEMMA OpenAppendInv == ASSUME IInv, OpenAppend PROVE IInv'
<1> USE OutputStreamAssumption, NoPacketFacts DEF IInv
<1> DEFINE used == file.len % BlockSize
<1>1. /\ used \in 0 .. BlockSize - 1 /\ used <= file.len /\ file.len \in Nat
      /\ (file.len - used) % BlockSize = 0
  BY ModRest, Zenon DEF TypeOK
<1>2. /\ file.len % ChunkSize = used % ChunkSize
      /\ file.len % ChunkSize \in 0 .. ChunkSize - 1
  <2>1. (file.len - used) % ChunkSize = 0
    BY <1>1, ModOfMultiple
  <2>2. ((file.len - used) + used) % ChunkSize = used % ChunkSize
    <3> DEFINE a == file.len - used
    <3>1. a \in Int /\ used \in Int /\ a % ChunkSize = 0
      BY <1>1, <2>1
    <3> HIDE DEF a, used
    <3> QED
      BY <3>1, ModAdd, Zenon DEF a
  <2>3. (file.len - used) + used = file.len
    BY <1>1
  <2> QED
    BY <1>1, <2>2, <2>3, ModRest, Zenon
<1>3. /\ chunkSize' \in 1 .. ChunkSize /\ chunksPerPacket' \in Nat \ {0}
      /\ chunkSize' < ChunkSize => chunksPerPacket' = 1
      /\ used % ChunkSize = ChunkSize - chunkSize'
      /\ \/ /\ isAppend' = TRUE
            /\ lastBlock' = [start |-> file.len - used, len |-> used]
         \/ /\ isAppend' = FALSE /\ chunkSize' = ChunkSize
            /\ used = 0 /\ lastBlock' = lastBlock
  <2>1. 0 % ChunkSize = 0
    BY ModUnique
  <2>2. CASE used > 0
    <3>1. AppendGeometry(file.len) /\ lastBlock' = [start |-> file.len - used, len |-> used]
      BY <2>2, Zenon DEF OpenAppend
    <3>2. file.len % ChunkSize = used % ChunkSize /\ file.len % ChunkSize \in 0 .. ChunkSize - 1
      BY <1>2, Zenon
    <3> HIDE DEF used
    <3> QED
      BY <3>1, <3>2 DEF AppendGeometry
  <2>3. CASE ~(used > 0)
    <3>1. DefaultGeometry /\ lastBlock' = lastBlock
      BY <2>3, Zenon DEF OpenAppend
    <3>2. used = 0
      BY <1>1, <2>3
    <3> HIDE DEF used
    <3> QED
      BY <2>1, <3>1, <3>2 DEF DefaultGeometry
  <2> QED
    BY <2>2, <2>3, Zenon
<1>4. bytesWritten' = used /\ base' = file.len - used
  BY Zenon DEF OpenAppend
<1> HIDE DEF used
<1>5. TypeOK'
  <2>1. FlagsOK'
    BY <1>3, Zenon DEF TypeOK, FlagsOK, OpenAppend, block
  <2>2. file' \in [st : {"none", "open", "complete"}, len : Nat]
    BY Zenon DEF TypeOK, OpenAppend
  <2>3. lastBlock' \in [start : Int, len : Nat]
    BY <1>1, <1>3 DEF TypeOK
  <2> QED
    BY <1>1, <1>3, <1>4, <2>1, <2>2, <2>3 DEF TypeOK, OpenAppend, call, block
<1>6. ClosedIsReset' /\ CompleteInv'
  BY Zenon DEF TypeOK, ClosedIsReset, CompleteInv, OpenAppend, call, block
<1>7. CloseEndsFile'
  BY DEF TypeOK, CloseEndsFile, OpenAppend
<1>8. ChecksumInv'
  BY Zenon DEF ChecksumInv, SumsCover, OpenAppend, block
<1>9. GeometryInv'
  BY <1>1, <1>3, <1>4 DEF GeometryInv, TypeOK, ClosedIsReset, OpenAppend, call
<1>10. CountInv' /\ FlushedInv'
  BY <1>1, <1>4 DEF CountInv, FlushedInv, TypeOK, ClosedIsReset, OpenAppend, call, block
<1>11. BlockInv'
  BY <1>1, <1>3, <1>4 DEF BlockInv, Start, Limit, FileEnd, NoBlock, TypeOK, ClosedIsReset,
     OpenAppend, call, block
<1> QED
  BY <1>5, <1>6, <1>7, <1>8, <1>9, <1>10, <1>11

LEMMA OpenAppendFailsInv == ASSUME IInv, OpenAppendFails PROVE IInv'
<1>1. CloseEndsFile'
  BY Zenon DEF IInv, TypeOK, CloseEndsFile, OpenAppendFails, ResetStream
<1> QED
  BY <1>1, ResetInv DEF IInv, TypeOK, OpenAppendFails, call

LEMMA AppendCallInv == ASSUME IInv, NEW n \in 1 .. MaxFile, AppendCall(n) PROVE IInv'
<1> USE OutputStreamAssumption DEF IInv, Running, geometry, fill, block
<1>1. TypeOK' /\ ClosedIsReset' /\ CloseEndsFile' /\ CompleteInv'
  BY DEF AppendCall, TypeOK, FlagsOK, ClosedIsReset, CloseEndsFile, CompleteInv, FileEnd
<1>2. ChecksumInv'
  BY Zenon DEF AppendCall, ChecksumInv, SumsCover
<1>3. GeometryInv' /\ FlushedInv'
  BY Zenon DEF AppendCall, GeometryInv, IsFull, FlushedInv, Working
<1>4. CountInv'
  BY DEF AppendCall, TypeOK, CountInv, Working
<1>5. BlockInv'
  BY Zenon DEF AppendCall, BlockInv, Start, Limit, FileEnd, End, Working
<1> QED
  BY <1>1, <1>2, <1>3, <1>4, <1>5, Zenon

\* The partial chunk, put into the packet being filled, ends with the last byte taken.
LEMMA PartialPacket ==
    ASSUME IInv, Working, pc = "idle"
    PROVE  LET w == WithChunk(currentPacket, position, checksum)
           IN  /\ w \in Packets /\ w # NoPacket /\ SumsCover(w)
               /\ w.off = Start /\ End(w) = bytesWritten + position
<1> DEFINE w == WithChunk(currentPacket, position, checksum)
<1>1. /\ w \in Packets /\ w # NoPacket
      /\ w.off = (IF currentPacket = NoPacket THEN bytesWritten ELSE currentPacket.off)
      /\ w.data = (IF currentPacket = NoPacket THEN position ELSE currentPacket.data + position)
      /\ SumsCover(w)
  <2>1. /\ TypeOK /\ currentPacket \in Packets /\ position \in Nat /\ checksum \in Nat
        /\ checksum = position /\ SumsCover(currentPacket)
    BY Zenon DEF IInv, TypeOK, ChecksumInv
  <2> QED
    BY <2>1, WithChunkFacts
<1> HIDE DEF w
<1>2. /\ position \in Nat /\ bytesWritten \in Nat /\ currentPacket \in Packets
      /\ currentPacket # NoPacket => currentPacket.off + currentPacket.data = bytesWritten
  BY Zenon DEF IInv, TypeOK, BlockInv, End
<1>3. w.off = Start /\ w.off + w.data = bytesWritten + position
  BY <1>1, <1>2 DEF Start, Packets
<1> QED
  BY <1>1, <1>3, Zenon DEF End, w

\* A packet that starts where the next one must and ends no earlier than what was
\* handed over: afterwards the block ends with it.
LEMMA SendsFacts ==
    ASSUME IInv, Working, NEW p \in Packets, p.off = Start, pipeline => fed <= End(p), Sends(p)
    PROVE  /\ pipeline' = TRUE /\ packet' = p /\ fed' = End(p) /\ fed' \in Nat
           /\ acked' \in Nat /\ acked' <= fed'
<1>1. Start \in Nat /\ fed \in Nat /\ acked \in Nat
  BY DEF IInv, TypeOK, BlockInv, Start, Limit, Packets
<1>2. End(p) \in Nat /\ Start <= End(p)
  BY <1>1 DEF End, Packets
<1>3. fed' = End(p)
  BY <1>1, <1>2 DEF Sends, Larger
<1>4. acked' \in Nat /\ acked' <= fed'
  BY <1>1, <1>2, <1>3 DEF Sends
<1> QED
  BY <1>2, <1>3, <1>4, Zenon DEF Sends

\* The chunk being filled fits into the block, and ends on a chunk boundary.
LEMMA ChunkFits ==
    ASSUME IInv, Working, pc \in {"idle", "append"}
    PROVE  /\ (bytesWritten + chunkSize) % ChunkSize = 0
           /\ bytesWritten + chunkSize <= BlockSize
<1> USE OutputStreamAssumption
<1>1. /\ bytesWritten \in Nat /\ chunkSize \in 1 .. ChunkSize /\ bytesWritten < BlockSize
      /\ bytesWritten % ChunkSize = ChunkSize - chunkSize
  BY Zenon DEF IInv, TypeOK, GeometryInv
<1>2. /\ (bytesWritten + (ChunkSize - (bytesWritten % ChunkSize))) % ChunkSize = 0
      /\ bytesWritten + (ChunkSize - (bytesWritten % ChunkSize)) <= BlockSize
  BY <1>1, NextMultiple, Zenon
<1>3. ChunkSize - (bytesWritten % ChunkSize) = chunkSize
  BY <1>1
<1> QED
  BY <1>2, <1>3, Zenon

LEMMA AppendReturnsInv == ASSUME IInv, AppendReturns PROVE IInv'
<1> USE OutputStreamAssumption DEF IInv, geometry, fill, block
<1>1. TypeOK' /\ ClosedIsReset' /\ CompleteInv'
  BY DEF AppendReturns, TypeOK, FlagsOK, ClosedIsReset, CompleteInv, FileEnd
<1>2. CloseEndsFile'
  BY Zenon DEF AppendReturns, ClosedIsReset, CloseEndsFile
<1>3. ChecksumInv'
  BY Zenon DEF AppendReturns, ChecksumInv, SumsCover
<1>4. GeometryInv'
  BY Zenon DEF AppendReturns, GeometryInv, Working
<1>5. CountInv' /\ FlushedInv'
  BY DEF AppendReturns, TypeOK, CountInv, FlushedInv, Working
<1>6. BlockInv'
  BY Zenon DEF AppendReturns, BlockInv, Start, Limit, FileEnd, End, Working
<1> QED
  BY <1>1, <1>2, <1>3, <1>4, <1>5, <1>6, Zenon

\* A stream that threw needs only its types and checksums.
LEMMA ThrowsInv ==
    ASSUME IInv, ~closed, Throws, pc' = "idle", UNCHANGED <<closed, file, lease>>,
           TypeOK', ChecksumInv'
    PROVE  IInv'
<1>1. ClosedIsReset' /\ CloseEndsFile' /\ CompleteInv'
  BY Zenon DEF IInv, Throws, ClosedIsReset, CloseEndsFile, CompleteInv
<1>2. ~Working'
  BY Zenon DEF Throws, Working
<1> QED
  BY <1>1, <1>2, Zenon DEF IInv, GeometryInv, CountInv, BlockInv, FlushedInv

LEMMA AppendChunkInv == ASSUME IInv, AppendChunk PROVE IInv'
<1> USE OutputStreamAssumption DEF IInv
<1>1. Working /\ pc = "append" /\ todo > 0 /\ ~closed /\ ~lastError
  BY Zenon DEF AppendChunk, Working, ClosedIsReset
<1>2. /\ chunkSize \in 1 .. ChunkSize /\ position \in Nat /\ position < chunkSize
      /\ todo \in Nat /\ bytesWritten \in Nat /\ checksum = position
      /\ SumsCover(currentPacket) /\ currentPacket \in Packets
  BY <1>1, Zenon DEF GeometryInv, TypeOK, ChecksumInv
<1> DEFINE room == chunkSize - position
           w == WithChunk(currentPacket, chunkSize, chunkSize)
           sends == currentPacket' # NoPacket /\ (IsFull(currentPacket') \/ BlockFull(bytesWritten'))
<1>3. /\ pc' = (IF sends THEN "send" ELSE "append")
      /\ UNCHANGED <<closed, lastError, isAppend, chunkSize, chunksPerPacket, cursor,
                     lastFlushed, lastBlock, size, pipeline, fed, acked, packet,
                     base, file, lease, opens, accepted>>
  BY Zenon DEF AppendChunk, geometry, block
<1>4. \/ /\ todo >= room
         /\ currentPacket' = w /\ bytesWritten' = bytesWritten + chunkSize
         /\ position' = 0 /\ checksum' = 0 /\ todo' = todo - room
      \/ /\ todo < room
         /\ position' = position + todo /\ checksum' = checksum + todo /\ todo' = 0
         /\ currentPacket' = currentPacket /\ bytesWritten' = bytesWritten
  BY <1>1, <1>2 DEF AppendChunk, Batch, Bypass, ChecksumReset
<1>5. /\ w \in Packets /\ w # NoPacket /\ SumsCover(w) /\ w.off = Start
      /\ w.data = (IF currentPacket = NoPacket THEN chunkSize ELSE currentPacket.data + chunkSize)
      /\ currentPacket = NoPacket /\ chunksPerPacket = 1 => IsFull(w)
  BY <1>2, WithChunkFacts DEF Start
<1>6. (bytesWritten + chunkSize) % ChunkSize = 0 /\ bytesWritten + chunkSize <= BlockSize
  BY <1>1, ChunkFits, Zenon
<1> HIDE DEF w, sends
<1>7. End(w) = bytesWritten + chunkSize
  <2>1. currentPacket # NoPacket => currentPacket.off + currentPacket.data = bytesWritten
    BY <1>1, Zenon DEF BlockInv, End
  <2> QED
    BY <1>2, <1>5, <2>1 DEF End, Start, Packets
<1>8. TypeOK' /\ ClosedIsReset' /\ CloseEndsFile' /\ CompleteInv'
  <2>1. FlagsOK'
    BY <1>3, Zenon DEF TypeOK, FlagsOK
  <2> QED
    BY <1>1, <1>2, <1>3, <1>4, <1>5, <2>1 DEF TypeOK, ClosedIsReset, CloseEndsFile, CompleteInv
<1>9. ChecksumInv'
  BY <1>2, <1>3, <1>4, <1>5, Zenon DEF ChecksumInv, SumsCover
<1>10. GeometryInv'
  <2>1. CASE todo >= room
    <3>1. /\ currentPacket' = w /\ bytesWritten' = bytesWritten + chunkSize /\ position' = 0
      BY <1>2, <1>4, <2>1
    <3>2. chunkSize < ChunkSize => sends
      BY <1>1, <1>5, <3>1, Zenon DEF GeometryInv, sends
    <3>3. ~sends => bytesWritten' # BlockSize
      BY <1>5, <3>1, Zenon DEF sends, BlockFull
    <3>4. ~sends => ~IsFull(currentPacket')
      BY <1>5, <3>1, Zenon DEF sends
    <3>5. IsFull(currentPacket)' <=> IsFull(currentPacket')
      BY Zenon DEF IsFull
    <3> QED
      BY <1>1, <1>2, <1>3, <1>5, <1>6, <3>1, <3>2, <3>3, <3>4, <3>5 DEF GeometryInv, Working
  <2>2. CASE todo < room
    <3>1. /\ currentPacket' = currentPacket /\ bytesWritten' = bytesWritten
          /\ position' = position + todo
      BY <1>2, <1>4, <2>2
    <3>2. ~sends
      BY <1>1, <3>1 DEF GeometryInv, TypeOK, BlockFull, sends
    <3>3. IsFull(currentPacket)' = IsFull(currentPacket)
      BY <3>1, Zenon DEF IsFull
    <3> QED
      BY <1>1, <1>2, <1>3, <2>2, <3>1, <3>2, <3>3 DEF GeometryInv, Working
  <2> QED
    BY <1>2, <2>1, <2>2
<1>11. CountInv'
  BY <1>1, <1>2, <1>3, <1>4 DEF CountInv, TypeOK, Working
<1>12. BlockInv'
  <2>1. Start' = Start /\ FileEnd' = FileEnd
    BY <1>3, <1>4, <1>5 DEF Start, FileEnd
  <2>2. currentPacket' # NoPacket => currentPacket'.off >= 0 /\ End(currentPacket') = bytesWritten'
    <3>1. Start >= 0 /\ (currentPacket # NoPacket => End(currentPacket) = bytesWritten)
      BY <1>1, <1>2 DEF BlockInv, Start
    <3> QED
      BY <1>4, <1>5, <1>7, <3>1 DEF Start
  <2>3. Limit <= Limit'
    BY <1>2, <1>4, <1>5 DEF Limit
  <2>4. fed \in Nat /\ Limit \in Nat /\ Limit' \in Nat
    BY <1>2, <1>4 DEF TypeOK, Limit
  <2>5. /\ pipeline =>
              /\ packet.off <= Start /\ acked <= fed
              /\ Start <= fed /\ fed <= Limit
        /\ ~pipeline =>
              /\ FileEnd = base + Start
              /\ IF isAppend THEN lastBlock.start = base /\ lastBlock.len = Start ELSE Start = 0
    BY <1>1, Zenon DEF BlockInv
  <2>6. End(currentPacket)' = End(currentPacket')
    BY Zenon DEF End
  <2> QED
    BY <1>2, <1>3, <2>1, <2>2, <2>3, <2>4, <2>5, <2>6 DEF BlockInv
<1>13. FlushedInv'
  BY <1>3, Zenon DEF FlushedInv
<1> QED
  BY <1>8, <1>9, <1>10, <1>11, <1>12, <1>13, Zenon

LEMMA SendFullInv == ASSUME IInv, SendFull PROVE IInv'
<1> USE OutputStreamAssumption, NoPacketFacts DEF IInv
<1>1. /\ Working /\ pc = "send" /\ ~closed /\ ~lastError
      /\ currentPacket # NoPacket /\ currentPacket \in Packets /\ position = 0
      /\ bytesWritten \in Nat /\ bytesWritten <= BlockSize /\ bytesWritten % ChunkSize = 0
  BY Zenon DEF SendFull, Working, ClosedIsReset, GeometryInv, TypeOK
<1>2. /\ UNCHANGED <<closed, position, bytesWritten, checksum, cursor, lastFlushed, lastBlock,
                     size, todo, base, file, lease, opens, accepted>>
  BY Zenon DEF SendFull
<1>3. CASE Throws /\ pc' = "idle" /\ UNCHANGED <<currentPacket, geometry, block>>
  <2>1. FlagsOK'
    BY <1>2, <1>3, Zenon DEF TypeOK, FlagsOK, Throws, geometry, block
  <2>2. TypeOK' /\ ClosedIsReset' /\ CloseEndsFile' /\ CompleteInv'
    BY <1>1, <1>2, <1>3, <2>1
       DEF TypeOK, ClosedIsReset, CloseEndsFile, CompleteInv, Throws, geometry, block
  <2>3. ChecksumInv'
    BY <1>2, <1>3, Zenon DEF ChecksumInv, SumsCover, block
  <2>4. ~Working'
    BY <1>3, Zenon DEF Throws, Working
  <2> QED
    BY <2>2, <2>3, <2>4 DEF GeometryInv, CountInv, BlockInv, FlushedInv
<1>4. CASE /\ Sends(currentPacket)
           /\ currentPacket' = NoPacket
           /\ IF isAppend THEN DefaultGeometry ELSE UNCHANGED geometry
           /\ pc' = IF BlockFull(bytesWritten) THEN "closeBlock" ELSE "append"
           /\ UNCHANGED lastError
  <2>1. /\ Start = currentPacket.off /\ End(currentPacket) = bytesWritten
        /\ pipeline => fed <= bytesWritten
    BY <1>1 DEF BlockInv, TypeOK, Start, Limit
  <2>2. /\ pipeline' = TRUE /\ packet' = currentPacket /\ fed' = bytesWritten
        /\ acked' \in Nat /\ acked' <= fed'
    BY <1>1, <1>4, <2>1, SendsFacts, Zenon
  <2>3. /\ isAppend' = FALSE /\ chunkSize' = ChunkSize
        /\ chunksPerPacket' \in Nat /\ chunksPerPacket' >= 1
    BY <1>1, <1>4 DEF DefaultGeometry, geometry, GeometryInv, TypeOK, FlagsOK
  <2>4. FlagsOK'
    BY <1>2, <1>4, <2>2, <2>3, Zenon DEF TypeOK, FlagsOK
  <2>5. TypeOK' /\ ClosedIsReset' /\ CloseEndsFile' /\ CompleteInv'
    BY <1>1, <1>2, <1>4, <2>2, <2>3, <2>4 DEF TypeOK, ClosedIsReset, CloseEndsFile, CompleteInv
  <2>6. ChecksumInv'
    BY <1>2, <1>4, <2>2 DEF ChecksumInv, SumsCover
  <2>7. GeometryInv'
    BY <1>1, <1>2, <1>4, <2>2, <2>3 DEF GeometryInv, BlockFull
  <2>8. CountInv' /\ FlushedInv'
    BY <1>1, <1>2, <1>4 DEF CountInv, FlushedInv, TypeOK
  <2>9. BlockInv'
    <3>1. currentPacket.off <= bytesWritten
      BY <1>1, <2>1 DEF End, Packets
    <3>2. Start' = bytesWritten /\ position' = 0 /\ currentPacket' = NoPacket /\ bytesWritten' = bytesWritten
      BY <1>1, <1>2, <1>4, Zenon DEF Start
    <3> QED
      BY <1>1, <2>2, <3>1, <3>2 DEF BlockInv, Limit
  <2> QED
    BY <2>5, <2>6, <2>7, <2>8, <2>9
<1> QED
  BY <1>3, <1>4, Zenon DEF SendFull

\* What flush sends: it starts where the next packet must and ends with the last byte.
FlushPacket(needSync) ==
    IF Buffered THEN WithChunk(currentPacket, position, checksum)
    ELSE IF currentPacket = NoPacket /\ needSync /\ pipeline THEN NewPacket
    ELSE currentPacket

LEMMA FlushPacketFacts ==
    ASSUME IInv, Working, pc = "idle", NEW needSync \in BOOLEAN
    PROVE  LET p == FlushPacket(needSync)
           IN  /\ p \in Packets /\ SumsCover(p)
               /\ p # NoPacket => p.off = Start /\ End(p) = bytesWritten + position
               /\ p = NoPacket => currentPacket = NoPacket /\ position = 0
<1>1. /\ position \in Nat /\ bytesWritten \in Nat /\ currentPacket \in Packets
      /\ chunksPerPacket \in Nat /\ SumsCover(currentPacket)
      /\ currentPacket # NoPacket => End(currentPacket) = bytesWritten
  BY Zenon DEF IInv, TypeOK, ChecksumInv, BlockInv
<1>2. CASE Buffered
  BY <1>2, PartialPacket, Zenon DEF FlushPacket
<1>3. CASE ~Buffered /\ currentPacket = NoPacket /\ needSync /\ pipeline
  <2>1. /\ NewPacket \in Packets /\ SumsCover(NewPacket) /\ NewPacket.off = bytesWritten
        /\ End(NewPacket) = bytesWritten
    BY <1>1 DEF NewPacket, EmptyPacket, Packets, SumsCover, End
  <2>2. NewPacket # NoPacket
    BY <1>1, <2>1, NoPacketFacts
  <2> QED
    BY <1>1, <1>3, <2>1, <2>2 DEF FlushPacket, Buffered, Start
<1>4. CASE ~Buffered /\ ~(currentPacket = NoPacket /\ needSync /\ pipeline)
  BY <1>1, <1>4 DEF FlushPacket, Buffered, Start
<1> QED
  BY <1>2, <1>3, <1>4, Zenon

\* What the pipeline has is within the bytes taken.
LEMMA FedBound ==
    ASSUME IInv, Working
    PROVE  pipeline => fed <= bytesWritten + position
  BY DEF IInv, TypeOK, BlockInv, Limit

LEMMA FlushInternalInv ==
    ASSUME IInv, NEW needSync \in BOOLEAN, FlushInternal(needSync)
    PROVE  IInv'
<1> USE OutputStreamAssumption, NoPacketFacts
<1>1. Working /\ pc = "idle" /\ ~closed /\ ~lastError
  BY Zenon DEF FlushInternal, Running, Working
<1>2. UNCHANGED <<closed, isAppend, chunkSize, chunksPerPacket, position, bytesWritten, checksum,
                  cursor, lastBlock, pc, size, todo, base, file, lease, opens, accepted>>
  BY Zenon DEF FlushInternal, geometry, call
<1> DEFINE p == FlushPacket(needSync)
<1>3. /\ p \in Packets /\ SumsCover(p)
      /\ p # NoPacket => p.off = Start /\ End(p) = bytesWritten + position
      /\ p = NoPacket => currentPacket = NoPacket /\ position = 0
  BY <1>1, FlushPacketFacts, Zenon
<1>4. /\ position \in Nat /\ bytesWritten \in Nat /\ base \in Nat /\ cursor \in Nat
      /\ fed \in Nat /\ acked \in Nat /\ Start \in Nat /\ Start <= bytesWritten
      /\ base + bytesWritten + position = cursor
  <2>1. /\ position \in Nat /\ bytesWritten \in Nat /\ base \in Nat /\ cursor \in Nat
        /\ fed \in Nat /\ acked \in Nat /\ currentPacket \in Packets
    BY Zenon DEF IInv, TypeOK
  <2>2. base + bytesWritten + position = cursor
    BY <1>1, <2>1 DEF IInv, CountInv
  <2>3. currentPacket # NoPacket =>
            currentPacket.off >= 0 /\ currentPacket.off + currentPacket.data = bytesWritten
    BY <1>1, Zenon DEF IInv, BlockInv, End
  <2>4. Start \in Nat /\ Start <= bytesWritten
    <3>1. currentPacket # NoPacket => currentPacket.off \in Int /\ currentPacket.data \in Nat
      BY <2>1, Zenon DEF Packets
    <3> QED
      BY <2>1, <2>3, <3>1 DEF Start
  <2> QED
    BY <2>1, <2>2, <2>4, Zenon
<1>5. \/ /\ lastFlushed = cursor
         /\ UNCHANGED <<lastFlushed, currentPacket, block, lastError>>
      \/ /\ lastFlushed' = cursor /\ currentPacket' = NoPacket /\ UNCHANGED lastError
         /\ IF p # NoPacket THEN Sends(p) /\ acked' = fed'
            ELSE acked' = fed /\ UNCHANGED <<pipeline, fed, packet>>
      \/ lastFlushed' = cursor /\ Throws /\ currentPacket' = p /\ UNCHANGED block
  BY Zenon DEF FlushInternal, FlushSkipped, FlushPacket
<1>6. CASE lastFlushed = cursor /\ UNCHANGED <<lastFlushed, currentPacket, block, lastError>>
  <2>1. UNCHANGED vars
    BY <1>2, <1>6 DEF vars, geometry, fill, call
  <2> QED
    BY <2>1 DEF IInv, vars, geometry, fill, call, block, TypeOK, FlagsOK, ClosedIsReset,
       ChecksumInv,
       SumsCover, GeometryInv, CountInv, BlockInv, FlushedInv, CompleteInv, CloseEndsFile,
       Working, Start, Limit, FileEnd, End, IsFull
<1>7. CASE lastFlushed' = cursor /\ Throws /\ currentPacket' = p /\ UNCHANGED block
  <2>1. FlagsOK'
    BY <1>2, <1>7 DEF IInv, TypeOK, FlagsOK, Throws, block
  <2>2. TypeOK'
    BY <1>2, <1>3, <1>4, <1>7, <2>1 DEF IInv, TypeOK, block
  <2>3. ChecksumInv'
    BY <1>2, <1>3, <1>7 DEF IInv, ChecksumInv, SumsCover, block
  <2> QED
    BY <1>1, <1>2, <1>7, <2>2, <2>3, ThrowsInv
<1>8. CASE /\ lastFlushed' = cursor /\ currentPacket' = NoPacket /\ UNCHANGED lastError
           /\ IF p # NoPacket THEN Sends(p) /\ acked' = fed'
              ELSE acked' = fed /\ UNCHANGED <<pipeline, fed, packet>>
  <2>1. /\ acked' = fed' /\ fed' \in Nat
        /\ packet' \in Packets /\ SumsCover(packet')
        /\ pipeline' => fed' = bytesWritten + position /\ packet'.off <= bytesWritten
        /\ ~pipeline' => ~pipeline /\ currentPacket = NoPacket /\ position = 0
        /\ pipeline' \in BOOLEAN
    <3>1. CASE p # NoPacket
      <4>1. pipeline' = TRUE /\ packet' = p /\ fed' = End(p) /\ fed' \in Nat
        BY <1>1, <1>3, <1>8, <3>1, FedBound, SendsFacts, Zenon
      <4> QED
        BY <1>3, <1>4, <1>8, <3>1, <4>1
    <3>2. CASE p = NoPacket
      <4>1. /\ pipeline \in BOOLEAN /\ packet \in Packets /\ SumsCover(packet)
            /\ pipeline => /\ packet.off <= Start /\ Start <= fed /\ fed <= Limit
        BY <1>1 DEF IInv, TypeOK, FlagsOK, ChecksumInv, BlockInv
      <4>2. Start = bytesWritten /\ Limit = bytesWritten
        BY <1>3, <1>4, <3>2 DEF Start, Limit
      <4> QED
        BY <1>3, <1>4, <1>8, <3>2, <4>1, <4>2
    <3> QED
      BY <3>1, <3>2
  <2>2. FlagsOK'
    BY <1>2, <1>8, <2>1 DEF IInv, TypeOK, FlagsOK
  <2>3. TypeOK'
    BY <1>2, <1>4, <1>8, <2>1, <2>2 DEF IInv, TypeOK
  <2>4. ClosedIsReset' /\ CloseEndsFile' /\ CompleteInv'
    BY <1>1, <1>2, <1>8, Zenon DEF IInv, ClosedIsReset, CloseEndsFile, CompleteInv
  <2>5. ChecksumInv'
    BY <1>2, <1>8, <2>1 DEF IInv, ChecksumInv, SumsCover
  <2>6. GeometryInv'
    BY <1>1, <1>2, <1>8 DEF IInv, GeometryInv, Working
  <2>7. CountInv'
    BY <1>1, <1>2, <1>4, <1>8 DEF IInv, CountInv, Working
  <2>8. FlushedInv'
    <3>1. cursor = base + (IF pipeline' THEN acked' ELSE bytesWritten)
      <4>1. CASE pipeline'
        BY <1>4, <2>1, <4>1
      <4>2. CASE ~pipeline'
        BY <1>4, <2>1, <4>2
      <4> QED
        BY <4>1, <4>2, Zenon
    <3> QED
      BY <1>2, <1>8, <3>1 DEF FlushedInv
  <2>9. BlockInv'
    <3>1. Start' = bytesWritten /\ Limit' = bytesWritten + position /\ FileEnd' = FileEnd
      BY <1>2, <1>8 DEF Start, Limit, FileEnd
    <3>2. ~pipeline' =>
              /\ FileEnd = base + bytesWritten
              /\ IF isAppend THEN lastBlock.start = base /\ lastBlock.len = bytesWritten
                 ELSE bytesWritten = 0
      BY <1>1, <2>1 DEF IInv, BlockInv, Start
    <3> QED
      BY <1>2, <1>4, <1>8, <2>1, <3>1, <3>2 DEF BlockInv
  <2> QED
    BY <2>3, <2>4, <2>5, <2>6, <2>7, <2>8, <2>9 DEF IInv
<1> HIDE DEF p
<1> QED
  BY <1>5, <1>6, <1>7, <1>8, Zenon

LEMMA CloseBlockInv == ASSUME IInv, CloseBlock PROVE IInv'
<1> USE OutputStreamAssumption, NoPacketFacts
<1>1. /\ Working /\ pc = "closeBlock" /\ ~closed /\ ~lastError
      /\ currentPacket = NoPacket /\ position = 0 /\ ~isAppend /\ pipeline
      /\ bytesWritten = BlockSize /\ chunkSize = ChunkSize
  BY DEF IInv, CloseBlock, Working, ClosedIsReset, GeometryInv
<1>2. UNCHANGED <<closed, isAppend, chunkSize, chunksPerPacket, position, currentPacket, checksum,
                  cursor, lastFlushed, size, todo, file, lease, opens, accepted>>
  BY Zenon DEF CloseBlock, geometry
<1>3. fed = BlockSize /\ base \in Nat /\ base % BlockSize = 0
  BY <1>1 DEF IInv, TypeOK, BlockInv, CountInv, Start, Limit
<1>4. CASE /\ Throws /\ pc' = "idle" /\ UNCHANGED bytesWritten
           /\ ClosesBlock(fed) \/ UNCHANGED <<block, lastBlock, base>>
  <2>1. /\ pipeline' \in BOOLEAN /\ fed' \in Nat /\ acked' \in Nat
        /\ packet' \in Packets /\ SumsCover(packet')
        /\ lastBlock' \in [start : Int, len : Nat] /\ base' \in Nat
    <3>1. CASE ClosesBlock(fed)
      <4>1. /\ pipeline' = FALSE /\ fed' = 0 /\ acked' = 0 /\ packet' = NoPacket
            /\ lastBlock' = [start |-> base, len |-> BlockSize] /\ base' = base + BlockSize
        BY <1>3, <3>1 DEF ClosesBlock, NoPipeline
      <4>2. lastBlock' \in [start : Int, len : Nat] /\ base' \in Nat
        BY <1>3, <4>1
      <4> QED
        BY <4>1, <4>2, Zenon
    <3>2. CASE UNCHANGED <<block, lastBlock, base>>
      BY <3>2 DEF IInv, TypeOK, FlagsOK, ChecksumInv, block
    <3> QED
      BY <1>4, <3>1, <3>2
  <2>2. FlagsOK'
    BY <1>2, <1>4, <2>1 DEF IInv, TypeOK, FlagsOK, Throws
  <2>3. TypeOK'
    BY <1>2, <1>4, <2>1, <2>2 DEF IInv, TypeOK
  <2>4. ChecksumInv'
    BY <1>2, <2>1 DEF IInv, ChecksumInv, SumsCover
  <2> QED
    BY <1>1, <1>2, <1>4, <2>3, <2>4, ThrowsInv, Zenon
<1>5. CASE ClosesBlock(fed) /\ bytesWritten' = 0 /\ pc' = "append" /\ UNCHANGED lastError
  <2>1. /\ pipeline' = FALSE /\ fed' = 0 /\ acked' = 0 /\ packet' = NoPacket
        /\ lastBlock' = [start |-> base, len |-> BlockSize] /\ base' = base + BlockSize
    BY <1>3, <1>5 DEF ClosesBlock, NoPipeline
  <2>2. base' % BlockSize = 0 /\ 0 % ChunkSize = 0
    <3>1. BlockSize % BlockSize = 0
      <4>1. (BlockSize * 1 + 0) % BlockSize = 0
        BY ModUnique
      <4> QED
        BY <4>1
    <3>2. (base + BlockSize) % BlockSize = BlockSize % BlockSize
      <4>1. base \in Int /\ BlockSize \in Int
        BY <1>3
      <4> QED
        BY <1>3, <4>1, ModAdd, Zenon
    <3> QED
      BY <2>1, <3>1, <3>2, ModUnique
  <2>3. FlagsOK'
    BY <1>2, <1>5, <2>1, Zenon DEF IInv, TypeOK, FlagsOK
  <2>4. TypeOK'
    BY <1>2, <1>3, <1>5, <2>1, <2>3 DEF IInv, TypeOK
  <2>5. ClosedIsReset' /\ CloseEndsFile' /\ CompleteInv'
    BY <1>1, <1>2, <1>5, Zenon DEF IInv, ClosedIsReset, CloseEndsFile, CompleteInv
  <2>6. ChecksumInv'
    BY <1>2, <2>1 DEF IInv, ChecksumInv, SumsCover
  <2>7. GeometryInv'
    BY <1>1, <1>2, <1>5, <2>2 DEF IInv, GeometryInv
  <2>8. CountInv' /\ FlushedInv'
    BY <1>1, <1>2, <1>3, <1>5, <2>1, <2>2 DEF IInv, TypeOK, CountInv, FlushedInv
  <2>9. BlockInv'
    <3>1. Start' = 0 /\ FileEnd' = base'
      BY <1>1, <1>2, <1>3, <1>5, <2>1 DEF Start, FileEnd, NoBlock
    <3> QED
      BY <1>1, <1>2, <1>3, <2>1, <3>1 DEF BlockInv
  <2> QED
    BY <2>4, <2>5, <2>6, <2>7, <2>8, <2>9 DEF IInv
<1> QED
  BY <1>4, <1>5 DEF CloseBlock

\* What close sends ends with the last byte; when it sends nothing, every byte is in
\* the pipeline or in the file.
LEMMA RestFacts ==
    ASSUME IInv, Working, pc = "idle"
    PROVE  /\ Rest \in Packets /\ SumsCover(Rest)
           /\ Rest # NoPacket => lastFlushed # cursor /\ End(Rest) = bytesWritten + position
           /\ Rest = NoPacket /\ pipeline => fed = bytesWritten + position
           /\ Rest = NoPacket /\ ~pipeline => FileEnd = accepted
<1>1. /\ position \in Nat /\ bytesWritten \in Nat /\ base \in Nat /\ cursor \in Nat
      /\ fed \in Nat /\ acked \in Nat
      /\ currentPacket \in Packets /\ SumsCover(currentPacket)
  BY DEF IInv, TypeOK, ChecksumInv
<1>2. base + bytesWritten + position = cursor /\ accepted = cursor
  BY <1>1 DEF IInv, CountInv
<1>3. lastFlushed = cursor =>
          currentPacket = NoPacket /\ cursor = base + (IF pipeline THEN acked ELSE bytesWritten)
  BY Zenon DEF IInv, FlushedInv
<1>4. /\ currentPacket # NoPacket => End(currentPacket) = bytesWritten
      /\ pipeline => acked <= fed /\ Start <= fed /\ fed <= Limit
      /\ ~pipeline => FileEnd = base + Start
  BY Zenon DEF IInv, BlockInv
<1>5. CASE lastFlushed # cursor /\ Buffered
  BY <1>5, PartialPacket DEF Rest
<1>6. CASE lastFlushed = cursor
  <2>1. Rest = NoPacket /\ currentPacket = NoPacket
    BY <1>3, <1>6 DEF Rest
  <2> QED
    BY <1>1, <1>2, <1>3, <1>4, <1>6, <2>1 DEF Start, Limit
<1>7. CASE lastFlushed # cursor /\ ~Buffered
  <2>1. Rest = currentPacket /\ position = 0
    BY <1>1, <1>7 DEF Rest, Buffered
  <2> QED
    BY <1>1, <1>2, <1>4, <1>7, <2>1 DEF Start, Limit
<1> QED
  BY <1>5, <1>6, <1>7

LEMMA CloseInv == ASSUME IInv, Close PROVE IInv'
<1> USE NoPacketFacts
<1> DEFINE open == pipeline \/ (lastFlushed # cursor /\ Rest # NoPacket)
           f == IF Rest # NoPacket THEN End(Rest) ELSE fed
<1>1. ~closed /\ pc = "idle" /\ UNCHANGED <<size, todo, file, opens, accepted>>
  BY DEF Close
<1>2. CASE ResetStream /\ StopsRenew(TRUE) /\ pc' = "idle" /\ UNCHANGED base
  <2>1. lease = 1 /\ file.st = "open"
    BY <1>1 DEF IInv, CloseEndsFile, ClosedIsReset
  <2>2. CloseEndsFile'
    BY <1>1, <1>2, <2>1 DEF CloseEndsFile, StopsRenew, ResetStream
  <2> QED
    BY <1>1, <1>2, <2>2, ResetInv DEF IInv, TypeOK
<1>3. CASE /\ ~lastError
           /\ IF open THEN ClosesBlock(f) /\ bytesWritten' = 0
              ELSE UNCHANGED <<block, lastBlock, base, bytesWritten>>
           /\ currentPacket' = IF open THEN NoPacket ELSE Rest
           /\ pc' = "complete"
           /\ UNCHANGED <<closed, lastError, geometry, position, checksum, cursor, lastFlushed, lease>>
  <2>1. Working
    BY <1>1, <1>3, Zenon DEF Working
  <2>2. /\ Rest \in Packets /\ SumsCover(Rest)
        /\ Rest # NoPacket => lastFlushed # cursor /\ End(Rest) = bytesWritten + position
        /\ Rest = NoPacket /\ pipeline => fed = bytesWritten + position
        /\ Rest = NoPacket /\ ~pipeline => FileEnd = accepted
    BY <1>1, <2>1, RestFacts
  <2>3. /\ position \in Nat /\ bytesWritten \in Nat /\ base \in Nat
        /\ base + bytesWritten + position = accepted
    BY <1>1, <2>1 DEF IInv, TypeOK, CountInv
  <2>4. /\ pipeline' \in BOOLEAN /\ fed' \in Nat /\ acked' \in Nat
        /\ packet' \in Packets /\ SumsCover(packet')
        /\ lastBlock' \in [start : Int, len : Nat] /\ base' \in Nat /\ bytesWritten' \in Nat
        /\ currentPacket' \in Packets /\ SumsCover(currentPacket')
        /\ FileEnd' = accepted
    <3>1. CASE open
      <4>1. f = bytesWritten + position
        BY <2>2, <3>1, Zenon
      <4>2. /\ pipeline' = FALSE /\ fed' = 0 /\ acked' = 0 /\ packet' = NoPacket
            /\ lastBlock' = [start |-> base, len |-> f] /\ base' = base + f
            /\ bytesWritten' = 0 /\ currentPacket' = NoPacket
        BY <1>3, <3>1, Zenon DEF ClosesBlock, NoPipeline
      <4> HIDE DEF f, open
      <4>3. FileEnd' = accepted
        BY <2>3, <4>1, <4>2 DEF FileEnd, NoBlock
      <4>4. lastBlock' \in [start : Int, len : Nat] /\ base' \in Nat
        BY <2>3, <4>1, <4>2
      <4> QED
        BY <4>2, <4>3, <4>4, Zenon
    <3>2. CASE ~open
      <4>1. UNCHANGED <<pipeline, fed, acked, packet, lastBlock, base, bytesWritten>> /\ currentPacket' = Rest
        BY <1>3, <3>2 DEF block
      <4>2. FileEnd = accepted
        BY <2>2, <3>2
      <4> HIDE DEF open
      <4>3. FileEnd' = FileEnd
        BY <1>1, <4>1 DEF FileEnd
      <4> QED
        BY <2>2, <4>1, <4>2, <4>3 DEF IInv, TypeOK, FlagsOK, ChecksumInv, SumsCover
    <3> QED
      BY <3>1, <3>2, Zenon
  <2>5. FlagsOK'
    BY <1>3, <2>4 DEF IInv, TypeOK, FlagsOK, geometry
  <2>6. TypeOK'
    BY <1>1, <1>3, <2>4, <2>5 DEF IInv, TypeOK, geometry
  <2>7. ClosedIsReset' /\ CloseEndsFile' /\ CompleteInv'
    BY <1>1, <1>3, <2>4 DEF IInv, ClosedIsReset, CloseEndsFile, CompleteInv
  <2>8. ChecksumInv'
    BY <1>3, <2>4, Zenon DEF IInv, ChecksumInv, SumsCover
  <2>9. ~Working'
    BY <1>3, Zenon DEF Working
  <2> QED
    BY <2>6, <2>7, <2>8, <2>9 DEF IInv, GeometryInv, CountInv, BlockInv, FlushedInv
<1> HIDE DEF open, f
<1> QED
  BY <1>2, <1>3 DEF Close, Finished, StopsRenew, open, f

LEMMA CompleteStepInv == ASSUME IInv, Complete PROVE IInv'
<1>1. /\ ~closed /\ accepted = FileEnd /\ lease = 1 /\ file.st = "open" /\ FileEnd \in Nat
  BY Zenon DEF IInv, TypeOK, Complete, CompleteInv, CloseEndsFile, ClosedIsReset
<1>2. /\ ResetStream /\ lease' = lease - 1 /\ pc' = "idle"
      /\ UNCHANGED <<size, todo, base, opens, accepted>>
      /\ file' = [st |-> "complete", len |-> FileEnd] \/ file' = file
  BY Zenon DEF Complete, Finished, StopsRenew, FileEnd
<1>3. CloseEndsFile'
  BY <1>1, <1>2 DEF CloseEndsFile, ResetStream
<1>4. file' \in [st : {"none", "open", "complete"}, len : Nat]
  BY <1>1, <1>2 DEF IInv, TypeOK
<1> QED
  BY <1>2, <1>3, <1>4, ResetInv DEF IInv, TypeOK

LEMMA StutterInv == ASSUME IInv, UNCHANGED vars PROVE IInv'
<1>1. UNCHANGED <<closed, lastError, isAppend, chunkSize, chunksPerPacket, position, bytesWritten,
                  currentPacket, checksum, cursor, lastFlushed, lastBlock, pc, size, todo,
                  pipeline, fed, acked, packet, base, file, lease, opens, accepted>>
  BY Zenon DEF vars, geometry, fill, call, block
<1>2. (Working' <=> Working) /\ Start' = Start /\ Limit' = Limit /\ FileEnd' = FileEnd
  BY <1>1, Zenon DEF Working, Start, Limit, FileEnd
<1>3. TypeOK' BY <1>1, Zenon DEF IInv, TypeOK, FlagsOK
<1>4. ClosedIsReset' BY <1>1, Zenon DEF IInv, ClosedIsReset
<1>5. ChecksumInv' BY <1>1, Zenon DEF IInv, ChecksumInv
<1>6. GeometryInv' BY <1>1, <1>2, Zenon DEF IInv, GeometryInv
<1>7. CountInv' BY <1>1, <1>2, Zenon DEF IInv, CountInv
<1>8. BlockInv' BY <1>1, <1>2, Zenon DEF IInv, BlockInv
<1>9. FlushedInv' BY <1>1, <1>2, Zenon DEF IInv, FlushedInv
<1>10. CompleteInv' BY <1>1, <1>2, Zenon DEF IInv, CompleteInv
<1>11. CloseEndsFile' BY <1>1, Zenon DEF IInv, CloseEndsFile
<1> QED BY <1>3, <1>4, <1>5, <1>6, <1>7, <1>8, <1>9, <1>10, <1>11, Zenon DEF IInv

LEMMA NextInv == ASSUME IInv, [Next]_vars PROVE IInv'
  BY OpenCreateInv, OpenAppendInv, OpenAppendFailsInv, AppendCallInv, AppendChunkInv,
     SendFullInv, AppendReturnsInv, FlushInternalInv, CloseBlockInv, CloseInv,
     CompleteStepInv, StutterInv, Zenon DEF Next

-----------------------------------------------------------------------------
(* The theorems.                                                           *)

\* The inductive invariant: the bytes that append took are in a block, in the pipeline,
\* in the packet or in the buffer, each once, and every chunk is aligned in its block.
THEOREM BytesAreCounted == Spec => []IInv
<1> QED
  BY InitInv, NextInv, PTL DEF Spec

\* The early return of flush: after flush nothing is left that is not acked.
THEOREM FlushSafe == Spec => []FlushedIsDurable
<1>1. IInv => FlushedIsDurable
  BY Zenon DEF IInv, FlushedInv, FlushedIsDurable, Running, Working
<1> QED
  BY <1>1, BytesAreCounted, PTL

\* Every chunk is sent with the checksum of its bytes, and is aligned.
THEOREM ChecksumSafe == Spec => []ChecksumCoversChunk
<1>1. IInv => ChecksumCoversChunk
  <2> SUFFICES ASSUME IInv PROVE ChecksumCoversChunk
    BY Zenon
  <2>1. Running /\ ~isAppend => bytesWritten % ChunkSize = 0 /\ chunkSize = ChunkSize
    BY OutputStreamAssumption DEF IInv, TypeOK, GeometryInv, Running, Working
  <2> QED
    BY <2>1, Zenon DEF IInv, ChecksumInv, SumsCover, ChecksumCoversChunk
<1> QED
  BY <1>1, BytesAreCounted, PTL

\* close gives the lease up, and a file that is complete has every byte append took.
THEOREM CloseSafe == Spec => []CloseEndsFile
<1>1. IInv => CloseEndsFile
  BY Zenon DEF IInv
<1> QED
  BY <1>1, BytesAreCounted, PTL

\* What a step hands over, if it hands over anything.
LEMMA HandsOver ==
    ASSUME IInv, [Next]_vars, pipeline', ~pipeline \/ packet' # packet
    PROVE  /\ ~closed /\ Working /\ packet'.off = Start
           /\ pipeline => fed <= End(packet')
           /\ End(packet') <= BlockSize
<1> USE OutputStreamAssumption
<1>1. SendFull \/ \E needSync \in BOOLEAN : FlushInternal(needSync)
  <2>1. closed => ~pipeline
    BY Zenon DEF IInv, ClosedIsReset
  <2>2. ~(UNCHANGED block)
    BY Zenon DEF block
  <2>3. ~NoPipeline
    BY Zenon DEF NoPipeline
  <2>4. ~OpenCreate /\ ~OpenAppend /\ ~OpenAppendFails
    BY <2>2, <2>3, Zenon DEF OpenCreate, OpenAppend, OpenAppendFails, ResetStream
  <2>5. ~(\E n \in 1 .. MaxFile : AppendCall(n)) /\ ~AppendChunk /\ ~AppendReturns
    BY <2>2, Zenon DEF AppendCall, AppendChunk, AppendReturns
  <2>6. ~CloseBlock
    BY <2>2, <2>3, Zenon DEF CloseBlock, ClosesBlock, block
  <2>7. ~Close /\ ~Complete
    BY <2>2, <2>3, Zenon DEF Close, Complete, Finished, ResetStream, ClosesBlock
  <2>8. ~(UNCHANGED vars)
    BY <2>2, Zenon DEF vars
  <2> QED
    BY <2>4, <2>5, <2>6, <2>7, <2>8, Zenon DEF Next
<1>2. CASE SendFull
  <2>1. /\ Working /\ pc = "send" /\ ~closed
        /\ currentPacket # NoPacket /\ bytesWritten <= BlockSize
    BY <1>2 DEF IInv, SendFull, Working, ClosedIsReset, GeometryInv
  <2>2. packet' = currentPacket
    BY <1>2, Zenon DEF SendFull, Sends, block
  <2>3. /\ Start = currentPacket.off /\ End(currentPacket) = bytesWritten
        /\ pipeline => fed <= bytesWritten
    BY <2>1 DEF IInv, BlockInv, TypeOK, Start, Limit
  <2> QED
    BY <2>1, <2>2, <2>3
<1>3. CASE \E needSync \in BOOLEAN : FlushInternal(needSync)
  <2>1. PICK needSync \in BOOLEAN : FlushInternal(needSync)
    BY <1>3, Zenon
  <2>2. /\ Working /\ pc = "idle" /\ ~closed
    BY <2>1, Zenon DEF FlushInternal, Running, Working
  <2> DEFINE p == FlushPacket(needSync)
  <2>3. p # NoPacket /\ packet' = p
    <3>1. ~(UNCHANGED block) /\ ~(UNCHANGED <<pipeline, fed, packet>>)
      BY Zenon DEF block
    <3> QED
      BY <2>1, <3>1, Zenon DEF FlushInternal, FlushSkipped, FlushPacket, Sends
  <2>4. p.off = Start /\ End(p) = bytesWritten + position
    BY <2>2, <2>3, FlushPacketFacts, Zenon
  <2>5. bytesWritten + position <= BlockSize
    <3>1. bytesWritten + chunkSize <= BlockSize
      BY <2>2, ChunkFits
    <3>2. /\ position \in Nat /\ bytesWritten \in Nat /\ chunkSize \in Nat
          /\ position < chunkSize
      BY <2>2 DEF IInv, TypeOK, GeometryInv
    <3> QED
      BY <3>1, <3>2
  <2> HIDE DEF p
  <2> QED
    BY <2>2, <2>3, <2>4, <2>5, FedBound, Zenon
<1> QED
  BY <1>1, <1>2, <1>3, Zenon

\* A packet handed to the pipeline continues its block: it starts where the block ends,
\* or at the partial chunk flushed before, and stays inside of the block.
THEOREM PacketsSafe == Spec => PacketsContinueBlock
<1> DEFINE step ==
      /\ pipeline /\ pipeline' /\ packet' # packet =>
            /\ packet'.off \in packet.off..fed /\ End(packet') >= fed
            /\ End(packet') <= BlockSize
      /\ ~pipeline /\ pipeline' =>
            IF isAppend THEN base = lastBlock.start /\ packet'.off = lastBlock.len
            ELSE packet'.off = 0 /\ base % BlockSize = 0
<1>1. ASSUME IInv, [Next]_vars PROVE step
  <2>1. ASSUME pipeline, pipeline', packet' # packet
        PROVE  /\ packet'.off \in packet.off..fed /\ End(packet') >= fed
               /\ End(packet') <= BlockSize
    <3>1. Working /\ packet'.off = Start /\ fed <= End(packet') /\ End(packet') <= BlockSize
      BY <1>1, <2>1, HandsOver
    <3>2. /\ packet.off \in Int /\ fed \in Int /\ Start \in Int
          /\ packet.off <= Start /\ Start <= fed
      BY <1>1, <2>1, <3>1 DEF IInv, TypeOK, BlockInv, Packets, Start
    <3>3. packet'.off \in packet.off .. fed
      BY <3>1, <3>2
    <3>4. IInv'
      BY <1>1, NextInv, Zenon
    <3>5. End(packet') \in Int
      <4>1. packet' \in Packets
        BY <3>4, Zenon DEF IInv, TypeOK
      <4> QED
        BY <4>1 DEF Packets, End
    <3> QED
      BY <3>1, <3>2, <3>3, <3>5, Zenon
  <2>2. ASSUME ~pipeline, pipeline'
        PROVE  IF isAppend THEN base = lastBlock.start /\ packet'.off = lastBlock.len
               ELSE packet'.off = 0 /\ base % BlockSize = 0
    <3>1. Working /\ packet'.off = Start
      BY <1>1, <2>2, HandsOver, Zenon
    <3> QED
      BY <1>1, <2>2, <3>1 DEF IInv, BlockInv, CountInv
  <2> QED
    BY <2>1, <2>2, Zenon
<1> QED
  BY <1>1, BytesAreCounted, PTL DEF Spec, PacketsContinueBlock

=============================================================================
