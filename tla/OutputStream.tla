---------------------------- MODULE OutputStream ----------------------------
(***************************************************************************)
(* A stream that writes a file: OutputStreamImpl (client/                  *)
(* OutputStreamImpl.cpp) and the packets it fills (client/Packet.cpp),     *)
(* above a write pipeline per block that keeps the promises of BlockWriter *)
(* (Pipeline is shown to implement BlockWriter).                           *)
(*                                                                         *)
(* Data is abstracted to lengths.  A chunk is its length and the number of *)
(* bytes the checksum has seen since it was reset.  Offsets in a packet    *)
(* are offsets in its block, as in the code; base is the length of the     *)
(* blocks before the current one.                                          *)
(***************************************************************************)
EXTENDS Integers, Sequences

CONSTANTS
    ChunkSize,        \* conf->getDefaultChunkSize()
    PacketChunks,     \* chunksPerPacket for the default packet size
    BlockSize,        \* blockSize
    MaxFile,          \* bound: length of the file
    MaxOpens          \* bound: how often the stream is opened

ASSUME OutputStreamAssumption ==
    /\ ChunkSize \in Nat \ {0} /\ PacketChunks \in Nat \ {0} /\ BlockSize \in Nat \ {0}
    /\ BlockSize % ChunkSize = 0          \* checked by openInternal
    /\ MaxFile \in Nat /\ MaxOpens \in Nat

VARIABLES
    \* the fields of OutputStreamImpl
    closed, lastError, isAppend, chunkSize, chunksPerPacket, position, cursor,
    lastFlushed, bytesWritten, currentPacket, checksum, lastBlock,
    \* where append and close are, and the locals of append
    pc, size, todo,
    \* the pipeline of the current block: what was handed over and acked
    pipeline, fed, acked, packet,
    \* the namenode: length before the current block, the file, the lease
    base, file, lease,
    \* counters: opens so far, bytes that append has accepted
    opens, accepted

geometry == <<isAppend, chunkSize, chunksPerPacket>>
fill == <<position, bytesWritten, currentPacket, checksum>>
call == <<pc, size, todo>>
block == <<pipeline, fed, acked, packet>>
vars == <<closed, lastError, geometry, fill, cursor, lastFlushed, lastBlock, call, block,
          base, file, lease, opens, accepted>>

\* A packet: its offset in the block, the chunks it may take, the chunks in it, and
\* their bytes (dataPos - dataStart).
EmptyPacket(off, max) == [off |-> off, max |-> max, chunks |-> <<>>, data |-> 0]
NoPacket == EmptyPacket(-1, 0)
NoBlock == [start |-> -1, len |-> 0]

Batch(room, n) == IF room < n THEN room ELSE n
Larger(a, b) == IF a > b THEN a ELSE b
End(p) == p.off + p.data

-----------------------------------------------------------------------------
(* open.                                                                   *)

NoPipeline == pipeline' = FALSE /\ fed' = 0 /\ acked' = 0 /\ packet' = NoPacket

\* reset: the fields of a stream that is not open.
ResetStream ==
    /\ closed' = TRUE /\ lastError' = FALSE
    /\ isAppend' = FALSE /\ chunkSize' = 0 /\ chunksPerPacket' = 0
    /\ position' = 0 /\ bytesWritten' = 0 /\ currentPacket' = NoPacket /\ checksum' = 0
    /\ cursor' = 0 /\ lastFlushed' = 0 /\ lastBlock' = NoBlock
    /\ NoPipeline

Init ==
    /\ closed = TRUE /\ lastError = FALSE
    /\ isAppend = FALSE /\ chunkSize = 0 /\ chunksPerPacket = 0
    /\ position = 0 /\ bytesWritten = 0 /\ currentPacket = NoPacket /\ checksum = 0
    /\ cursor = 0 /\ lastFlushed = 0 /\ lastBlock = NoBlock
    /\ pipeline = FALSE /\ fed = 0 /\ acked = 0 /\ packet = NoPacket
    /\ pc = "idle" /\ size = 0 /\ todo = 0
    /\ base = 0 /\ file = [st |-> "none", len |-> 0] /\ lease = 0
    /\ opens = 0 /\ accepted = 0

DefaultGeometry ==
    /\ isAppend' = FALSE /\ chunkSize' = ChunkSize /\ chunksPerPacket' = PacketChunks

\* The first packet of an append has one chunk, which fills up the partial chunk at
\* the end of the file; on a chunk boundary the packets are the default ones.
AppendGeometry(len) ==
    /\ isAppend' = TRUE
    /\ IF len % ChunkSize > 0
       THEN chunkSize' = ChunkSize - (len % ChunkSize) /\ chunksPerPacket' = 1
       ELSE chunkSize' = ChunkSize /\ chunksPerPacket' \in 1..PacketChunks

\* A new file, or the old one overwritten.
OpenCreate ==
    /\ closed /\ pc = "idle" /\ opens < MaxOpens
    /\ closed' = FALSE /\ DefaultGeometry
    /\ base' = 0 /\ file' = [st |-> "open", len |-> 0]
    /\ lease' = lease + 1
    /\ opens' = opens + 1 /\ accepted' = 0
    /\ UNCHANGED <<lastError, fill, cursor, lastFlushed, lastBlock, call, block>>

\* The namenode (external) returns the last block of the file unless it is full.
OpenAppend ==
    /\ closed /\ pc = "idle" /\ opens < MaxOpens /\ file.st = "complete"
    /\ LET used == file.len % BlockSize IN
       /\ IF used > 0
          THEN /\ AppendGeometry(file.len)
               /\ lastBlock' = [start |-> file.len - used, len |-> used]
          ELSE DefaultGeometry /\ UNCHANGED lastBlock
       /\ bytesWritten' = used /\ base' = file.len - used
    /\ closed' = FALSE /\ cursor' = file.len
    /\ file' = [file EXCEPT !.st = "open"]
    /\ lease' = lease + 1
    /\ opens' = opens + 1 /\ accepted' = file.len
    /\ UNCHANGED <<lastError, position, currentPacket, checksum, lastFlushed, call, block>>

\* The namenode returned a last block that is full, or getFileStatus failed: the file
\* is completed again, if that works, and the stream stays closed.
OpenAppendFails ==
    /\ closed /\ pc = "idle" /\ opens < MaxOpens /\ file.st = "complete"
    /\ file' \in {file, [file EXCEPT !.st = "open"]}
    /\ ResetStream
    /\ opens' = opens + 1
    /\ UNCHANGED <<call, base, lease, accepted>>

-----------------------------------------------------------------------------
(* Chunks, packets and the pipeline.                                       *)

Running == ~closed /\ pc = "idle" /\ ~lastError      \* checkStatus passes

\* packets.getPacket: an empty packet at the offset of the chunk being filled.
NewPacketAtZero == EmptyPacket(0, chunksPerPacket)
NewPacket == EmptyPacket(bytesWritten, chunksPerPacket)

\* appendChunkToPacket(buf, n), with the checksum s: packet p with one more chunk.
WithChunk(p, n, s) ==
    LET q == IF p = NoPacket THEN NewPacket ELSE p
    IN  [q EXCEPT !.chunks = Append(@, [len |-> n, sum |-> s]), !.data = @ + n]

BlockFull(n) == n = BlockSize

IsFull(p) == Len(p.chunks) >= p.max

\* sendPacket(p), which sets a pipeline up when there is none: at the length of the
\* block that is appended to, or for a new block after the ones before it.
Sends(p) ==
    /\ pipeline' = TRUE
    /\ packet' = p
    /\ fed' = IF pipeline THEN Larger(fed, End(p)) ELSE End(p)
    /\ acked' \in (IF pipeline THEN acked ELSE p.off)..fed'

\* setError: the exception is kept, and thrown by every later call.
Throws == lastError' = TRUE

AppendCall(n) ==
    /\ Running /\ cursor + n <= MaxFile
    /\ pc' = "append" /\ size' = n /\ todo' = n
    /\ UNCHANGED <<closed, lastError, geometry, fill, cursor, lastFlushed, lastBlock, block,
                   base, file, lease, opens, accepted>>

\* Whether a chunk goes to the packet straight from the caller's buffer.
Bypass == position = 0 /\ todo >= chunkSize

ChecksumKept(s) == s
ChecksumReset(s) == 0

\* One iteration of the loop of appendInternal, up to the send.
AppendChunk ==
    /\ pc = "append" /\ todo > 0
    /\ LET batch == Batch(chunkSize - position, todo)
           sum == checksum + batch
           full == Bypass \/ position + batch = chunkSize
       IN  /\ IF full
              THEN /\ currentPacket' = WithChunk(currentPacket, IF Bypass THEN batch ELSE chunkSize, sum)
                   /\ bytesWritten' = bytesWritten + (IF Bypass THEN batch ELSE chunkSize)
                   /\ position' = IF Bypass THEN position ELSE 0
                   /\ checksum' = ChecksumReset(sum)
              ELSE /\ position' = position + batch /\ checksum' = sum
                   /\ UNCHANGED <<currentPacket, bytesWritten>>
           /\ todo' = todo - batch
    /\ pc' = IF currentPacket' # NoPacket /\ (IsFull(currentPacket') \/ BlockFull(bytesWritten'))
             THEN "send" ELSE "append"
    /\ UNCHANGED <<closed, lastError, geometry, cursor, lastFlushed, lastBlock, size, block,
                   base, file, lease, opens, accepted>>

\* The packet is full: it is sent, and an append goes on with the default geometry.
SendFull ==
    /\ pc = "send"
    /\ \/ /\ Sends(currentPacket)
          /\ currentPacket' = NoPacket
          /\ IF isAppend THEN DefaultGeometry ELSE UNCHANGED geometry
          /\ pc' = IF BlockFull(bytesWritten) THEN "closeBlock" ELSE "append"
          /\ UNCHANGED lastError
       \/ /\ Throws /\ pc' = "idle"
          /\ UNCHANGED <<currentPacket, geometry, block>>
    /\ UNCHANGED <<closed, position, bytesWritten, checksum, cursor, lastFlushed, lastBlock,
                   size, todo, base, file, lease, opens, accepted>>

AppendReturns ==
    /\ pc = "append" /\ todo = 0
    /\ cursor' = cursor + size /\ accepted' = accepted + size
    /\ pc' = "idle"
    /\ UNCHANGED <<closed, lastError, geometry, fill, lastFlushed, lastBlock, size, todo, block,
                   base, file, lease, opens>>

\* flushInternal: the partial chunk is sent but stays in the buffer, where it goes on
\* to grow; its packet is not counted in bytesWritten.
BufferedNever == FALSE
Buffered == position > 0

FlushSkipped(needSync) == lastFlushed = cursor /\ ~needSync

FlushInternal(needSync) ==
    /\ Running
    /\ IF FlushSkipped(needSync)
       THEN UNCHANGED <<lastFlushed, currentPacket, block, lastError>>
       ELSE LET p == IF Buffered THEN WithChunk(currentPacket, position, checksum)
                     ELSE IF currentPacket = NoPacket /\ needSync /\ pipeline
                     THEN NewPacket
                     ELSE currentPacket
            IN  /\ lastFlushed' = cursor
                /\ \/ /\ IF p # NoPacket
                         THEN Sends(p) /\ acked' = fed'
                         ELSE acked' = fed /\ UNCHANGED <<pipeline, fed, packet>>
                      /\ currentPacket' = NoPacket /\ UNCHANGED lastError
                   \/ /\ p # NoPacket \/ pipeline
                      /\ Throws /\ currentPacket' = p /\ UNCHANGED block
    /\ UNCHANGED <<closed, geometry, position, bytesWritten, checksum, cursor, lastBlock, call,
                   base, file, lease, opens, accepted>>

-----------------------------------------------------------------------------
(* closePipeline and close.                                                *)

\* The pipeline promises that a block it closed is acked to the end.
ClosesBlock(f) ==
    /\ NoPipeline
    /\ lastBlock' = [start |-> base, len |-> f]
    /\ base' = base + f

\* closePipeline when a block is full: the pipeline is closed and the file synced.
CloseBlock ==
    /\ pc = "closeBlock"
    /\ \/ ClosesBlock(fed) /\ bytesWritten' = 0 /\ pc' = "append" /\ UNCHANGED lastError
       \/ ClosesBlock(fed) /\ Throws /\ pc' = "idle" /\ UNCHANGED bytesWritten   \* fsync
       \/ Throws /\ pc' = "idle" /\ UNCHANGED <<block, lastBlock, base, bytesWritten>>
    /\ UNCHANGED <<closed, geometry, position, currentPacket, checksum, cursor, lastFlushed,
                   size, todo, file, lease, opens, accepted>>

\* The last step of close, with or without an exception: the lease goes, the fields
\* are reset.
StopsRenew(failed) == lease' = lease - 1

Finished(failed) == StopsRenew(failed) /\ ResetStream /\ pc' = "idle"

\* What close sends first: the partial chunk and the packet that are not flushed.
RestIgnoringBuffer == currentPacket
Rest == IF lastFlushed # cursor /\ Buffered THEN WithChunk(currentPacket, position, checksum)
        ELSE currentPacket

\* close up to completeFile; after an error only the stream is reset.
Close ==
    /\ ~closed /\ pc = "idle"
    /\ LET open == pipeline \/ (lastFlushed # cursor /\ Rest # NoPacket) IN
       \/ /\ lastError /\ Finished(FALSE)
          /\ UNCHANGED base
       \/ /\ ~lastError
          /\ IF open
             THEN ClosesBlock(IF Rest # NoPacket THEN End(Rest) ELSE fed) /\ bytesWritten' = 0
             ELSE UNCHANGED <<block, lastBlock, base, bytesWritten>>
          /\ currentPacket' = IF open THEN NoPacket ELSE Rest
          /\ pc' = "complete"
          /\ UNCHANGED <<closed, lastError, geometry, position, checksum, cursor, lastFlushed, lease>>
       \/ /\ ~lastError /\ open
          /\ Finished(TRUE)
          /\ UNCHANGED base
    /\ UNCHANGED <<size, todo, file, opens, accepted>>

\* completeFile(true): the namenode (external) completes the file, or the call fails
\* or times out.  The file ends with the block that lastBlock reports.
Complete ==
    /\ pc = "complete"
    /\ \/ /\ file' = [st |-> "complete",
                      len |-> IF lastBlock = NoBlock THEN file.len
                              ELSE lastBlock.start + lastBlock.len]
          /\ Finished(FALSE)
       \/ Finished(TRUE) /\ UNCHANGED file
    /\ UNCHANGED <<size, todo, base, opens, accepted>>

-----------------------------------------------------------------------------
Next ==
    \/ OpenCreate \/ OpenAppend \/ OpenAppendFails
    \/ \E n \in 1..MaxFile : AppendCall(n)
    \/ AppendChunk \/ SendFull \/ AppendReturns \/ CloseBlock
    \/ \E needSync \in BOOLEAN : FlushInternal(needSync)
    \/ Close \/ Complete
    \/ closed /\ opens = MaxOpens /\ UNCHANGED vars

Spec == Init /\ [][Next]_vars

-----------------------------------------------------------------------------
(* Properties.                                                             *)

\* The early return of flush is safe: when lastFlushed equals the cursor, every byte
\* of the file is acked (or was there when the file was opened).
FlushedIsDurable ==
    Running /\ lastFlushed = cursor =>
        cursor = base + (IF pipeline THEN acked ELSE bytesWritten)

\* What the pipeline relies on (Send and WaitOver of Pipeline.tla): it is set up at
\* the end of its block, the length of the one appended to or 0 after full blocks; a
\* packet starts where the block ends, or at the partial chunk that the packet before
\* it flushed, never ends before the bytes already handed over, and no packet crosses
\* the end of its block.
PacketsContinueBlock ==
    [][/\ pipeline /\ pipeline' /\ packet' # packet =>
            /\ packet'.off \in packet.off..fed /\ End(packet') >= fed
            /\ End(packet') <= BlockSize
       /\ ~pipeline /\ pipeline' =>
            IF isAppend THEN base = lastBlock.start /\ packet'.off = lastBlock.len
            ELSE packet'.off = 0 /\ base % BlockSize = 0]_vars

\* The checksum sent with a chunk covers the bytes of that chunk, also when a partial
\* chunk is flushed and filled later, and chunks stay aligned in the block, so that
\* each checksum lands in its slot of the block's checksum file.
ChecksumCoversChunk ==
    /\ \A p \in {currentPacket, packet} : \A i \in DOMAIN p.chunks :
          p.chunks[i].sum = p.chunks[i].len
    /\ Running /\ ~isAppend => bytesWritten % ChunkSize = 0 /\ chunkSize = ChunkSize

\* close ends the file: without an error it leaves one with every byte that append
\* accepted, and whatever it throws the lease is given up, which the stream renews
\* as long as it is open.
CloseEndsFile ==
    /\ lease = IF closed THEN 0 ELSE 1
    /\ closed /\ file.st = "complete" => file.len = accepted

=============================================================================
