------------------------------- MODULE Packet -------------------------------
(***************************************************************************)
(* The buffer of a packet and the pool packets are reused from.  A packet  *)
(* reserves room for its header and for the checksums of all its chunks in *)
(* front of the data.  When it is sent with fewer chunks the checksums and *)
(* the header move up to the data (Packet::getBuffer); it may be sent      *)
(* again after a failover, and goes back to the pool once acknowledged     *)
(* (PacketPool), to be reset for another packet of maybe another size.     *)
(*                                                                         *)
(* A buffer maps positions to cells: <<kind, seqno>>, what was written     *)
(* there and for which packet.                                             *)
(***************************************************************************)
EXTENDS Integers, Sequences, FiniteSets

CONSTANTS
    HeaderSize,    \* PacketHeader::GetPkgHeaderSize
    Word,          \* sizeof(uint32_t), the size of a checksum
    ChunkSize,     \* bytes of data of a chunk
    Shapes,        \* the chunks per packet the stream asks for
    PoolSize,      \* maxSize of the pool
    MaxPackets     \* bound: packets sent

VARIABLES
    packets,   \* the packets in existence: id -> its fields and buffer
    pool,      \* ids waiting in the pool
    current,   \* the packet being filled, or <<>>
    flight,    \* ids sent and not acknowledged, oldest first
    wire,      \* id -> the bytes its last send put on the wire
    sent       \* number of packets started

packetVars == <<packets, pool, current, flight, wire, sent>>

PacketSize(chunks) == HeaderSize + chunks * (Word + ChunkSize)

\* The fields Packet::Packet and Packet::reset set; reset keeps a larger buffer
\* with what is in it.
resetKeepPos(p, chunks, seqno) ==
    LET size == PacketSize(chunks)
        dataStart == HeaderSize + chunks * Word
    IN  [p EXCEPT !.headerStart = 0, !.maxChunks = chunks, !.numChunks = 0, !.seqno = seqno,
                  !.checksumStart = HeaderSize, !.dataPos = dataStart, !.dataStart = dataStart,
                  !.buffer = [i \in 0 .. (IF size > Cardinality(DOMAIN p.buffer) THEN size
                                         ELSE Cardinality(DOMAIN p.buffer)) - 1 |->
                                 IF i \in DOMAIN p.buffer THEN p.buffer[i] ELSE <<"none", 0>>]]
reset(p, chunks, seqno) ==
    LET size == PacketSize(chunks)
        dataStart == HeaderSize + chunks * Word
    IN  [p EXCEPT !.headerStart = 0, !.maxChunks = chunks, !.numChunks = 0, !.seqno = seqno,
                  !.checksumStart = HeaderSize, !.checksumPos = HeaderSize,
                  !.dataPos = dataStart, !.dataStart = dataStart,
                  !.buffer = [i \in 0 .. (IF size > Cardinality(DOMAIN p.buffer) THEN size
                                         ELSE Cardinality(DOMAIN p.buffer)) - 1 |->
                                 IF i \in DOMAIN p.buffer THEN p.buffer[i] ELSE <<"none", 0>>]]

NewPacket == [headerStart |-> 0, maxChunks |-> 0, numChunks |-> 0, seqno |-> 0,
              checksumStart |-> HeaderSize, checksumPos |-> HeaderSize,
              dataStart |-> HeaderSize, dataPos |-> HeaderSize, buffer |-> <<>>, error |-> FALSE]

isFull(p) == p.numChunks >= p.maxChunks

Put(p, from, n, kind) ==
    [i \in DOMAIN p.buffer |-> IF i \in from .. from + n - 1 THEN <<kind, p.seqno>> ELSE p.buffer[i]]

\* Packet::addChecksum, or the exception when no room is left.
addChecksum(p) ==
    IF p.checksumPos + Word > p.dataStart THEN [p EXCEPT !.error = TRUE]
    ELSE [p EXCEPT !.buffer = Put(p, p.checksumPos, Word, "checksum"),
                   !.checksumPos = @ + Word]

\* Packet::addData.
addData(p, n) ==
    IF n + p.dataPos > Cardinality(DOMAIN p.buffer) THEN [p EXCEPT !.error = TRUE]
    ELSE [p EXCEPT !.buffer = Put(p, p.dataPos, n, "data"), !.dataPos = @ + n]

\* Packet::getBuffer: close the gap, write the header in front.
getBufferNoShift(p) ==
    LET checksumLen == p.checksumPos - p.checksumStart
        gap   == p.dataStart - p.checksumPos
        moved == [i \in DOMAIN p.buffer |->
                     IF gap # 0 /\ i \in p.dataStart - checksumLen .. p.dataStart - 1
                     THEN p.buffer[i - p.dataStart + checksumLen + p.checksumStart]
                     ELSE p.buffer[i]]
        q == IF gap = 0 THEN p
             ELSE [p EXCEPT !.buffer = moved, !.headerStart = gap, !.checksumPos = p.dataStart]
    IN  [q EXCEPT !.buffer = Put(q, q.headerStart, HeaderSize, "header")]
getBuffer(p) ==
    LET checksumLen == p.checksumPos - p.checksumStart
        gap   == p.dataStart - p.checksumPos
        moved == [i \in DOMAIN p.buffer |->
                     IF gap # 0 /\ i \in p.dataStart - checksumLen .. p.dataStart - 1
                     THEN p.buffer[i - p.dataStart + checksumLen + p.checksumStart]
                     ELSE p.buffer[i]]
        q == IF gap = 0 THEN p
             ELSE [p EXCEPT !.buffer = moved, !.headerStart = gap,
                            !.checksumStart = @ + gap, !.checksumPos = p.dataStart]
    IN  [q EXCEPT !.buffer = Put(q, q.headerStart, HeaderSize, "header")]

\* What getBuffer returns: as many bytes as its header announces.
Wire(p) ==
    LET len == HeaderSize + (p.dataPos - p.dataStart) + (p.checksumPos - p.checksumStart)
    IN  [i \in 1 .. len |-> p.buffer[p.headerStart + i - 1]]

-----------------------------------------------------------------------------

\* PacketPool::getPacket for the next packet of the stream.
getPacket(chunks) ==
    /\ current = <<>> /\ sent < MaxPackets
    /\ sent' = sent + 1
    /\ IF pool = <<>>
       THEN LET id == Cardinality(DOMAIN packets) + 1
            IN  /\ packets' = [i \in DOMAIN packets \cup {id} |->
                                  IF i = id THEN reset(NewPacket, chunks, sent + 1) ELSE packets[i]]
                /\ wire' = [i \in DOMAIN packets \cup {id} |-> IF i = id THEN <<>> ELSE wire[i]]
                /\ current' = <<id>>
                /\ pool' = pool
       ELSE /\ packets' = [packets EXCEPT ![Head(pool)] = reset(@, chunks, sent + 1)]
            /\ wire' = [wire EXCEPT ![Head(pool)] = <<>>]
            /\ current' = <<Head(pool)>>
            /\ pool' = Tail(pool)
    /\ UNCHANGED flight

\* OutputStreamImpl::appendChunkToPacket of n bytes.
appendChunk(n) ==
    /\ current # <<>>
    /\ ~isFull(packets[current[1]])
    /\ packets' = [packets EXCEPT ![current[1]] =
                      [addData(addChecksum(@), n) EXCEPT !.numChunks = @ + 1]]
    /\ UNCHANGED <<pool, current, flight, wire, sent>>

\* The packet is handed to the pipeline and sent: full, or flushed, or the
\* empty last one.
sendPacket ==
    /\ current # <<>>
    /\ LET q == getBuffer(packets[current[1]])
       IN  /\ packets' = [packets EXCEPT ![current[1]] = q]
           /\ wire' = [wire EXCEPT ![current[1]] = Wire(q)]
    /\ flight' = Append(flight, current[1])
    /\ current' = <<>>
    /\ UNCHANGED <<pool, sent>>

\* A failover sends the packets in flight again (PipelineImpl::resend).
resend ==
    \E i \in DOMAIN flight :
        LET q == getBuffer(packets[flight[i]])
        IN  /\ packets' = [packets EXCEPT ![flight[i]] = q]
            /\ wire' = [wire EXCEPT ![flight[i]] = Wire(q)]
            /\ UNCHANGED <<pool, current, flight, sent>>

\* PacketPool::releasePacket of the oldest packet, once acknowledged.
releasePacket ==
    /\ flight # <<>>
    /\ flight' = Tail(flight)
    /\ pool' = IF Len(pool) >= PoolSize THEN pool ELSE Append(pool, Head(flight))
    /\ UNCHANGED <<packets, current, wire, sent>>

PacketInit ==
    /\ packets = <<>> /\ pool = <<>> /\ current = <<>>
    /\ flight = <<>> /\ wire = <<>> /\ sent = 0

PacketNext ==
    \/ \E chunks \in Shapes : getPacket(chunks)
    \/ \E n \in 1 .. ChunkSize : appendChunk(n)
    \/ sendPacket
    \/ resend
    \/ releasePacket

-----------------------------------------------------------------------------

\* Every send of a packet, the first one and those after a failover, puts its
\* header, all its checksums and all its data on the wire, without a gap and
\* with nothing of the packet that used the buffer before (Packet::getBuffer,
\* PacketPool::getPacket).
WireIsWholePacket ==
    \A i \in DOMAIN flight :
        LET p == packets[flight[i]]
            n == p.numChunks * Word
        IN  /\ ~p.error
            /\ wire[flight[i]] = [k \in 1 .. HeaderSize + n + (p.dataPos - p.dataStart) |->
                   <<IF k <= HeaderSize THEN "header"
                     ELSE IF k <= HeaderSize + n THEN "checksum" ELSE "data", p.seqno>>]

=============================================================================
