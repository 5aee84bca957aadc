---------------------------- MODULE BlockReaders ----------------------------
(***************************************************************************)
(* The two readers of one replica of one block: RemoteBlockReader, which   *)
(* takes packets from a datanode, and LocalBlockReader, which reads the    *)
(* block file and its checksum file.  A reader is a record, a method an    *)
(* operator from a reader to what the method returns:                      *)
(*    [r |-> the reader afterwards, exc |-> the class thrown or none,      *)
(*     bytes |-> the bytes copied to the caller]                           *)
(* The byte at offset i of a block is the number i; a damaged byte of a    *)
(* replica is Damaged, and what a buffer holds besides block data (packet  *)
(* checksums, bytes never received) is Garbage.                            *)
(***************************************************************************)
EXTENDS Exceptions, Integers, TLC

CONSTANTS
    ChunkSize,        \* bytes under one checksum
    PacketSize,       \* data bytes a datanode puts in one packet
    LocalBufferSize   \* input.localread.default.buffersize

checksumSize == 4
HEADER_SIZE == 7

Damaged == -1
Garbage == -2

Byte(bad, i) == IF i \in bad THEN Damaged ELSE i
Bytes(bad, from, n) == [j \in 1..n |-> Byte(bad, from + j - 1)]

Lesser(a, b) == IF a < b THEN a ELSE b
RoundDown(n) == (n \div ChunkSize) * ChunkSize
RoundUp(n) == RoundDown(n + ChunkSize - 1)

Done(r, bytes) == [r |-> r, exc |-> NoException, bytes |-> bytes]
Throw(r, exc) == [r |-> r, exc |-> exc, bytes |-> <<>>]

(***************************************************************************)
(* RemoteBlockReader.  next is the offset of the next packet the datanode  *)
(* will send, stop where it stops: it starts at a chunk boundary, ends at  *)
(* one (or at the end of its replica), and closes with an empty packet.    *)
(***************************************************************************)
StartRemote(replicaLen, bad, start, len, verify, type) ==
    [kind |-> "remote", bad |-> bad, verify |-> verify /\ type # "null",
     sumSize |-> IF type = "null" THEN 0 ELSE checksumSize,
     cursor |-> start, endOffset |-> start + len,
     position |-> 0, size |-> 0,             \* indices into the packet buffer
     head |-> 0, sums |-> 0, full |-> TRUE,  \* what the buffer holds
     next |-> RoundDown(start), stop |-> Lesser(replicaLen, RoundUp(start + len)),
     lastPacket |-> FALSE, sentStatus |-> FALSE]

\* What can go wrong in the constructor, as the class that leaves it.
\* getNextPeer: a timeout of connect is wrapped, the others pass.
getNextPeerFaults == [connect |-> "HdfsNetworkConnectException", timeout |-> "HdfsIOException"]
\* DataTransferProtocolSender::readBlock wraps every failure to send.
readBlockFaults == [send |-> "HdfsIOException"]
\* checkResponse: the answer does not come, is an error, or cannot be used.
\* A timeout of the read is not wrapped.
checkResponseFaults ==
    [closed |-> "HdfsEndOfStream", slow |-> "HdfsTimeoutException",
     token |-> "HdfsInvalidBlockToken", error |-> "HdfsIOException"]
ResponseFaults == getNextPeerFaults @@ readBlockFaults @@ checkResponseFaults

\* The constructor, with a replica whose checksum type is type ("bad" is one
\* checkResponse does not know) and an answer o, "ok" or one of the above.
RemoteBlockReader(replicaLen, bad, start, len, verify, type, o) ==
    LET r == StartRemote(replicaLen, bad, start, len, verify, type)
    IN  IF o # "ok" THEN Throw(r, ResponseFaults[o])
        ELSE IF type = "bad" THEN Throw(r, "HdfsIOException")
        ELSE Done(r, <<>>)

\* The byte at index i of the packet buffer: checksums, then data.
BufferByte(r, i) ==
    IF i < r.sums \/ ~r.full THEN Garbage ELSE Byte(r.bad, r.head + i - r.sums)

\* verifyChecksum: a wrong checksum counts only when its chunk is a whole one.
verifyChecksum(r, dataSize) ==
    \A i \in 0..((dataSize + ChunkSize - 1) \div ChunkSize) - 1 :
        LET n == Lesser(ChunkSize, dataSize - i * ChunkSize)
            mismatch == \E b \in r.bad : b \in r.head + i * ChunkSize
                                              .. r.head + i * ChunkSize + n - 1
        IN  ~(mismatch /\ n = ChunkSize)

\* What the network can do to one readNextPacket: the class that reaches the
\* caller of read or skip.  readPacketHeader wraps every failure of its own;
\* of the others, read and skip wrap timeouts and network errors only.
PacketFaults ==
    [header |-> "HdfsIOException", bodyTimeout |-> "HdfsIOException",
     bodyClosed |-> "HdfsEndOfStream", trailing |-> "HdfsIOException",
     status |-> "HdfsIOException"]
PacketOutcomes == DOMAIN PacketFaults \cup {"ok"}

\* readTrailingEmptyPacket and sendStatus, once the range asked for is in.
\* A datanode stops at the end of the range: the next packet is the empty one.
EndOfRange(r, dataSize, pendingAhead, o) ==
    IF r.cursor + dataSize - pendingAhead < r.endOffset THEN Done(r, <<>>)
    ELSE IF r.lastPacket \/ o = "trailing" THEN Throw(r, "HdfsIOException")
    ELSE IF r.next < r.stop THEN Done(r, <<>>)
    ELSE IF o = "status" THEN Throw(r, PacketFaults[o])
    ELSE Done([r EXCEPT !.sentStatus = TRUE], <<>>)

\* MUTANT: the first packet is taken to start where the reader does.
readNextPacketAligned(r, o) ==
    LET dataSize == Lesser(PacketSize, r.stop - r.next)
        sums     == ((dataSize + ChunkSize - 1) \div ChunkSize) * r.sumSize
        empty    == dataSize = 0
        started  == [r EXCEPT !.lastPacket = empty, !.full = FALSE,
                              !.size = IF empty THEN @ ELSE sums + dataSize,
                              !.head = IF empty THEN @ ELSE r.next,
                              !.sums = IF empty THEN @ ELSE sums]
        received == [started EXCEPT !.full = TRUE, !.next = @ + dataSize,
                                    !.position = IF empty THEN @ ELSE sums]
    IN  IF r.lastPacket \/ ~r.full \/ o = "header" THEN Throw(r, "HdfsIOException")
        ELSE IF o \in {"bodyTimeout", "bodyClosed"} THEN Throw(started, PacketFaults[o])
        ELSE IF r.verify /\ ~verifyChecksum([r EXCEPT !.head = r.next], dataSize)
             THEN Throw([started EXCEPT !.full = TRUE], "ChecksumException")
        ELSE EndOfRange(received, dataSize, 0, o)

\* readNextPacket: size is set before the body is read, position after.  After a
\* body that was cut off the connection gives no further packet.
readNextPacket(r, o) ==
    LET dataSize == Lesser(PacketSize, r.stop - r.next)
        sums     == ((dataSize + ChunkSize - 1) \div ChunkSize) * r.sumSize
        empty    == dataSize = 0
        started  == [r EXCEPT !.lastPacket = empty,
                              !.size = IF empty THEN @ ELSE sums + dataSize,
                              !.head = IF empty THEN @ ELSE r.next,
                              !.sums = IF empty THEN @ ELSE sums,
                              !.full = FALSE]
        ahead    == IF r.cursor > r.next /\ ~empty THEN r.cursor - r.next ELSE 0
        received == [started EXCEPT !.full = TRUE, !.next = @ + dataSize,
                                    !.position = IF empty THEN @ ELSE sums + ahead]
    IN  IF r.lastPacket \/ ~r.full \/ o = "header" THEN Throw(r, "HdfsIOException")
        ELSE IF o \in {"bodyTimeout", "bodyClosed"} THEN Throw(started, PacketFaults[o])
        ELSE IF r.verify /\ ~verifyChecksum([r EXCEPT !.head = r.next], dataSize)
             THEN Throw([started EXCEPT !.full = TRUE], "ChecksumException")
        ELSE EndOfRange(received, dataSize, ahead, o)

\* RemoteBlockReader::read
remoteRead(r, len, o) ==
    LET p    == IF r.position >= r.size THEN readNextPacket(r, o) ELSE Done(r, <<>>)
        todo == Lesser(len, p.r.size - p.r.position)
    IN  IF r.cursor >= r.endOffset THEN Throw(r, "HdfsIOException")
        ELSE IF p.exc # NoException THEN p
        ELSE Done([p.r EXCEPT !.position = @ + todo, !.cursor = @ + todo],
                  [j \in 1..todo |-> BufferByte(p.r, p.r.position + j - 1)])

\* RemoteBlockReader::skip.  A failure of any of the packets it needs ends
\* in the same way, so the fault o is met by the first.
RECURSIVE remoteSkip(_, _, _)
remoteSkip(r, todo, o) ==
    LET p     == IF r.position >= r.size THEN readNextPacket(r, o) ELSE Done(r, <<>>)
        batch == Lesser(todo, p.r.size - p.r.position)
    IN  IF todo = 0 THEN Done(r, <<>>)
        ELSE IF r.cursor >= r.endOffset THEN Throw(r, "HdfsIOException")
        ELSE IF p.exc # NoException THEN p
        ELSE remoteSkip([p.r EXCEPT !.position = @ + batch, !.cursor = @ + batch],
                        todo - batch, "ok")

(***************************************************************************)
(* LocalBlockReader.  dataPos and metaPos are the positions of its two     *)
(* files (dataFd, metaFd), buf the block offset of pbuffer[0].             *)
(***************************************************************************)
LocalBuffer(verify) == IF verify THEN RoundUp(LocalBufferSize) ELSE LocalBufferSize

\* readAndVerify: the next bufferSize bytes of the block file against the
\* next checksums of the other.  Here a partial chunk counts like a whole one.
readAndVerify(l, bufferSize) ==
    LET chunks == (bufferSize + ChunkSize - 1) \div ChunkSize
        first  == (l.metaPos - HEADER_SIZE) \div checksumSize
        match  == /\ l.dataPos = first * ChunkSize
                  /\ \A b \in l.bad : b \notin l.dataPos .. l.dataPos + bufferSize - 1
        moved  == [l EXCEPT !.buf = l.dataPos, !.dataPos = @ + bufferSize,
                            !.metaPos = @ + chunks * checksumSize]
    IN  IF match THEN Done(moved, <<>>) ELSE Throw(moved, "ChecksumException")

\* The "fill buffer" part of readInternal and of skip.
FillBuffer(l) ==
    LET n == Lesser(LocalBuffer(l.verify), l.length - l.cursor)
        f == IF l.verify THEN readAndVerify(l, n)
             ELSE Done([l EXCEPT !.buf = l.dataPos, !.dataPos = @ + n], <<>>)
    IN  IF f.exc # NoException THEN f
        ELSE Done([f.r EXCEPT !.position = 0, !.size = n], <<>>)

FromBuffer(l, len) ==
    LET todo == Lesser(len, l.size - l.position)
    IN  Done([l EXCEPT !.position = @ + todo, !.cursor = @ + todo],
             Bytes(l.bad, l.buf + l.position, todo))

\* LocalBlockReader::readInternal
localReadInternal(l, len) ==
    LET todo == Lesser(len, l.length - l.cursor)
        f    == FillBuffer(l)
    IN  IF l.position < l.size THEN FromBuffer(l, len)
        ELSE IF todo = 0 THEN Done(l, <<>>)
        ELSE IF ~l.verify /\ (todo > LocalBuffer(l.verify) \/ todo = l.length - l.cursor)
             THEN Done([l EXCEPT !.dataPos = @ + todo, !.cursor = @ + todo],
                       Bytes(l.bad, l.dataPos, todo))
        ELSE IF f.exc # NoException THEN f
        ELSE FromBuffer(f.r, todo)

\* The handlers of read and skip: every failure makes the descriptors unfit
\* for the cache and is an HdfsIOException to the caller.
Invalidated(f) ==
    IF f.exc = NoException THEN f
    ELSE Throw([f.r EXCEPT !.valid = FALSE], "HdfsIOException")

\* LocalBlockReader::read
localRead(l, len) == Invalidated(localReadInternal(l, len))

\* The body of skip's loop: the buffer first; then the files are moved, with
\* verification to the chunk that holds the target, whose checksum is checked.
RECURSIVE localSkipLoop(_, _)
localSkipLoop(l, todo) ==
    LET batch  == Lesser(todo, l.size - l.position)
        target == l.cursor + todo
        start  == IF l.verify THEN RoundDown(target) ELSE target
        moved  == [l EXCEPT !.cursor = start,
                            !.metaPos = IF l.verify
                                        THEN HEADER_SIZE + checksumSize * (start \div ChunkSize)
                                        ELSE @,
                            !.dataPos = IF start > 0 THEN start ELSE @]
        f      == FillBuffer(moved)
    IN  IF todo = 0 THEN Done(l, <<>>)
        ELSE IF l.size - l.position > 0
             THEN localSkipLoop([l EXCEPT !.position = @ + batch, !.cursor = @ + batch],
                                todo - batch)
        ELSE IF target = start THEN Done(moved, <<>>)
        ELSE IF f.exc # NoException THEN f
        ELSE localSkipLoop(f.r, target - start)

\* LocalBlockReader::skip
localSkip(l, len) == Invalidated(localSkipLoop(l, len))

\* The constructor.  type is the checksum type of the metadata file, or
\* "bad" for a header it refuses; without checksums a reader that was asked
\* to verify is refused as well, for its chunk size stays zero.
LocalBlockReader(length, bad, offset, verify, type) ==
    LET l == [kind |-> "local", bad |-> bad, length |-> length, valid |-> TRUE,
              verify |-> verify /\ type = "crc", cursor |-> 0, position |-> 0,
              size |-> 0, buf |-> 0, dataPos |-> 0, metaPos |-> HEADER_SIZE]
    IN  IF type = "bad" \/ (verify /\ type = "null") THEN Throw(l, "HdfsIOException")
        ELSE IF offset > 0 THEN localSkip(l, offset)
        ELSE Done(l, <<>>)

\* BlockReader::available: what is left in the packet, or in the block.
available(r) ==
    IF r.kind = "local" THEN r.length - r.cursor
    ELSE IF r.size > r.position THEN r.size - r.position ELSE 0
=============================================================================
