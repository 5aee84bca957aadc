-------------------------- MODULE StripedInputStream --------------------------
(***************************************************************************)
(* Reading an erasure coded file (StripedInputStreamImpl, StripeReader and *)
(* StatefulStripeReader).                                                  *)
(*                                                                         *)
(* The stream keeps the part of one stripe it read last.  A stripe is read *)
(* in aligned pieces; for each, the wanted chunks are asked of the data    *)
(* blocks, and when one cannot be had the rest of the piece and a parity   *)
(* chunk for each missing one are read and the missing chunks decoded.     *)
(* The reads run in a thread pool, but each task touches only its own      *)
(* buffer and reader and the results are taken in the order of the         *)
(* indices, so a piece is read in one step; what the datanodes answer in   *)
(* it is a choice of that step.                                            *)
(***************************************************************************)
EXTENDS StripedOutputStream

CONSTANTS IntHalf,      \* 2^31 of the build: int32_t runs from -IntHalf to IntHalf - 1
          ReadSizes, SeekTargets,
          MaxReads      \* bound: calls of the reading application

VARIABLES in,           \* the StripedInputStreamImpl
          got           \* what the last call returned

readerVars == <<in, got>>

ToInt32(v) == ((v + IntHalf) % (2 * IntHalf)) - IntHalf
Damaged    == -1        \* a byte that is not what was written

-----------------------------------------------------------------------------
(* One aligned piece of a stripe.  a is the piece being read: a.in the     *)
(* stream, a.st the state of each chunk, a.missing the chunks given up,    *)
(* a.bad the places where reading fails, a.hung the nodes that take a      *)
(* connection and do not answer, a.err the exception in flight.            *)

ReaderOf(a, i)  == a.in.readers[i]
Block(a)        == nn.groups[a.in.curBlock]
Replica(a, i)   == dn[Block(a).id][i]
decodePosCell(s, i) == CellSize * i
decodePos(s, i) == (s.offset % CellSize) + CellSize * i

checkMissingBlocksStrict(a) ==
    IF a.missing >= NumParity THEN Throw(a, "HdfsIOException") ELSE a

checkMissingBlocks(a) ==
    IF a.missing > NumParity THEN Throw(a, "HdfsIOException") ELSE a

\* The only node of an internal block: once it failed it is not tried again.
\* A node refuses a block it does not have in the length it is asked for.  Only
\* an HdfsIOException is caught: the HdfsTimeoutException of a node that does not
\* answer, and in the same way the HdfsInvalidBlockToken of one that finds the
\* token expired, leave the read.
createBlockReader(a, s, i) ==
    LET length == getInternalBlockLength(Block(a).numBytes, i)
        works  == /\ i \notin a.in.failedNodes
                  /\ <<Block(a).id, i>> \notin dead
                  /\ Len(Replica(a, i).data) >= length
    IN  IF works /\ i \in a.hung THEN Throw(a, "HdfsTimeoutException")
        ELSE IF works THEN [a EXCEPT !.in.readers[i] = <<[offset |-> s.offset, at |-> s.offset]>>]
        ELSE [a EXCEPT !.in.failedNodes = @ \cup {i}]

\* Every caller counts a chunk that cannot be asked for as missing.
readChunk(a, s, i) ==
    LET lost(b) == [b EXCEPT !.st[i] = "missing", !.missing = @ + 1]
        b == IF ReaderOf(a, i) = <<>> THEN createBlockReader(a, s, i) ELSE a
    IN  IF i \notin Block(a).locs THEN lost(a)
        ELSE IF b.err # None THEN b
        ELSE IF ReaderOf(b, i) = <<>> THEN lost(b)
        ELSE [b EXCEPT !.st[i] = "pending"]

readDataForDecoding(a, s) ==
    LET asked == [a EXCEPT !.st = [i \in Idx |-> IF i \in DataIdx /\ @[i] = "none"
                                                 THEN "requested" ELSE @[i]]]
        todo  == {i \in DataIdx : asked.st[i] = "requested"}
    IN  Then(ForEach(asked, InOrder(todo), LAMBDA b, i : readChunk(b, s, i)), checkMissingBlocks)

readParityChunks(a, s, num) ==
    LET asked(b) == Cardinality({i \in ParityIdx : b.st[i] = "pending"})
                    - Cardinality({i \in ParityIdx : a.st[i] = "pending"})
    IN  Then(ForEach(a, InOrder({i \in ParityIdx : a.st[i] = "none"}),
                     LAMBDA b, i : IF asked(b) < num THEN readChunk(b, s, i) ELSE b),
             checkMissingBlocks)

\* The task of readChunk: skip to the piece and read it whole.
Task(a, s, i) ==
    LET r  == ReaderOf(a, i)[1]
        at == r.at + (s.offset - r.offset)
        data == Replica(a, i).data
    IN  [ok    |-> /\ r.offset <= s.offset
                   /\ <<Block(a).id, i>> \notin dead
                   /\ at + s.span <= Len(data)
                   /\ \A k \in at .. at + s.span - 1 : <<i, k>> \notin a.bad,
         bytes |-> SubSeq(data, at + 1, Min({at + s.span, Len(data)})),
         at    |-> at + s.span]

PosOf(s, i) == IF i \in s.requested THEN s.pos[i] ELSE decodePos(s, i)

\* updateState4SuccessRead, and the chunk where its buffer puts it.
fetched(a, s, i) ==
    LET t == Task(a, s, i)
    IN  [a EXCEPT !.st[i] = "fetched",
                  !.in.readers[i] = <<[offset |-> s.offset + s.span, at |-> t.at]>>,
                  !.in.buf = IF i \in ParityIdx THEN @
                             ELSE [p \in DOMAIN @ |->
                                     IF p \in PosOf(s, i) .. PosOf(s, i) + s.span - 1
                                     THEN t.bytes[p - PosOf(s, i) + 1] ELSE @[p]],
                  !.parity[i] = IF i \in ParityIdx THEN t.bytes ELSE @]

\* The chunk is missing after all: read what decoding needs instead.
failed(a, s, i) ==
    LET b == [a EXCEPT !.st[i] = "missing", !.in.readers[i] = <<>>, !.missing = @ + 1]
    IN  Then(Then(checkMissingBlocks(b), LAMBDA c : readDataForDecoding(c, s)),
             LAMBDA c : readParityChunks(c, s, c.missing - a.missing))

RECURSIVE takeResults(_, _)
takeResults(a, s) ==
    LET pending == {i \in Idx : a.st[i] = "pending"}
        i       == Min(pending)
        enough  == Cardinality({j \in Idx : a.st[j] = "fetched"}) = NumData
    IN  IF a.err # None \/ pending = {} \/ enough THEN a
        ELSE takeResults(IF Task(a, s, i).ok THEN fetched(a, s, i) ELSE failed(a, s, i), s)

\* The decoder uses the first NumData chunks it has; chunks past the end of the
\* data are zeros.  Any NumData bytes of a column determine the others.
decode(a, s) ==
    LET have    == {i \in Idx : a.st[i] \in {"fetched", "zero"}}
        inputs  == {i \in have : Cardinality({j \in have : j < i}) < NumData}
        data(i, k) == IF a.st[i] = "zero" THEN 0 ELSE a.in.buf[decodePos(s, i) + k]
        columns(k) == {a.parity[i][k + 1] : i \in inputs \cap ParityIdx}
        solved(m, k) ==
            LET fits == {v \in columns(k) : /\ columns(k) = {v}
                                            /\ \A d \in inputs \cap DataIdx : v[d + 1] = data(d, k)}
            IN  IF fits = {} THEN Damaged ELSE (CHOOSE v \in fits : TRUE)[m + 1]
        erased  == {i \in DataIdx : a.st[i] = "missing"}
        owner(p) == {m \in erased : p \in decodePos(s, m) .. decodePos(s, m) + s.span - 1}
    IN  [a EXCEPT !.in.buf = [p \in DOMAIN @ |->
            IF owner(p) = {} THEN @[p]
            ELSE LET m == CHOOSE m \in owner(p) : TRUE IN solved(m, p - decodePos(s, m))]]

\* The state a chunk starts in: all-zero, or nothing known of it yet.
StripingChunk(s, i) == IF i \in s.zero THEN "zero" ELSE "none"

readStripe(a, s) ==
    LET start == [a EXCEPT !.st = [i \in Idx |-> StripingChunk(s, i)],
                           !.missing = 0, !.parity = [i \in Idx |-> <<>>]]
        asked == ForEach(start, InOrder(s.requested), LAMBDA b, i : readChunk(b, s, i))
        more  == IF asked.missing = 0 \/ asked.err # None THEN asked
                 ELSE Then(Then(checkMissingBlocks(asked), LAMBDA b : readDataForDecoding(b, s)),
                           LAMBDA b : readParityChunks(b, s, b.missing))
    IN  Then(Then(more, LAMBDA b : takeResults(b, s)), LAMBDA b : IF b.missing > 0 THEN decode(b, s) ELSE b)

-----------------------------------------------------------------------------
(* The stream.                                                             *)

FileLength == StartOf(Len(nn.groups) + 1)
BlockAt(pos) == CHOOSE k \in DOMAIN nn.groups :
                    StartOf(k) <= pos /\ pos < StartOf(k) + nn.groups[k].numBytes
OffsetInGroup(st, pos) == pos - StartOf(st.curBlock)
Includes(range, off)   == off >= range.offset /\ off < range.offset + range.length
NoRange                == [offset |-> 0, length |-> 0]

ReaderInit ==
    /\ in = [cursor |-> 0, endOfCurBlock |-> -1, curBlock |-> 0, range |-> NoRange, limit |-> 0,
             readers |-> [i \in Idx |-> <<>>], failedNodes |-> {},
             buf |-> [p \in 0 .. StripeLen - 1 |-> Damaged],
             lastError |-> None, calls |-> 0]
    /\ got = [bytes |-> <<>>, from |-> 0, size |-> 0, bad |-> {}, hung |-> {}, err |-> None]

closeCurrentBlockReaders(st) ==
    [st EXCEPT !.range = NoRange, !.readers = [i \in Idx |-> <<>>], !.endOfCurBlock = -1]

\* setCurBlock and seekToBlock
setCurBlock(st) ==
    LET k == BlockAt(st.cursor)
    IN  [st EXCEPT !.curBlock = k, !.failedNodes = {},
                   !.endOfCurBlock = StartOf(k) + nn.groups[k].numBytes - 1]

readOneStripe(a) ==
    LET numBytes == Block(a).numBytes
        off      == OffsetInGroup(a.in, a.in.cursor)
        limit    == Min({StripeLen, numBytes - (off \div StripeLen) * StripeLen})
        length   == limit - (off % StripeLen)
        pieces   == divideOneStripe(numBytes, off, off + length - 1)
        done     == ForEach([a EXCEPT !.in.range = NoRange], pieces, readStripe)
    IN  Then(done, LAMBDA b : [b EXCEPT !.in.range = [offset |-> off, length |-> length],
                                        !.in.limit = limit])

copyToTarget(a, want) ==
    LET from   == OffsetInGroup(a.in, a.in.cursor) % StripeLen
        result == Min({want, a.in.limit - from})
    IN  [a EXCEPT !.bytes = @ \o [k \in 1 .. result |-> a.in.buf[from + k - 1]],
                  !.in.cursor = @ + result]

RECURSIVE fill(_, _)
fill(a, realLen) ==
    LET here == OffsetInGroup(a.in, a.in.cursor)
        b == IF Includes(a.in.range, here) THEN a ELSE readOneStripe(a)
    IN  IF a.err # None \/ Len(a.bytes) >= realLen THEN a
        ELSE fill(Then(b, LAMBDA c : copyToTarget(c, realLen - Len(c.bytes))), realLen)

\* StripedInputStreamImpl::read; bad are the places whose reading fails now, hung
\* the nodes that do not answer.
readBytes(size, bad, hung) ==
    LET placed == IF in.cursor > in.endOfCurBlock
                  THEN setCurBlock(closeCurrentBlockReaders(in)) ELSE in
        realLen == Min({size, ToInt32(placed.endOfCurBlock - in.cursor + 1),
                        FileLength - in.cursor})
        call(st) == [in |-> st, st |-> <<>>, missing |-> 0, parity |-> <<>>, bad |-> bad,
                     hung |-> hung, bytes |-> <<>>, err |-> None]
    IN  IF in.cursor < FileLength THEN fill(call(placed), realLen) ELSE call(in)

\* InputStreamImpl::open, once the file is written.
openFile ==
    /\ Untroubled /\ app.sessions = <<>>
    /\ app' = [app EXCEPT !.state = "reading"]
    /\ UNCHANGED <<out, dn, nn, dead, in, got>>

CanRead == app.state = "reading" /\ in.lastError = None /\ in.calls < MaxReads

\* A read error, or a chunk whose checksum is wrong, at one place, or a node that
\* does not answer, or no fault.
PacketLen == ChunkSize * ChunksPerPacket
Places == {<<i, c * PacketLen>> : i \in Idx, c \in 0 .. BlockSize \div PacketLen - 1}
Faults == {[bad |-> {}, hung |-> {}]} \cup {[bad |-> {p}, hung |-> {}] : p \in Places}
              \cup {[bad |-> {}, hung |-> {i}] : i \in Idx}

read(size) ==
    /\ CanRead
    /\ \E f \in Faults : \E a \in {readBytes(size, f.bad, f.hung)} :
         /\ in' = [a.in EXCEPT !.lastError = a.err, !.calls = @ + 1]
         /\ got' = [bytes |-> a.bytes, from |-> in.cursor, size |-> size, err |-> a.err,
                    bad  |-> IF a.err = None THEN {} ELSE f.bad,
                    hung |-> IF a.err = None THEN {} ELSE f.hung]

\* A target in the stripe at hand moves the position only.
seek(targetPos) ==
    /\ CanRead
    /\ targetPos <= FileLength
    /\ LET here == /\ targetPos <= in.endOfCurBlock
                   /\ Includes(in.range, OffsetInGroup(in, targetPos))
       IN  in' = [in EXCEPT !.cursor = targetPos, !.calls = @ + 1,
                            !.endOfCurBlock = IF here THEN @ ELSE -1]
    /\ UNCHANGED got

Reading == /\ (\E n \in ReadSizes : read(n)) \/ (\E p \in SeekTargets : seek(p))
           /\ UNCHANGED writerVars

-----------------------------------------------------------------------------
(* What the reader promises.                                               *)

\* Bytes a read returns are those written at its place, whichever internal
\* blocks are gone and whatever was decoded (StripedInputStreamImpl::read), and there
\* are none only at the end of the file, the doc of hdfsRead (client/hdfs.h:366-372).
ReadIsExact ==
    /\ got.bytes = [k \in 1 .. Len(got.bytes) |-> got.from + k]
    /\ got.err = None /\ got.size > 0 /\ got.bytes = <<>> => got.from >= FileLength

\* The internal blocks of the group read last that cannot be read in the call.
Unreadable ==
    LET b == nn.groups[in.curBlock]
    IN  {i \in Idx : \/ i \notin b.locs \/ <<b.id, i>> \in dead
                     \/ Len(dn[b.id][i].data) < getInternalBlockLength(b.numBytes, i)
                     \/ \E off \in 0 .. BlockSize - 1 : <<i, off>> \in got.bad}

\* A read fails only when more internal blocks than there are parity blocks
\* cannot be read (StripeReader::checkMissingBlocks), or when a node that took the
\* connection did not answer: parity would make up for it, but createBlockReader lets
\* the timeout through, and one such node is enough.
ReadNeedsNoMore ==
    got.err # None => \/ Cardinality(Unreadable) > NumParity
                      \/ got.err = "HdfsTimeoutException" /\ got.hung # {}

=============================================================================
