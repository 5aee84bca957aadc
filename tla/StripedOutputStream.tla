------------------------- MODULE StripedOutputStream -------------------------
(***************************************************************************)
(* Writing an erasure coded file (StripedOutputStreamImpl and              *)
(* StripedPipelineImpl).                                                   *)
(*                                                                         *)
(* The stream cuts the file into chunks, chunks into cells that go to the  *)
(* data streamers in turn, and writes the parity cells when a stripe is    *)
(* full.  Each streamer has its own internal block, packet and one-node    *)
(* pipeline; a streamer that fails is not replaced before the next block   *)
(* group, and the write goes on while at most NumParity of them failed.    *)
(*                                                                         *)
(* The methods call each other and throw through each other, so each is an *)
(* operator that takes the whole situation x and returns the one it leaves *)
(* behind: x.out is the stream object, x.dn what the datanodes store, x.nn *)
(* what the namenode knows, x.env what goes wrong meanwhile and x.err the  *)
(* exception in flight, if any.  A pointer that may be null is a sequence  *)
(* of at most one element.                                                 *)
(*                                                                         *)
(* A byte is the number of its place in the file, a padding byte is 0, and *)
(* a byte of a parity cell is the tuple of the data bytes it encodes:      *)
(* that any NumData bytes of such a column give the others back is checked *)
(* on the coder itself (ErasureCoder).                                     *)
(***************************************************************************)
EXTENDS StripedLayout

CONSTANTS ChunkSize,        \* bytes per checksum
          ChunksPerPacket,  \* OutputStreamImpl::computePacketChunkSize
          BlockSize,        \* of an internal block
          Works             \* the work of the application, and how many datanodes
                            \* fail while it is done: see MCStriped

ASSUME StreamAssumption == /\ CellSize % ChunkSize = 0
                           /\ BlockSize % CellSize = 0
                           /\ ChunkSize * ChunksPerPacket <= CellSize

VARIABLES out,    \* the StripedOutputStreamImpl
          dn,     \* the internal blocks on the datanodes, by group and index
          nn,     \* the namenode: the groups of the file, and whether it is complete
          dead,   \* the datanodes that failed, named by the block they hold
          app     \* the application: what is still to write, what it was told

writerVars == <<out, dn, nn, dead, app>>

\* Exceptions: the call that follows is skipped, or a handler takes over.
None          == "none"
Throw(x, e)   == [x EXCEPT !.err = e]
Then(x, F(_)) == IF x.err = None THEN F(x) ELSE x
Crash         == "NullPointer"     \* not an exception: nothing catches it
Catch(x, H(_)) == IF x.err \in {None, Crash} THEN x ELSE H([x EXCEPT !.err = None])
ForEach(x, indices, F(_, _)) ==
    FoldLeft(LAMBDA y, i : IF y.err = None THEN F(y, i) ELSE y, x, indices)
InOrder(S) == SetToSortSeq(S, LAMBDA a, b : a < b)

-----------------------------------------------------------------------------
(* The stream object.                                                      *)

StripedDataStreamer ==
    [internalError |-> FALSE, bytesCurBlock |-> 0, pipe |-> <<>>]

\* A packet under construction; sealed once getBuffer laid it out for sending.
Packet(offset) == [offset |-> offset, data |-> <<>>, numChunks |-> 0,
                   sumsRight |-> TRUE, sealed |-> FALSE]

\* The blocks of the next group wait here for their streamers.
MultipleBlockingQueue(numQueue) == [i \in 0 .. numQueue - 1 |-> <<>>]
Coordinator == MultipleBlockingQueue(NumData + NumParity)
push(queues, i, t) == [queues EXCEPT ![i] = Append(@, t)]
pop(queues, i)     == [queues EXCEPT ![i] = Tail(@)]
front(queues, i)   == Head(queues[i])

NewStream ==
    [closed    |-> FALSE, lastError |-> None, renewing |-> TRUE,
     buffer    |-> <<>>, checksum |-> <<>>,
     group     |-> <<>>, prev4Append |-> <<>>,
     streamers |-> [i \in Idx |-> StripedDataStreamer],
     packets   |-> [i \in Idx |-> <<>>],
     cur       |-> 0, packet |-> <<>>, hasPipe |-> FALSE,
     failed    |-> {},
     cells     |-> [i \in Idx |-> <<>>],
     following |-> Coordinator,
     asserts   |-> {}, stray |-> FALSE, dropped |-> {}, unreached |-> FALSE]

isHealthy(x, i) == ~x.out.streamers[i].internalError
Pipe(x, i)      == x.out.streamers[i].pipe
GroupBytes(x)   == IF x.out.group = <<>> THEN 0 ELSE x.out.group[1].numBytes

\* The node of a pipeline is gone, and writing to it will fail.
Gone(x, p, i) == <<p.g, i>> \in x.dead

setCurrentStreamer(x, newIdx) ==
    LET saved == [x.out.packets EXCEPT ![x.out.cur] = x.out.packet]
    IN  [x EXCEPT !.out.packets = saved,
                  !.out.cur     = newIdx,
                  !.out.packet  = saved[newIdx],
                  !.out.hasPipe = Pipe(x, newIdx) # <<>>]

shouldEndBlockGroup(x) == GroupBytes(x) = BlockSize * NumData

-----------------------------------------------------------------------------
(* Failed streamers.                                                       *)

NewFailed(x) == {i \in Idx : ~isHealthy(x, i)} \ x.out.failed

checkStreamersStrict(x) ==
    IF Cardinality(x.out.failed) + Cardinality(NewFailed(x)) >= NumParity
    THEN Throw(x, "TooManyFailures") ELSE x

checkStreamers(x) ==
    IF Cardinality(x.out.failed) + Cardinality(NewFailed(x)) > NumParity
    THEN Throw(x, "TooManyFailures") ELSE x

\* The current packet goes with the failed streamer, whichever streamer failed.
handleStreamerFailure(x, i) ==
    Then(checkStreamers([x EXCEPT !.out.streamers[i].internalError = TRUE]),
         LAMBDA y : [y EXCEPT !.out.packets[i]        = <<>>,
                              !.out.packet            = <<>>,
                              !.out.hasPipe           = FALSE,
                              !.out.streamers[i].pipe = <<>>,
                              !.out.dropped = IF y.out.cur # i /\ y.out.packet # <<>>
                                              THEN @ \cup {y.out.cur} ELSE @])

replaceFailedStreamers(x) ==
    LET gone == {i \in Idx : ~isHealthy(x, i)}
    IN  [x EXCEPT !.out.streamers = [i \in Idx |-> IF i \in gone THEN StripedDataStreamer
                                                   ELSE @[i]],
                  !.out.packets   = [i \in Idx |-> IF i \in gone THEN <<>> ELSE @[i]],
                  !.out.packet    = IF x.out.cur \in gone THEN <<>> ELSE @]

-----------------------------------------------------------------------------
(* The namenode and the pipeline of one internal block.                    *)

\* Namenode (external): the groups of the file in order, with the length it
\* was last told and the internal blocks it counts on.
Named(x, id)  == {k \in DOMAIN x.nn.groups : x.nn.groups[k].id = id}
NoReplica     == [data |-> <<>>, final |-> FALSE]
Reported(x, b) == {i \in b.locs : x.dn[b.id][i].final}
\* A group is complete when as many internal blocks are as hold data of it.
Committed(x, b) ==
    Cardinality(Reported(x, b)) >= Min({NumData, (b.numBytes + CellSize - 1) \div CellSize})
Told(x, group) == [k \in DOMAIN x.nn.groups |->
                      IF x.nn.groups[k].id = group.id
                      THEN [x.nn.groups[k] EXCEPT !.numBytes = group.numBytes]
                      ELSE x.nn.groups[k]]
\* The previous group must be the last one, and complete.
Commits(x, prev) ==
    IF prev = <<>> THEN x.nn.groups = <<>>
    ELSE /\ x.nn.groups # <<>> /\ Last(x.nn.groups).id = prev[1].id
         /\ Committed(x, Last(Told(x, prev[1])))
addBlock(x, prev) ==
    LET told == IF prev = <<>> THEN <<>> ELSE Told(x, prev[1])
    IN  IF "addBlock" \in x.env.rpc \/ ~Commits(x, prev) THEN Throw(x, "HdfsIOException")
        ELSE [x EXCEPT !.nn.groups = Append(told, [id |-> Len(x.dn) + 1, numBytes |-> 0,
                                                   locs |-> Idx]),
                       !.dn        = Append(@, [i \in Idx |-> NoReplica])]
\* Giving up the internal block of index 0 gives up the group: they have one id.
abandonBlock(x, g, i) ==
    IF i = 0 THEN [x EXCEPT !.nn.groups = SelectSeq(@, LAMBDA b : b.id # g)] ELSE x

\* A datanode (external) takes a packet that follows what it has, with right
\* checksums; anything else is answered with an error.
Accepts(x, p, i, pkt) ==
    /\ ~Gone(x, p, i) /\ ~p.doomed
    /\ pkt.sumsRight
    /\ pkt.offset = Len(x.dn[p.g][i].data)

\* StripedPipelineImpl: a node that cannot be reached costs the block.
buildForNewBlock(x, g, i) ==
    IF <<g, i>> \in x.dead THEN Throw(abandonBlock(x, g, i), "HdfsIOException")
    ELSE [x EXCEPT !.dn[g][i] = NoReplica]

setupPipeline(x) ==
    LET i == x.out.cur
        g == front(x.out.following, i)
        popped == [x EXCEPT !.out.following = pop(@, i)]
    IN  Then(buildForNewBlock(popped, g, i),
             LAMBDA y : [y EXCEPT
                !.out.hasPipe = TRUE,
                !.out.streamers[i].pipe = <<[g |-> g, sent |-> y.out.packet[1].offset,
                                             acked |-> 0, doomed |-> FALSE, sock |-> TRUE]>>])

\* A striped block has no recovery: the socket is dropped and the failure thrown.
ecBlockFailed(x, i) ==
    Throw([x EXCEPT !.out.streamers[i].pipe[1].doomed = TRUE,
                    !.out.streamers[i].pipe[1].sock   = FALSE], "HdfsIOException")

\* PipelineImpl::send.  A refusal may be seen at once, in the answer to this
\* packet or in the wait for room in the pool before it, or only when acks are
\* waited for.  A write that times out is no HdfsIOException: it leaves send
\* with the socket in place.
send(x) ==
    LET i    == x.out.cur
        p    == Pipe(x, i)[1]
        pkt  == x.out.packet[1]
        last == pkt.offset + Len(pkt.data)
        ok   == Accepts(x, p, i, pkt)
        laid == [x EXCEPT !.out.packet[1].sealed = TRUE,
                          !.out.stray = @ \/ (pkt.data # <<>> /\ p.g # x.out.group[1].id)]
    IN  IF ~p.sock THEN Throw(laid, Crash)
        ELSE IF ~ok /\ i \in x.env.noticed THEN ecBlockFailed(laid, i)
        ELSE IF Gone(x, p, i) /\ i \in x.env.slow
             THEN Throw([laid EXCEPT !.out.streamers[i].pipe[1].doomed = TRUE], "HdfsTimeoutException")
        ELSE [laid EXCEPT !.out.streamers[i].pipe[1].sent = Max({@, last}),
                          !.out.streamers[i].pipe[1].doomed = ~ok,
                          !.dn[p.g][i].data = IF ok THEN @ \o pkt.data ELSE @]

waitForAcks(x, i) ==
    LET p == Pipe(x, i)[1]
    IN  IF ~p.doomed THEN [x EXCEPT !.out.streamers[i].pipe[1].acked = p.sent]
        ELSE IF p.sock THEN ecBlockFailed(x, i)
        ELSE Throw(x, Crash)

\* PipelineImpl::close with an empty last packet; the node may go just before.
pipelineClose(x) ==
    LET i == x.out.cur
        g == Pipe(x, i)[1].g
        y == IF i \in x.env.lateDeath THEN [x EXCEPT !.dead = @ \cup {<<g, i>>}] ELSE x
    IN  Then(Then(Then(waitForAcks(y, i), LAMBDA z : send(z)), LAMBDA z : waitForAcks(z, i)),
             LAMBDA z : [z EXCEPT !.dn[g][i].final = TRUE])

\* StripedOutputStreamImpl::sendPacket
sendPacket(x) ==
    Then(Then(IF x.out.hasPipe THEN x ELSE setupPipeline(x), LAMBDA y : send(y)),
         LAMBDA y : [y EXCEPT !.out.packet = <<>>])

-----------------------------------------------------------------------------
(* Chunks and parity cells.                                                *)

setCurrentPacketToEmpty(x) ==
    [x EXCEPT !.out.packet = <<Packet(x.out.streamers[x.out.cur].bytesCurBlock)>>]

\* A packet that was laid out has no room for another checksum.
appendChunkToPacketInternal(x, buf) ==
    LET i   == x.out.cur
        pkt == IF x.out.packet # <<>> THEN x.out.packet[1]
               ELSE Packet(IF Pipe(x, i) = <<>> THEN 0 ELSE Pipe(x, i)[1].sent)
        new == [pkt EXCEPT !.data = @ \o buf, !.numChunks = @ + 1,
                           !.sumsRight = @ /\ x.out.checksum = buf]
        y   == [x EXCEPT !.out.packet = <<new>>, !.out.checksum = <<>>,
                         !.out.streamers[i].bytesCurBlock = @ + Len(buf)]
    IN  IF pkt.sealed THEN Throw(x, "HdfsIOException")
        ELSE IF \/ new.numChunks >= ChunksPerPacket
                \/ y.out.streamers[i].bytesCurBlock = BlockSize
             THEN sendPacket(y) ELSE y

checkAnyParityStreamerIsHealthy(x) == \E i \in ParityIdx : isHealthy(x, i)

\* The parity cell of a stripe: each byte stands for its column of data bytes.
encode(cells) ==
    [k \in 1 .. Len(cells[0]) |-> [i \in 1 .. NumData |-> cells[i - 1][k]]]

ChunksOf(cell) ==
    [c \in 1 .. (Len(cell) + ChunkSize - 1) \div ChunkSize |->
        SubSeq(cell, (c - 1) * ChunkSize + 1, Min({c * ChunkSize, Len(cell)}))]

writeParity(x, index, cell) ==
    LET y == setCurrentStreamer(x, index)
        written == FoldLeft(LAMBDA z, chunk :
                        Then(z, LAMBDA v : appendChunkToPacketInternal(
                                    [v EXCEPT !.out.checksum = chunk], chunk)),
                        y, ChunksOf(cell))
    IN  IF isHealthy(y, index) THEN Catch(written, LAMBDA z : handleStreamerFailure(z, index))
        ELSE y

\* Both ways out leave the data buffers at position 0: flipped, or cleared.
writeParityCells(x) ==
    LET y == [x EXCEPT !.out.cells = [i \in Idx |-> <<>>]]
    IN  IF ~checkAnyParityStreamerIsHealthy(x) THEN y
        ELSE ForEach(y, InOrder(ParityIdx), LAMBDA z, i : writeParity(z, i, encode(x.out.cells)))

-----------------------------------------------------------------------------
(* Failures are looked for once per stripe.                                *)

flushAllInternals(x) ==
    LET back   == setCurrentStreamer(FoldLeft(setCurrentStreamer, x, InOrder(Idx)), x.out.cur)
        waited == {i \in Idx : isHealthy(x, i) /\ Pipe(x, i) # <<>>}
    IN  ForEach(back, InOrder(waited),
                LAMBDA y, i : Catch(waitForAcks(y, i), LAMBDA z : handleStreamerFailure(z, i)))

isStreamerWriting(x, i) ==
    /\ GroupBytes(x) > 0
    /\ i \in DataIdx => i < (GroupBytes(x) - 1) \div CellSize + 1

\* The healthy streamers connect again under the new generation stamp; the
\* failure of one is not caught.
updateBlockForPipeline(x, healthy) ==
    IF "updateBlockForPipeline" \in x.env.rpc \/ Named(x, x.out.group[1].id) = {}
    THEN Throw(x, "HdfsIOException")
    ELSE ForEach(x, InOrder(healthy),
                 LAMBDA y, i : IF Pipe(y, i) = <<>> THEN Throw(y, Crash)
                               ELSE IF Gone(y, Pipe(y, i)[1], i)
                               THEN Throw([y EXCEPT !.out.unreached = TRUE], "HdfsIOException")
                               ELSE y)

\* The lengths, sorted, after as many zeros as the vector was made with.
getBlockLengths(x) ==
    LET n == NumData + NumParity
        length(i) == IF isHealthy(x, i) /\ Pipe(x, i) # <<>> THEN Pipe(x, i)[1].sent ELSE -1
    IN  SortSeq([k \in 1 .. 2 * n |-> IF k <= n THEN 0 ELSE length(k - n - 1)],
                LAMBDA a, b : a < b)

getAckedLength(x) ==
    LET sentBytes == GroupBytes(x)
        numFullStripes   == sentBytes \div StripeLen
        fullStripeLength == numFullStripes * StripeLen
        lengths  == getBlockLengths(x)
        stripes  == IF numFullStripes = 0 THEN 0
                    ELSE lengths[Len(lengths) - NumData + 1] * NumData
        expected(i) == numFullStripes * CellSize + lastCellSize(sentBytes - fullStripeLength, i)
        correct == {i \in Idx : lengths[i + 1] = expected(i)}
    IN  IF stripes < fullStripeLength \/ stripes = sentBytes THEN stripes
        ELSE IF Cardinality(correct) >= NumData THEN sentBytes ELSE stripes

\* The length is put back after the call, unless the call fails.
updatePipeline(x) ==
    LET id    == x.out.group[1].id
        sent  == GroupBytes(x)
        acked == getAckedLength(x)
        alive == {i \in Idx : isHealthy(x, i)}
        y == [x EXCEPT !.out.asserts = IF acked > sent THEN @ \cup {"acked"} ELSE @]
    IN  IF "updatePipeline" \in x.env.rpc \/ Named(x, id) = {}
        THEN Throw([y EXCEPT !.out.group[1].numBytes = acked], "HdfsIOException")
        ELSE [y EXCEPT !.nn.groups = [k \in DOMAIN @ |->
                            IF @[k].id = id THEN [@[k] EXCEPT !.numBytes = acked, !.locs = alive]
                            ELSE @[k]]]

checkStreamerFailures(x, needFlush) ==
    LET bump(y) == LET healthy == {i \in Idx : isHealthy(y, i) /\ isStreamerWriting(y, i)}
                   IN  Then(updateBlockForPipeline([y EXCEPT !.out.failed = @ \cup NewFailed(y)],
                                                   healthy),
                            updatePipeline)
        again(y) == Then(checkStreamers(y), LAMBDA z : IF NewFailed(z) = {} THEN z ELSE bump(z))
    IN  Then(checkStreamers(x),
             LAMBDA y : IF NewFailed(y) = {} THEN y
                        ELSE Then(IF needFlush THEN flushAllInternals(y) ELSE y, again))

-----------------------------------------------------------------------------
(* Appending a chunk, and the end of a stripe and of a group.              *)

allocateNewBlock(x) ==
    LET prev == IF x.out.prev4Append # <<>> THEN x.out.prev4Append ELSE x.out.group
        y == replaceFailedStreamers(
                [x EXCEPT !.out.failed = {}, !.out.prev4Append = <<>>,
                          !.out.asserts = IF x.out.cur # 0 THEN @ \cup {"index"} ELSE @])
    IN  Then(addBlock(y, prev),
             LAMBDA z : LET g == Len(z.dn)
                        IN  [z EXCEPT !.out.group = <<[id |-> g, numBytes |-> 0]>>,
                                      !.out.following = FoldLeft(LAMBDA q, i : push(q, i, g), @,
                                                                 InOrder(Idx))])

\* Only a full internal block is ended here; the next one starts from nothing.
closePipeline(x) ==
    LET i == x.out.cur
    IN  IF ~x.out.hasPipe \/ x.out.streamers[i].bytesCurBlock # BlockSize THEN x
        ELSE Then(pipelineClose(setCurrentPacketToEmpty(x)),
                  LAMBDA y : [y EXCEPT !.out.packet = <<>>, !.out.hasPipe = FALSE,
                                       !.out.streamers[i].pipe = <<>>,
                                       !.out.streamers[i].bytesCurBlock = 0])

\* A failure to end an internal block is ignored.
endBlocks(x) ==
    ForEach(x, InOrder(Idx),
            LAMBDA y, i : LET z == setCurrentStreamer(y, i)
                          IN  IF isHealthy(z, i) THEN Catch(closePipeline(z), LAMBDA v : v) ELSE z)

endStripe(x) ==
    Then(writeParityCells(x),
         LAMBDA y : IF shouldEndBlockGroup(y)
                    THEN Then(Then(flushAllInternals(y),
                                   LAMBDA z : checkStreamerFailures(z, FALSE)),
                              endBlocks)
                    ELSE checkStreamerFailures(y, TRUE))

\* CellBuffers::addTo
addTo(x, i, buf) ==
    IF Len(x.out.cells[i]) + Len(buf) > CellSize THEN Throw(x, "IllegalState")
    ELSE [x EXCEPT !.out.cells[i] = @ \o buf]

appendChunkToPacket(x, buf) ==
    LET index == x.out.cur
        place(y) == IF y.out.group = <<>> \/ shouldEndBlockGroup(y) THEN allocateNewBlock(y) ELSE y
        count(y) == [y EXCEPT !.out.group[1].numBytes = @ + Len(buf)]
        hand(y)  == IF ~isHealthy(y, y.out.cur) THEN y
                    ELSE Catch(appendChunkToPacketInternal(y, buf),
                               LAMBDA z : handleStreamerFailure(z, z.out.cur))
        forward(y) == IF Len(y.out.cells[index]) < CellSize THEN y
                      ELSE IF index + 1 < NumData THEN setCurrentStreamer(y, index + 1)
                      ELSE Then(endStripe(y), LAMBDA z : setCurrentStreamer(z, 0))
    IN  Then(Then(Then(Then(addTo(x, index, buf), place), count), hand), forward)

-----------------------------------------------------------------------------
(* Closing the stream.                                                     *)

flushBuffer(x) ==
    IF x.out.buffer = <<>> THEN x
    ELSE Then(appendChunkToPacket(x, x.out.buffer), LAMBDA y : [y EXCEPT !.out.buffer = <<>>])

\* Zeros fill the cells of the last stripe up to the longest of them.
generateParityCellsWhole(x) ==
    [x EXCEPT !.out.cells = [i \in Idx |-> @[i] \o [k \in 1 .. CellSize - Len(@[i]) |-> 0]]]

generateParityCellsForLastStripe(x) ==
    LET lastStripeSize == GroupBytes(x) % StripeLen
        parityCellSize == Min({lastStripeSize, CellSize})
        pad(cell) == cell \o [k \in 1 .. parityCellSize - Len(cell) |-> 0]
    IN  [x EXCEPT !.out.cells = [i \in Idx |-> pad(@[i])],
                  !.out.asserts = IF \E i \in Idx : Len(x.out.cells[i]) > parityCellSize
                                  THEN @ \cup {"last stripe"} ELSE @]

enqueueAllCurrentPackets(x) ==
    LET one(y, i) == LET z == setCurrentStreamer(y, i)
                     IN  IF isHealthy(z, i) /\ z.out.packet # <<>>
                         THEN Catch(sendPacket(z), LAMBDA v : handleStreamerFailure(v, i))
                         ELSE z
    IN  Then(ForEach(x, InOrder(Idx), one), LAMBDA y : setCurrentStreamer(y, x.out.cur))

closeBlocks(x) ==
    LET one(y, i) == LET z == setCurrentStreamer(y, i)
                         v == IF z.out.streamers[i].bytesCurBlock > 0
                              THEN setCurrentPacketToEmpty(z) ELSE z
                     IN  IF isHealthy(z, i) /\ z.out.hasPipe
                         THEN Catch(pipelineClose(v), LAMBDA w : w) ELSE z
    IN  ForEach(x, InOrder(Idx), one)

\* complete() is asked again until it succeeds, fails or closeTimeout is over.
completeFile(x) ==
    LET known == x.out.group = <<>> \/ Commits(x, x.out.group)
    IN  IF "complete" \in x.env.rpc \/ ~known THEN Throw(x, "HdfsIOException")
        ELSE [x EXCEPT !.nn.complete = TRUE,
                       !.nn.groups = IF x.out.group = <<>> THEN @ ELSE Told(x, x.out.group[1])]

\* Whatever happens before, the lease is given back and the stream reset.
closeStream(x) ==
    LET parity(y) == IF GroupBytes(y) % StripeLen = 0 THEN y
                     ELSE writeParityCells(generateParityCellsForLastStripe(y))
        check(y)  == checkStreamerFailures(y, FALSE)
        written   == Then(Then(flushBuffer(x), parity), enqueueAllCurrentPackets)
        ended     == Then(Then(Then(Then(written, flushAllInternals), check), closeBlocks),
                          completeFile)
    IN  [ended EXCEPT !.out.closed = TRUE, !.out.renewing = FALSE]

-----------------------------------------------------------------------------
(* The application writes the sessions of its work one after the other,    *)
(* each a sequence of append sizes; a failed call makes it close the file. *)

CanStillDie == app.maxDead - Cardinality(dead)
WrongSums   == \/ out.buffer # <<>>
               \/ \E i \in Idx : \E k \in DOMAIN out.packets[i] : ~out.packets[i][k].sumsRight
               \/ \E k \in DOMAIN out.packet : ~out.packet[k].sumsRight
Failing     == {d[2] : d \in dead}
Suspects    == IF WrongSums THEN Idx ELSE Failing

\* What may go wrong in a step; only the end of a group has more to offer than
\* answers that come early or late.
Envs(ending) ==
    [noticed   : SUBSET Suspects,
     slow      : {{}} \cup {{i} : i \in Failing},
     lateDeath : IF ending THEN {S \in SUBSET Idx : Cardinality(S) <= CanStillDie} ELSE {{}},
     rpc       : IF ending \/ out.group = <<>> THEN {{}} \cup {{c} : c \in app.rpcFaults} ELSE {{}}]

Now(env)   == [out |-> out, dn |-> dn, nn |-> nn, dead |-> dead, env |-> env, err |-> None]
Becomes(x) == out' = x.out /\ dn' = x.dn /\ nn' = x.nn /\ dead' = x.dead

WriterInit ==
    /\ out = NewStream /\ dn = <<>> /\ dead = {}
    /\ nn = [groups |-> <<>>, complete |-> FALSE]
    /\ \E w \in Works :
         app = [sessions |-> w.sessions, rpcFaults |-> w.rpcFaults, maxDead |-> w.maxDead,
                wholeChunks |-> \A k \in DOMAIN w.sessions :
                                   \A j \in 1 .. Len(w.sessions[k]) - 1 :
                                      w.sessions[k][j] % ChunkSize = 0,
                todo |-> 0, written |-> 0, said |-> None, state |-> "open"]

\* append() is called; a stream that is closed or in error refuses it.
append ==
    /\ app.state = "open" /\ app.todo = 0 /\ Head(app.sessions) # <<>>
    /\ ~out.closed /\ out.lastError = None
    /\ app' = [app EXCEPT !.todo = Head(Head(app.sessions)),
                          !.sessions[1] = Tail(@)]
    /\ UNCHANGED <<out, dn, nn, dead>>

\* One turn of the loop of appendInternal: the checksum is that of the bytes
\* of this turn, also when the chunk holds more.
appendBatch(x) ==
    LET batch  == Min({ChunkSize - Len(x.out.buffer), app.todo})
        bytes  == [k \in 1 .. batch |-> app.written + k]
        y      == [x EXCEPT !.out.checksum = bytes]
        filled == [y EXCEPT !.out.buffer = @ \o bytes]
    IN  IF x.out.buffer = <<>> /\ app.todo >= ChunkSize THEN appendChunkToPacket(y, bytes)
        ELSE IF Len(filled.out.buffer) < ChunkSize THEN filled
        ELSE Then(appendChunkToPacket(filled, filled.out.buffer),
                  LAMBDA z : [z EXCEPT !.out.buffer = <<>>])

EndsGroup == GroupBytes(Now({})) + ChunkSize >= BlockSize * NumData

appendInternal ==
    /\ app.state = "open" /\ app.todo > 0
    /\ \E env \in Envs(EndsGroup) : \E x \in {appendBatch(Now(env))} :
         LET n == Min({ChunkSize - Len(out.buffer), app.todo})
         IN  IF x.err = None
             THEN /\ Becomes(x)
                  /\ app' = [app EXCEPT !.todo = @ - n, !.written = @ + n]
             ELSE /\ Becomes([x EXCEPT !.out.lastError = x.err])
                  /\ app' = [app EXCEPT !.todo = 0, !.said = x.err,
                                        !.state = IF x.err = Crash THEN "crashed" ELSE "failed"]

\* What is left of a closed stream, which hdfsCloseFile deletes.
Deleted(o) == [NewStream EXCEPT !.closed = TRUE, !.renewing = o.renewing, !.asserts = o.asserts,
                                !.stray = o.stray, !.dropped = o.dropped, !.unreached = o.unreached]

close ==
    /\ \/ app.state = "open" /\ app.todo = 0 /\ Head(app.sessions) = <<>>
       \/ app.state = "failed"
    /\ \E env \in Envs(TRUE) : \E x \in {closeStream(Now(env))} :
         /\ Becomes([x EXCEPT !.out = Deleted(x.out)])
         /\ app' = [app EXCEPT !.said  = IF @ = None THEN x.err ELSE @,
                               !.sessions = Tail(@),
                               !.state = IF x.err = Crash THEN "crashed" ELSE "closed"]

\* open() for append: the namenode hands out the last group, and the stream
\* goes on in a new one.
open ==
    /\ app.state = "closed" /\ app.said = None /\ app.sessions # <<>>
    /\ out' = [NewStream EXCEPT !.prev4Append =
                  IF nn.groups = <<>> THEN <<>>
                  ELSE <<[id |-> Last(nn.groups).id, numBytes |-> Last(nn.groups).numBytes]>>]
    /\ nn' = [nn EXCEPT !.complete = FALSE]
    /\ app' = [app EXCEPT !.state = "open"]
    /\ UNCHANGED <<dn, dead>>

\* A datanode goes away, with or without the packets that were not yet
\* acknowledged.
datanodeFails(g, i) ==
    /\ <<g, i>> \notin dead /\ CanStillDie > 0
    /\ dead' = dead \cup {<<g, i>>}
    /\ LET pipe == out.streamers[i].pipe
           mine == pipe # <<>> /\ pipe[1].g = g /\ pipe[1].acked < pipe[1].sent
       IN  \E lost \in IF mine THEN BOOLEAN ELSE {FALSE} :
              out' = IF lost THEN [out EXCEPT !.streamers[i].pipe[1].doomed = TRUE] ELSE out
    /\ UNCHANGED <<dn, nn, app>>

Writing == append \/ appendInternal \/ close \/ open

Finished == \/ app.state = "closed" /\ (app.said # None \/ app.sessions = <<>>)
            \/ app.state \in {"crashed", "reading"}

-----------------------------------------------------------------------------
(* What the writer promises.                                               *)

\* The bytes of internal block i of a group that starts after byte start.
RightBlock(start, numBytes, i) ==
    LET byte(off) == IF off < numBytes THEN start + off + 1 ELSE 0
        column(k) == [d \in 1 .. NumData |-> byte(offsetInBlkToOffsetInBG(k - 1, d - 1))]
    IN  [k \in 1 .. getInternalBlockLength(numBytes, i) |->
            IF i \in DataIdx THEN byte(offsetInBlkToOffsetInBG(k - 1, i)) ELSE column(k)]

StartOf(k) == MapThenSumSet(LAMBDA j : nn.groups[j].numBytes, 1 .. k - 1)
Sound(k)   == {i \in nn.groups[k].locs :
                  LET b == nn.groups[k]
                      r == dn[b.id][i]
                  IN  IF getInternalBlockLength(b.numBytes, i) = 0 THEN TRUE
                      ELSE r.final /\ r.data = RightBlock(StartOf(k), b.numBytes, i)}

Untroubled == app.state = "closed" /\ app.said = None

\* When every append and the close of a file succeeded, the namenode counts
\* all its bytes, and NumData internal blocks of every group hold exactly what
\* the layout asks of them, however many datanodes failed on the way
\* (StripedOutputStreamImpl::close, checkStreamers).
Durable ==
    Untroubled => /\ StartOf(Len(nn.groups) + 1) = app.written
                  /\ \A k \in DOMAIN nn.groups : Cardinality(Sound(k)) >= NumData

\* A call fails only for a reason.  An internal block of the file is lost when
\* its datanode failed, or when the packet being filled for it was dropped
\* because another streamer failed (handleStreamerFailure resets the current
\* packet, whichever it is).  While no more blocks are lost than there are
\* parity blocks, neither append nor close reports an error, except that: the
\* namenode failed; a call cut a chunk; a group was given up for its first
\* internal block; or one more failed datanode was met while the healthy
\* streamers connect again, which checkStreamerFailures does not catch.
Lost == {d[2] : d \in dead} \cup out.dropped
WriteSurvives ==
    (/\ Cardinality(Lost) <= NumParity
     /\ ~out.unreached
     /\ app.rpcFaults = {} /\ app.wholeChunks
     /\ Len(nn.groups) = Len(dn)
     /\ app.state # "crashed") => app.said = None

\* A pipeline is not used after its socket was dropped: the assertion of
\* PipelineImpl::send (Pipeline.cpp:642).
PipelineHasSocket == app.state # "crashed"
=============================================================================
