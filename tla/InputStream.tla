---------------------------- MODULE InputStream -----------------------------
(***************************************************************************)
(* InputStreamImpl: reading a file whose blocks have several replicas.     *)
(* The stream asks the namenode where the blocks are (updateBlockInfos),   *)
(* opens a reader on one replica (setupBlockReader), reads, and on failure *)
(* moves to another replica or asks the namenode again.  The readers are   *)
(* those of BlockReaders; the caches of idle connections (PeerCache) and   *)
(* of block file descriptors (ReadShortCircuitInfo) outlive a stream.      *)
(*                                                                         *)
(* A call is one action that enters it, one action for each exchange with  *)
(* the namenode or a datanode, and one that hands back its result.  In     *)
(* between the last block of the file may grow and be completed, block     *)
(* tokens expire, connections fail.  File offsets are in bytes.            *)
(***************************************************************************)
EXTENDS BlockReaders, LruMap

CONSTANTS
    Locations,             \* the datanodes of every block, nearest first
    LocalNodes,            \* those on the host of the client
    BlockSize,
    PrefetchSize,          \* bytes asked for by one getBlockLocations
    MaxGetBlockInfoRetry,  \* dfs.client.read.getblockinfo.retry
    MaxReadBlockRetry,     \* input.read.max.retry
    MaxSkip,               \* the 128 * 1024 of seekInternal
    CacheSize,             \* of each of the caches
    ReadSizes, SeekTargets,
    MaxCalls, MaxFaults, MaxExpiries, MaxLength,   \* bounds
    Scenarios              \* the files, replicas and configurations to start from

VARIABLES
    scenario,  \* the configuration, and the state of each node's replicas
    file,      \* what the namenode and the datanodes know of the file
    stream,    \* the members of InputStreamImpl
    call,      \* the call in progress: its arguments and local variables
    pc, out,
    peers,     \* PeerCache::Map
    fds,       \* ReadShortCircuitFDCache
    paths,     \* BlockLocalPathInfoCache
    faults, calls,
    steps      \* exchanges of the call in progress

env   == <<scenario, file, faults>>
cache == <<peers, fds, paths>>
vars  == <<scenario, file, stream, call, pc, out, peers, fds, paths, faults, calls, steps>>

Nodes == ToSet(Locations)
Null == [offset |-> -1]
NoReader == [kind |-> "none"]

NoCall == [op |-> "none", arg |-> 0, from |-> 0, length |-> 0, todo |-> 0,
           bytes |-> <<>>, need |-> TRUE, tries |-> 0, refresh |-> 0,
           disable |-> FALSE, fromLocal |-> FALSE, hits |-> 0, hopeless |-> FALSE,
           onCut |-> FALSE]
NoResult == [exc |-> NoException, n |-> 0, refused |-> FALSE]

Visible == file.length + file.writing

(***************************************************************************)
(* The namenode's answer (external), and LocatedBlocksImpl.                *)
(***************************************************************************)
\* file.allocated: the block being written, if any, is there.
BlockAt(o, n) == [offset |-> o, numBytes |-> n, token |-> file.epoch]
getBlockLocations(position) ==
    [init |-> TRUE, fileLength |-> file.length, lastBlockComplete |-> file.complete,
     lastBlock |-> IF file.allocated THEN BlockAt(file.length, 0) ELSE Null,
     blocks |-> {BlockAt(o, Lesser(BlockSize, file.length - o)) :
                 o \in {k * BlockSize : k \in position \div BlockSize
                                             .. (position + PrefetchSize - 1) \div BlockSize}
                       \cap 0..file.length - 1}]
NoLbs == [init |-> FALSE]
\* A LocatedBlocksImpl that getBlockLocations never filled in.
RawLbs == [init |-> FALSE, raw |-> TRUE]

\* LocatedBlocksImpl::findBlock
findBlock(lbs, position) ==
    IF position >= lbs.fileLength THEN lbs.lastBlock
    ELSE LET found == {b \in lbs.blocks : position \in b.offset .. b.offset + b.numBytes - 1}
         IN  IF found = {} THEN Null ELSE CHOOSE b \in found : TRUE

\* MUTANT: the length of the block being written is left out.
getFileLengthCompleted(s) == s.lbs.fileLength

\* InputStreamImpl::getFileLength
getFileLength(s) ==
    s.lbs.fileLength + IF s.lbs.lastBlockComplete THEN 0 ELSE s.lastLen

(***************************************************************************)
(* Members after close(), and for a stream built from located blocks.      *)
(***************************************************************************)
Closed == [closed |-> TRUE, verify |-> TRUE, ucRead |-> FALSE, cursor |-> 0,
           endOfCurBlock |-> 0, lastLen |-> 0, lbs |-> NoLbs, curBlock |-> Null,
           failedNodes |-> {}, curNode |-> Head(Locations), reader |-> NoReader,
           lastError |-> NoException,
           pastEnd |-> FALSE]   \* history: a seek went past the end of the file

Init ==
    /\ scenario \in Scenarios
    /\ file = scenario.file
    /\ stream = [Closed EXCEPT !.lbs = IF scenario.given THEN getBlockLocations(0) ELSE NoLbs]
    /\ call = NoCall /\ pc = "idle" /\ out = NoResult
    /\ peers = EmptyLru /\ fds = EmptyLru /\ paths = EmptyLru
    /\ faults = 0 /\ calls = 0 /\ steps = 0

\* The replica of the block at offset o on node n.
Replica(n) == scenario.replicas[n]
BadIn(n, o) == {b - o : b \in {b \in Replica(n).bad : b \in o .. o + BlockSize - 1}}
ReplicaLength(o) == Lesser(BlockSize, Visible - o)

(***************************************************************************)
(* Destroying the reader: a connection whose datanode was told the status  *)
(* goes to the peer cache, good descriptors to the descriptor cache.       *)
(***************************************************************************)
\* ~RemoteBlockReader and PeerCache::addConnection
ReleasePeer(s) ==
    IF s.reader.kind = "remote" /\ s.reader.sentStatus
    THEN LruInsert(peers, s.curNode, [unread |-> s.reader.stop - s.reader.next], CacheSize)
    ELSE peers

\* ~ReadShortCircuitInfo and ReadShortCircuitInfoBuilder::release
release(s) ==
    IF s.reader.kind = "local" /\ s.reader.valid /\ ~scenario.legacy
    THEN LruInsert(fds, s.curBlock.offset, "open", CacheSize)
    ELSE fds

\* blockReader.reset()
resetReader(s) ==
    /\ peers' = ReleasePeer(s)
    /\ fds' = release(s)
    /\ UNCHANGED paths
NoReset == UNCHANGED cache

(***************************************************************************)
(* How a call ends.  read and readFully keep every error but the end of    *)
(* the file in lastError; seek keeps that one too; an open that fails      *)
(* closes the stream.  readInternal and openInternal make an               *)
(* HdfsIOException of what they do not name.                               *)
(***************************************************************************)
Wrapped(op, exc) ==
    IF \/ op \in {"read", "readFully"} /\ exc \notin {"HdfsEndOfStream", NoException}
       \/ op = "open" /\ exc \notin {"FileNotFoundException", NoException}
    THEN "HdfsIOException" ELSE exc

Sticky(op, exc) ==
    exc # NoException /\ ~(op \in {"read", "readFully"} /\ exc = "HdfsEndOfStream")

finish(s, exc, n) ==
    /\ pc' = "returned"
    /\ out' = [exc |-> Wrapped(call.op, exc), n |-> n, refused |-> FALSE]
    /\ stream' = IF call.op = "open"
                 THEN IF exc = NoException THEN [s EXCEPT !.closed = FALSE] ELSE Closed
                 ELSE IF Sticky(call.op, exc)
                      THEN [s EXCEPT !.lastError = Wrapped(call.op, exc),
                                     !.pastEnd = call.op = "seek" /\ call.arg > call.length]
                      ELSE s

goto(label) == pc' = label /\ UNCHANGED out

(***************************************************************************)
(* Entering a call.                                                        *)
(***************************************************************************)
\* The last packet of the stream's reader was cut off: with
\* input.notretry-another-node (stay) readOneBlock leaves such a reader in place.
CutOff == stream.reader.kind = "remote" /\ ~stream.reader.full

Begin(op, arg) ==
    /\ pc = "idle" /\ calls < MaxCalls
    /\ calls' = calls + 1
    /\ call' = [NoCall EXCEPT !.op = op, !.arg = arg, !.from = stream.cursor,
                              !.length = Visible, !.todo = arg,
                              !.refresh = MaxReadBlockRetry, !.onCut = CutOff]

\* checkStatus
checkStatus ==
    IF stream.closed THEN "HdfsIOException" ELSE stream.lastError

Refused ==
    /\ checkStatus # NoException
    /\ pc' = "returned" /\ out' = [exc |-> checkStatus, n |-> 0, refused |-> TRUE]
    /\ UNCHANGED <<env, stream>> /\ NoReset

open ==
    /\ pc = "idle" /\ calls < MaxCalls /\ stream.closed
    /\ calls' = calls + 1
    /\ stream' = [stream EXCEPT !.verify = scenario.verify]
    /\ call' = [NoCall EXCEPT !.op = "open", !.need = stream.lbs = NoLbs,
                              !.length = Visible]
    /\ goto("update") /\ UNCHANGED env /\ NoReset

read(size) ==
    /\ Begin("read", size)
    /\ \/ Refused
       \/ /\ checkStatus = NoException /\ goto("loop")
          /\ UNCHANGED <<env, stream>> /\ NoReset

readFully(size) ==
    /\ Begin("readFully", size)
    /\ \/ Refused
       \/ /\ checkStatus = NoException /\ goto("loop")
          /\ UNCHANGED <<env, stream>> /\ NoReset

seek(pos) ==
    /\ Begin("seek", pos)
    /\ \/ Refused
       \/ /\ checkStatus = NoException
          /\ pc' = IF stream.cursor = pos THEN "returned"
                   ELSE IF stream.lbs = NoLbs \/ pos > getFileLength(stream) THEN "update"
                   ELSE "seekTo"
          /\ UNCHANGED <<env, stream, out>> /\ NoReset

availableCall ==
    /\ Begin("available", 0)
    /\ \/ Refused
       \/ /\ checkStatus = NoException /\ pc' = "returned"
          /\ out' = [exc |-> NoException, refused |-> FALSE,
                     n |-> IF stream.reader = NoReader THEN 0 ELSE available(stream.reader)]
          /\ UNCHANGED <<env, stream>> /\ NoReset

close ==
    /\ Begin("close", 0)
    /\ pc' = "returned" /\ UNCHANGED <<env, out>>
    /\ stream' = Closed
    /\ resetReader(stream)

(***************************************************************************)
(* updateBlockInfos: one try.                                              *)
(***************************************************************************)
\* readBlockLength, with the answer of each datanode: the first length, or
\* 0 when none has the replica yet, or -1.
readBlockLength(answers) ==
    IF \E n \in Nodes : answers[n] = "length" THEN file.writing
    ELSE IF \A n \in Nodes : answers[n] = "ReplicaNotFoundException" THEN 0 ELSE -1

\* The answers of the datanodes; a lost one costs a fault.
LengthAnswers ==
    {a \in [Nodes -> {"length", "ReplicaNotFoundException", "lost"}] :
        \A n \in Nodes : a[n] # "lost" =>
            (a[n] = "ReplicaNotFoundException" <=> Replica(n).missing)}
Lost(a) == Cardinality({n \in Nodes : a[n] = "lost"})

\* The last try gives up, an earlier one is repeated; only an
\* HdfsRpcException and a length no datanode gave are tried again.
tryAgain(exc, s, again) ==
    IF again /\ call.tries + 1 < MaxGetBlockInfoRetry
    THEN /\ goto("update") /\ stream' = s
         /\ call' = [call EXCEPT !.tries = @ + 1, !.need = TRUE, !.hits = @ + 1]
    ELSE /\ finish(s, exc, 0)
         /\ call' = [call EXCEPT !.hits = @ + 1, !.hopeless = @ \/ ~again]

updated(s) ==
    /\ IF call.op = "open" THEN finish(s, NoException, 0)
       ELSE goto(IF call.op = "seek" THEN "seekTo" ELSE "found") /\ stream' = s
    /\ call' = [call EXCEPT !.tries = 0, !.need = TRUE]

updateBlockInfos ==
    /\ pc = "update"
    /\ LET fresh == [stream EXCEPT !.lbs = IF call.need THEN getBlockLocations(stream.cursor)
                                           ELSE @]
           raw   == [stream EXCEPT !.lbs = IF @ = NoLbs THEN RawLbs ELSE @]
       IN  \/ /\ call.need /\ faults < MaxFaults
              /\ faults' = faults + 1
              /\ \E exc \in {"HdfsRpcException", "FileNotFoundException"} :
                    tryAgain(exc, raw, IsA(exc, "HdfsRpcException"))
           \/ /\ fresh.lbs.lastBlockComplete \/ fresh.lbs.lastBlock = Null
              /\ updated([fresh EXCEPT !.lastLen = 0])
              /\ UNCHANGED faults
           \/ /\ ~fresh.lbs.lastBlockComplete /\ fresh.lbs.lastBlock # Null
              /\ \E a \in LengthAnswers :
                    LET n == readBlockLength(a)
                        s == [fresh EXCEPT !.lastLen = n]
                    IN  /\ faults + Lost(a) <= MaxFaults
                        /\ faults' = faults + Lost(a)
                        /\ IF n = -1 THEN tryAgain("HdfsIOException", s, TRUE)
                           ELSE updated([s EXCEPT !.lbs.lastBlock.numBytes = n])
    /\ UNCHANGED <<scenario, file, calls>> /\ NoReset

(***************************************************************************)
(* readInternal                                                            *)
(***************************************************************************)
\* seekToBlock
seekToBlock(lb) ==
    [stream EXCEPT !.ucRead = stream.cursor >= stream.lbs.fileLength, !.curBlock = lb,
                   !.endOfCurBlock = lb.offset + lb.numBytes,
                   !.failedNodes = {}, !.reader = NoReader]

enterBlock ==
    LET lb == findBlock(stream.lbs, stream.cursor)
    IN  IF stream.cursor < stream.endOfCurBlock
        THEN goto("block") /\ UNCHANGED stream /\ NoReset
        ELSE IF lb = Null THEN finish(stream, "HdfsIOException", 0) /\ NoReset
        ELSE goto("block") /\ stream' = seekToBlock(lb) /\ resetReader(stream)

\* The head of the loop: are the block locations there?
readInternal ==
    /\ pc = "loop"
    /\ IF \/ stream.lbs = NoLbs
          \/ stream.cursor >= getFileLength(stream)
          \/ /\ stream.cursor >= stream.endOfCurBlock
             /\ findBlock(stream.lbs, stream.cursor) = Null
       THEN goto("update") /\ UNCHANGED stream /\ NoReset
       ELSE enterBlock
    /\ call' = [call EXCEPT !.disable = FALSE, !.fromLocal = FALSE]
    /\ UNCHANGED <<env, calls>>

afterUpdate ==
    /\ pc = "found"
    /\ IF stream.cursor >= getFileLength(stream)
       THEN finish(stream, "HdfsEndOfStream", 0) /\ NoReset
       ELSE enterBlock
    /\ UNCHANGED <<env, call, calls>>

\* readOneBlock returned -1: forget the locations, and round again.
updateMetadata ==
    /\ stream' = [stream EXCEPT !.lbs = NoLbs, !.endOfCurBlock = 0]
    /\ goto("loop")

\* MUTANT: nodes that failed are not passed over.
UsableAll == Locations

(***************************************************************************)
(* setupBlockReader: one node, read from its files or from the datanode.   *)
(***************************************************************************)
\* choseBestNode
Usable == SelectSeq(Locations, LAMBDA n : n \notin stream.failedNodes)
choseBestNode == Head(Usable)
\* isLocalNode: the node has an address of this host (BuildLocalAddrSet).
isLocalNode == choseBestNode \in LocalNodes

tryLocal ==
    /\ ~call.disable /\ ~call.fromLocal /\ ~stream.ucRead /\ scenario.localRead
    /\ isLocalNode

tokenValid == stream.curBlock.token = file.epoch

\* An exception leaves setupBlockReader, and readOneBlock or the call.
setupThrows(exc) ==
    IF exc = "HdfsInvalidBlockToken" \/ (IsA(exc, "HdfsIOException") /\ call.refresh > 0)
    THEN updateMetadata /\ call' = [call EXCEPT !.refresh = @ - 1, !.hits = @ + 1]
    ELSE finish(stream, exc, 0)
         /\ call' = [call EXCEPT !.hopeless = @ \/ ~IsA(exc, "HdfsIOException")]

allNodesTried ==
    /\ pc = "block" /\ stream.reader = NoReader /\ Usable = <<>>
    /\ IF call.refresh > 0
       THEN updateMetadata /\ call' = [call EXCEPT !.refresh = @ - 1]
       ELSE finish(stream, "HdfsIOException", 0) /\ UNCHANGED call
    /\ UNCHANGED <<env, calls>> /\ NoReset

(***************************************************************************)
(* ReadShortCircuitInfoBuilder: the files of a block, by their paths       *)
(* (legacy) or as descriptors passed over the datanode's domain socket.    *)
(***************************************************************************)
\* Asking for descriptors: connecting and sending, then the answer.
\* Again a timeout of the answer keeps its class.
requestFdsFaults == [connect |-> "HdfsNetworkConnectException", send |-> "HdfsIOException"]
receiveFdsFaults ==
    [closed |-> "HdfsEndOfStream", slow |-> "HdfsTimeoutException",
     token |-> "HdfsInvalidBlockToken", error |-> "HdfsIOException"]
\* getBlockLocalPathInfo wraps what the datanode answers; the files may be
\* unreadable (no exception: "none") or fail to open.
localPathFaults == [none |-> NoException, error |-> "HdfsIOException"]

LocalFaults ==
    IF scenario.legacy THEN localPathFaults ELSE requestFdsFaults @@ receiveFdsFaults

\* Descriptors of the cache need no datanode; a datanode refuses an old
\* token; everything else is a fault.
Expected(b) ==
    IF ~scenario.legacy /\ b \in LruKeys(fds) THEN "ok"
    ELSE IF Replica(choseBestNode).missing THEN IF scenario.legacy THEN "none" ELSE "error"
    ELSE IF ~scenario.legacy /\ ~tokenValid THEN "token"
    ELSE "ok"
LocalOutcomes(b) ==
    IF scenario.legacy /\ scenario.secure THEN {"none"}
    ELSE {Expected(b)}
         \cup {o \in DOMAIN LocalFaults \ {"token"} : faults < MaxFaults /\ Expected(b) = "ok"}

\* getBlockLocalPathInfo and invalidBlockLocalPathInfo: the path cache.
pathsAfter(b, o) ==
    IF o = "none" THEN LruErase(paths, b)
    ELSE IF b \in LruKeys(paths) THEN LruFind(paths, b)
    ELSE IF o = "ok" THEN LruInsert(paths, b, "path", CacheSize)
    ELSE paths

\* fetchOrCreate: the caches after it.  Cached descriptors are taken out,
\* also when they turn out to be unusable and new ones are asked for.
fetchOrCreate(b, o) ==
    /\ fds' = IF scenario.legacy THEN fds ELSE LruErase(fds, b)
    /\ paths' = IF scenario.legacy /\ ~scenario.secure THEN pathsAfter(b, o) ELSE paths

setupLocal ==
    /\ pc = "block" /\ stream.reader = NoReader /\ Usable # <<>> /\ tryLocal
    /\ LET b == stream.curBlock.offset
           n == choseBestNode
           c == LocalBlockReader(stream.curBlock.numBytes, BadIn(n, b), stream.cursor - b,
                                 stream.verify, Replica(n).type)
       IN  \E o \in LocalOutcomes(b) :
              LET exc == IF o = "ok" THEN c.exc ELSE LocalFaults[o]
              IN  /\ fetchOrCreate(b, o) /\ UNCHANGED peers
                  /\ faults' = IF o = Expected(b) \/ scenario.secure THEN faults ELSE faults + 1
                  /\ IF exc # NoException /\ ~IsA(exc, "HdfsIOException")
                     THEN setupThrows(exc)
                     ELSE LET set == o = "ok" /\ exc = NoException
                          IN  /\ stream' = [stream EXCEPT !.curNode = n,
                                               !.reader = IF set THEN c.r ELSE NoReader]
                              /\ call' = [call EXCEPT !.disable = @ /\ ~set,
                                                      !.fromLocal = ~set]
                              /\ goto("block")
    /\ UNCHANGED <<scenario, file, calls>>

\* A connection of the cache may have been closed by its datanode meanwhile.
RemoteOutcomes(n) ==
    {IF ~tokenValid THEN "token" ELSE IF Replica(n).missing THEN "error" ELSE "ok"}
    \cup {o \in DOMAIN ResponseFaults \ {"token", "error"} : faults < MaxFaults}
    \cup {o \in {"closed", "send"} : n \in LruKeys(peers)}

setupRemote ==
    /\ pc = "block" /\ stream.reader = NoReader /\ Usable # <<>> /\ ~tryLocal
    /\ LET b == stream.curBlock.offset
           n == choseBestNode
           cached == n \in LruKeys(peers)
       IN  \E o \in RemoteOutcomes(n) :
              LET c == RemoteBlockReader(ReplicaLength(b), BadIn(n, b), stream.cursor - b,
                                         stream.curBlock.numBytes - (stream.cursor - b),
                                         stream.verify, Replica(n).type, o)
                  fault == \/ o \in {"connect", "timeout", "slow"}
                           \/ o \in {"closed", "send"} /\ ~cached
              IN  /\ ~(o \in {"connect", "timeout"} /\ cached)
                  /\ peers' = LruErase(peers, n) /\ UNCHANGED <<fds, paths>>
                  /\ faults' = IF fault THEN faults + 1 ELSE faults
                  /\ IF c.exc # NoException /\ ~IsA(c.exc, "HdfsIOException")
                     THEN setupThrows(c.exc)
                     ELSE /\ goto("block")
                          /\ stream' = [stream EXCEPT !.curNode = n,
                                !.reader = IF c.exc = NoException THEN c.r ELSE NoReader,
                                !.failedNodes = IF c.exc = NoException THEN @ ELSE @ \cup {n}]
                          /\ call' = [call EXCEPT !.fromLocal = FALSE,
                                !.disable = @ /\ c.exc # NoException,
                                !.hits = IF fault THEN @ + 1 ELSE @]
    /\ UNCHANGED <<scenario, file, calls>>

(***************************************************************************)
(* The rest of readOneBlock: read from the reader, or give it up.          *)
(***************************************************************************)
Remaining == IF call.op = "read" THEN call.arg ELSE call.todo

readerRead(o) ==
    LET n == Lesser(Remaining, stream.endOfCurBlock - stream.cursor)
    IN  IF stream.reader.kind = "remote" THEN remoteRead(stream.reader, n, o)
        ELSE IF o = "ok" THEN localRead(stream.reader, n)
        ELSE Invalidated(Throw(stream.reader, "HdfsIOException"))

\* Bytes of the current block as bytes of the file.
InFile(bytes) ==
    [i \in DOMAIN bytes |-> IF bytes[i] \in {Damaged, Garbage} THEN bytes[i]
                            ELSE stream.curBlock.offset + bytes[i]]

readDone(res) ==
    LET n == Len(res.bytes)
        s == [stream EXCEPT !.cursor = @ + n, !.reader = res.r]
        more == call.op = "readFully" /\ call.todo > n
    IN  /\ call' = [call EXCEPT !.bytes = @ \o InFile(res.bytes), !.todo = @ - n,
                                !.refresh = IF more THEN MaxReadBlockRetry ELSE @]
        /\ IF more THEN goto("loop") /\ stream' = s ELSE finish(s, NoException, n)
        /\ NoReset

\* MUTANT: a node whose files cannot be read counts as failed.
giveUpReaderLocal(r) ==
    /\ stream' = [stream EXCEPT !.reader = NoReader, !.failedNodes = @ \cup {stream.curNode}]
    /\ call' = [call EXCEPT !.fromLocal = FALSE,
                            !.hits = IF r.kind = "remote" THEN @ + 1 ELSE @]
    /\ goto("block") /\ resetReader([stream EXCEPT !.reader = r])

giveUpReader(r) ==
    LET remote == r.kind = "remote"
        s == [stream EXCEPT !.reader = r]
    IN  /\ stream' = [stream EXCEPT !.reader = NoReader,
                          !.failedNodes = IF remote THEN @ \cup {stream.curNode} ELSE @]
        /\ call' = [call EXCEPT !.disable = @ \/ ~remote, !.fromLocal = FALSE,
                                !.hits = IF remote THEN @ + 1 ELSE @]
        /\ goto("block") /\ resetReader(s)

readOneBlock ==
    /\ pc = "block" /\ stream.reader # NoReader
    /\ \E o \in PacketOutcomes :
          LET res == readerRead(o)
          IN  /\ o # "ok" => /\ faults < MaxFaults /\ res.exc # NoException
                             /\ stream.reader.position >= stream.reader.size
              /\ faults' = IF o = "ok" THEN faults ELSE faults + 1
              /\ IF res.exc = NoException THEN readDone(res)
                 ELSE IF scenario.stay /\ IsA(res.exc, "HdfsIOException")
                 THEN /\ finish([stream EXCEPT !.reader = res.r], res.exc, 0)
                      /\ UNCHANGED call /\ NoReset
                 ELSE giveUpReader(res.r)
    /\ UNCHANGED <<scenario, file, calls>>

(***************************************************************************)
(* The rest of seekInternal.                                               *)
(***************************************************************************)
readerSkip(n, o) ==
    IF stream.reader.kind = "remote" THEN remoteSkip(stream.reader, n, o)
    ELSE IF o = "ok" THEN localSkip(stream.reader, n)
    ELSE Invalidated(Throw(stream.reader, "HdfsIOException"))

seekAway(r) ==
    LET s == [stream EXCEPT !.reader = r]
    IN  /\ finish([stream EXCEPT !.endOfCurBlock = 0, !.reader = NoReader, !.cursor = call.arg],
                  NoException, 0)
        /\ resetReader(s)

CanSkip ==
    /\ stream.reader # NoReader
    /\ call.arg > stream.cursor /\ call.arg < stream.endOfCurBlock
    /\ call.arg - stream.cursor <= MaxSkip

seekInternal ==
    /\ pc = "seekTo"
    /\ \/ /\ call.arg > getFileLength(stream)
          /\ finish(stream, "HdfsEndOfStream", 0) /\ NoReset /\ UNCHANGED faults
       \/ /\ call.arg <= getFileLength(stream) /\ ~CanSkip
          /\ seekAway(stream.reader) /\ UNCHANGED faults
       \/ /\ call.arg <= getFileLength(stream) /\ CanSkip
          /\ \E o \in PacketOutcomes :
                LET res == readerSkip(call.arg - stream.cursor, o)
                IN  /\ o # "ok" => faults < MaxFaults /\ res.exc # NoException
                    /\ faults' = IF o = "ok" THEN faults ELSE faults + 1
                    /\ IF res.exc # NoException THEN seekAway(res.r)
                       ELSE /\ finish([stream EXCEPT !.cursor = call.arg, !.reader = res.r],
                                      NoException, 0)
                            /\ NoReset
    /\ UNCHANGED <<scenario, file, call, calls>>

takeResult ==
    /\ pc = "returned"
    /\ pc' = "idle" /\ call' = NoCall /\ out' = NoResult
    /\ UNCHANGED <<env, stream, calls>> /\ NoReset

(***************************************************************************)
(* The rest of the system: the writer of the file, and the block tokens.   *)
(***************************************************************************)
grow ==
    /\ ~file.complete /\ Visible < MaxLength
    /\ file' = IF ~file.allocated THEN [file EXCEPT !.allocated = TRUE]
               ELSE IF file.writing < BlockSize THEN [file EXCEPT !.writing = @ + 1]
               ELSE [file EXCEPT !.length = Visible, !.writing = 0]
    /\ UNCHANGED <<scenario, stream, call, pc, out, peers, fds, paths, faults, calls>>

completeFile ==
    /\ ~file.complete
    /\ file' = [file EXCEPT !.complete = TRUE, !.allocated = FALSE,
                            !.length = Visible, !.writing = 0]
    /\ UNCHANGED <<scenario, stream, call, pc, out, peers, fds, paths, faults, calls>>

expireTokens ==
    /\ file.epoch < MaxExpiries /\ scenario.expiring
    /\ file' = [file EXCEPT !.epoch = @ + 1]
    /\ UNCHANGED <<scenario, stream, call, pc, out, peers, fds, paths, faults, calls>>

Calls ==
    \/ open \/ close \/ availableCall
    \/ \E n \in ReadSizes : read(n) \/ readFully(n)
    \/ \E p \in SeekTargets : seek(p)
    \/ takeResult
Steps ==
    \/ updateBlockInfos \/ readInternal \/ afterUpdate \/ allNodesTried
    \/ setupLocal \/ setupRemote \/ readOneBlock \/ seekInternal
Environment == grow \/ completeFile \/ expireTokens
\* The client has made its calls.
rest == pc = "idle" /\ calls = MaxCalls /\ UNCHANGED vars

Next ==
    \/ Calls /\ steps' = 0
    \/ Steps /\ steps' = steps + 1
    \/ Environment /\ UNCHANGED steps
    \/ rest

Spec == Init /\ [][Next]_vars

(***************************************************************************)
(* Properties.                                                             *)
(***************************************************************************)
Reading == call.op \in {"read", "readFully"}

\* Bytes whose damage the remote reader's checksums do not show: those of a
\* partial chunk at the end of a block (verifyChecksum).
Unchecked(i) ==
    LET o == i - (i % BlockSize)
    IN  RoundDown(i - o) + ChunkSize > ReplicaLength(o)

\* What read and readFully copy to the caller are the bytes of the file from
\* the position the stream was at, in order and without a gap, whichever
\* replicas, readers, packets and buffers they came through and whatever
\* failed on the way; with verification no damaged byte of a checked chunk is
\* among them.  There is one exception, which the code has: when a datanode
\* closes the connection in the middle of a packet and another node must not be
\* tried, the next read takes bytes out of the packet that never came.
BytesAreTheFiles ==
    pc = "returned" /\ Reading /\ out.exc = NoException =>
        /\ call.op = "readFully" => Len(call.bytes) = call.arg
        /\ \A i \in DOMAIN call.bytes :
              \/ call.bytes[i] = call.from + i - 1
              \/ /\ call.bytes[i] = Damaged
                 /\ ~scenario.verify \/ Unchecked(call.from + i - 1)
              \/ call.bytes[i] = Garbage /\ scenario.stay /\ call.onCut

\* A stream reports the end of the file (hdfsRead returns 0) only when the
\* bytes asked for were not in the file as it was when the call began, and no
\* failure of a datanode is taken for the end of the file, with two exceptions
\* the code has: a connection that is cut off when another node must not be
\* tried; and every call after a seek past the end, for seek keeps that error
\* (lastError) and checkStatus throws it again wherever the position is.
EndOfFileIsReal ==
    pc = "returned" /\ out.exc = "HdfsEndOfStream" =>
        \/ call.length <= CASE call.op = "read"      -> call.from
                            [] call.op = "readFully" -> call.from + call.arg - 1
                            [] call.op = "seek"      -> call.arg - 1
                            [] OTHER                 -> -1
        \/ scenario.stay /\ CutOff
        \/ out.refused /\ stream.pastEnd

\* A replica that can be read: it is there, its header is understood and
\* its checked chunks are sound.
Sound(n) ==
    ~Replica(n).missing /\ Replica(n).type # "bad"
        /\ (scenario.verify => \A i \in Replica(n).bad : Unchecked(i))

\* While one node has a sound replica of every block, a read fails only
\* after more faults than it has retries for (or a fault no retry answers):
\* unusable local files, connections of the cache that died, damaged and
\* missing replicas and expired tokens never make it fail.  This is for the
\* default configuration: with input.notretry-another-node the first failure
\* of a reader is final.
GoodReplicaIsRead ==
    pc = "returned" /\ Reading /\ out.exc = "HdfsIOException" /\ ~scenario.stay
      /\ ~out.refused /\ call.hits < Lesser(MaxReadBlockRetry, MaxGetBlockInfoRetry)
      /\ ~call.hopeless
      => \A n \in Nodes : ~Sound(n)

\* Every call returns, after a number of exchanges its retries bound: each
\* round asks the namenode at most MaxGetBlockInfoRetry times and tries every
\* node at most four times (its files, then the datanode; set up, then read);
\* there are MaxReadBlockRetry rounds more than one, and one for each token
\* that expires.  readFully makes as many reads as it is given bytes, at most.
RoundsAreBounded ==
    LET round == MaxGetBlockInfoRetry + 4 * Len(Locations) + 3
        reads == IF call.op = "readFully" THEN call.arg ELSE 1
    IN  steps <= reads * round * (MaxReadBlockRetry + 1 + MaxExpiries)
=============================================================================
