---------------------------- MODULE Conversions ----------------------------
(***************************************************************************)
(* What crosses between the client's own objects and the messages of the   *)
(* namenode (server/RpcHelper.h), the C interface's structures             *)
(* (client/Hdfs.cpp) and the mode bits of a permission                     *)
(* (client/Permission.h), with the cache of erasure coding policies that   *)
(* the conversion of a file fills (client/SystemECPolicies.cpp).           *)
(*                                                                         *)
(* Messages and objects are records with the fields of each side.          *)
(***************************************************************************)
EXTENDS Integers, Sequences, FiniteSets, TLC, SequencesExt

-----------------------------------------------------------------------------
(* Blocks, nodes and tokens *)

ConvertExtendedBlock(proto) ==
    [blockId |-> proto.blockid, generationStamp |-> proto.generationstamp,
     numBytes |-> proto.numbytes, poolId |-> proto.poolid]

BuildExtendedBlock(eb) ==
    [blockid |-> eb.blockId, generationstamp |-> eb.generationStamp,
     numbytes |-> eb.numBytes, poolid |-> eb.poolId]

ConvertToken(proto) ==
    [identifier |-> proto.identifier, kind |-> proto.kind,
     password |-> proto.password, service |-> proto.service]

\* The token a call returns: without its service, which
\* FileSystemImpl::getDelegationToken sets to its own.
ConvertDelegationToken(proto, tokenService) == [ConvertToken(proto) EXCEPT !.service = tokenService]

BuildToken(token) ==
    [identifier |-> token.identifier, kind |-> token.kind,
     password |-> token.password, service |-> token.service]

ConvertDatanodeInfo(proto) ==
    [hostName |-> proto.id.hostname, infoPort |-> proto.id.infoport, ipAddr |-> proto.id.ipaddr,
     ipcPort |-> proto.id.ipcport, datanodeId |-> proto.id.datanodeuuid,
     xferPort |-> proto.id.xferport, location |-> proto.location]

BuildDatanodeID(dn) ==
    [hostname |-> dn.hostName, infoport |-> dn.infoPort, ipaddr |-> dn.ipAddr,
     ipcport |-> dn.ipcPort, datanodeuuid |-> dn.datanodeId, xferport |-> dn.xferPort]

BuildDatanodeInfos(dns) == [i \in DOMAIN dns |-> [id |-> BuildDatanodeID(dns[i]), location |-> dns[i].location]]

\* A block with its nodes; only a striped one has indices and a token for each
\* of its internal blocks.
ConvertLocatedBlock(proto) ==
    LET striped == proto.blockindices # <<>>
    IN  [block |-> ConvertExtendedBlock(proto.b), offset |-> proto.offset, corrupt |-> proto.corrupt,
         locations |-> [i \in DOMAIN proto.locs |-> ConvertDatanodeInfo(proto.locs[i])],
         storageIDs |-> IF proto.storagetypes = <<>> THEN <<>> ELSE SubSeq(proto.storageids, 1, Len(proto.storagetypes)),
         token |-> ConvertToken(proto.blocktoken), striped |-> striped,
         indices |-> IF striped THEN proto.blockindices[1] ELSE <<>>,
         tokens |-> IF striped THEN [i \in DOMAIN proto.blocktokens |-> ConvertToken(proto.blocktokens[i])]
                    ELSE <<>>]

BuildLocatedBlock(lb) ==
    [corrupt |-> lb.corrupt, offset |-> lb.offset, b |-> BuildExtendedBlock(lb.block),
     locs |-> BuildDatanodeInfos(lb.locations)]

\* DataTransferProtocolSender: the operations on a block and what their messages
\* carry.  The size of the pipeline is the number of targets; the parameter is
\* not used.
BuildBaseHeader(block, token) == [block |-> BuildExtendedBlock(block), token |-> BuildToken(token)]
BuildClientHeader(block, token, clientName) ==
    [clientname |-> clientName, baseheader |-> BuildBaseHeader(block, token)]

readBlock(block, token, clientName, blockOffset, length) ==
    [op |-> "READ_BLOCK", header |-> BuildClientHeader(block, token, clientName),
     offset |-> blockOffset, len |-> length]

writeBlock(block, token, clientName, targets, stage, pipelineSize, minBytesRcvd, maxBytesRcvd, stamp) ==
    [op |-> "WRITE_BLOCK", header |-> BuildClientHeader(block, token, clientName),
     targets |-> BuildDatanodeInfos(targets), stage |-> stage, pipelinesize |-> Len(targets),
     minbytesrcvd |-> minBytesRcvd, maxbytesrcvd |-> maxBytesRcvd, latestgenerationstamp |-> stamp]

transferBlock(block, token, clientName, targets) ==
    [op |-> "TRANSFER_BLOCK", header |-> BuildClientHeader(block, token, clientName),
     targets |-> BuildDatanodeInfos(targets)]

requestShortCircuitFds(block, token, maxVersion) ==
    [op |-> "REQUEST_SHORT_CIRCUIT_FDS", header |-> BuildBaseHeader(block, token), maxversion |-> maxVersion]

\* The blocks of a file, sorted by their offset.
ConvertLocatedBlocks(protos) ==
    SortSeq([i \in DOMAIN protos |-> ConvertLocatedBlock(protos[i])], LAMBDA a, b : a.offset < b.offset)

\* FileSystemImpl's Convert: the location of a block as a user sees it.
XferAddr(dn) == <<dn.ipAddr, dn.xferPort>>
ConvertBlockLocation(lb) ==
    [corrupt |-> lb.corrupt, length |-> lb.block.numBytes, offset |-> lb.offset,
     hosts |-> [i \in DOMAIN lb.locations |-> lb.locations[i].hostName],
     names |-> [i \in DOMAIN lb.locations |-> XferAddr(lb.locations[i])],
     topologyPaths |-> [i \in DOMAIN lb.locations |->
                            <<lb.locations[i].location>> \o XferAddr(lb.locations[i])]]

\* ConstructFileBlockLocation: the same in arrays of the C interface.
ConstructFileBlockLocation(bl) ==
    LET n == Len(bl.names)
    IN  [corrupt |-> bl.corrupt, numOfNodes |-> n, length |-> bl.length, offset |-> bl.offset,
         hosts |-> [i \in 1 .. n |-> bl.hosts[i]], names |-> [i \in 1 .. n |-> bl.names[i]],
         topologyPaths |-> [i \in 1 .. n |-> bl.topologyPaths[i]]]

-----------------------------------------------------------------------------
(* Permissions *)

Actions == 0 .. 7   \* NONE, EXECUTE, WRITE, WRITE_EXECUTE, READ, ..., ALL

PermissionOf(mode) ==
    [user |-> (mode \div 64) % 8, group |-> (mode \div 8) % 8, other |-> mode % 8,
     sticky |-> (mode \div 512) % 2 = 1]

toShort(p) == p.user * 64 + p.group * 8 + p.other + (IF p.sticky THEN 512 ELSE 0)

-----------------------------------------------------------------------------
(* The status of a file and its erasure coding policy *)

Int8(n) == IF n % 256 >= 128 THEN (n % 256) - 256 ELSE n % 256

\* SystemECPolicies: one cache for the process, by id; the policies every cluster
\* has are in it from the start.
NewECPolicy(id, cellSize, data, parity, codec) ==
    [id |-> id, cellSize |-> cellSize, numDataUnits |-> data, numParityUnits |-> parity, codecName |-> codec]
getById(maps, id) == IF id \in DOMAIN maps THEN <<maps[id]>> ELSE <<>>
addEcPolicy(maps, id, policy) == maps @@ (id :> policy)

\* A policy the cache has is taken from it, another is built from the message and
\* added.
ConvertErasureCodingPolicy(maps, proto) ==
    LET id  == Int8(proto.id)
        new == NewECPolicy(id, proto.cellsize, proto.dataunits, proto.parityunits, proto.codecname)
    IN  IF getById(maps, id) # <<>> THEN [policy |-> maps[id], maps |-> maps]
        ELSE [policy |-> new, maps |-> addEcPolicy(maps, id, new)]

ConvertFileStatus(src, proto) ==
    [path |-> <<src, proto.path>>, length |-> proto.length, isdir |-> proto.filetype = "IS_DIR",
     replication |-> proto.block_replication, blocksize |-> proto.blocksize,
     accessTime |-> proto.access_time, modificationTime |-> proto.modification_time,
     owner |-> proto.owner, group |-> proto.group, permission |-> PermissionOf(proto.perm),
     fileId |-> proto.fileid]

\* Milliseconds become seconds.
ConstructHdfsFileInfo(status) ==
    [mBlockSize |-> status.blocksize, mGroup |-> status.group, mOwner |-> status.owner,
     mKind |-> IF status.isdir THEN "directory" ELSE "file", mName |-> status.path,
     mLastAccess |-> status.accessTime \div 1000, mLastMod |-> status.modificationTime \div 1000,
     mPermissions |-> toShort(status.permission), mReplication |-> status.replication,
     mSize |-> status.length]

-----------------------------------------------------------------------------

\* What the namenode said of a block, its nodes and its access token is what the
\* namenode is told of them later (abandonBlock, updatePipeline, ...) and what the
\* datanodes are shown by every operation on the block.
SentBackUnchanged(proto) ==
    LET lb   == ConvertLocatedBlock(proto)
        back == BuildLocatedBlock(lb)
        base == [block |-> proto.b, token |-> proto.blocktoken]
        write == writeBlock(lb.block, lb.token, "c", lb.locations, "create", 0, 0, 0, 0)
    IN  /\ back.b = proto.b /\ back.locs = proto.locs /\ back.offset = proto.offset
        /\ {readBlock(lb.block, lb.token, "c", 0, 1).header, write.header,
            transferBlock(lb.block, lb.token, "c", lb.locations).header}
                = {[clientname |-> "c", baseheader |-> base]}
        /\ requestShortCircuitFds(lb.block, lb.token, 1).header = base
        /\ write.targets = proto.locs /\ write.pipelinesize = Len(proto.locs)
        /\ transferBlock(lb.block, lb.token, "c", lb.locations).targets = proto.locs

\* The blocks of a file come out in the order of their offsets, each of them once,
\* in whatever order the message has them (LocatedBlocks::findBlock searches them
\* by bisection).
BlocksAreSorted(protos) ==
    LET blocks == ConvertLocatedBlocks(protos)
    IN  /\ \A i \in 1 .. Len(blocks) - 1 : blocks[i].offset <= blocks[i + 1].offset
        /\ \A p \in {protos[i] : i \in DOMAIN protos} :
               Cardinality({i \in DOMAIN protos : protos[i] = p}) =
               Cardinality({i \in DOMAIN blocks : blocks[i] = ConvertLocatedBlock(p)})

\* The mode a user reads of a file is the namenode's, sticky bit included.
ModeIsKept(proto) ==
    ConstructHdfsFileInfo(ConvertFileStatus("/", proto)).mPermissions = proto.perm % 1024

\* Every file of a cluster gets the policy it was reported with, whatever files
\* were converted before it: the ids of one cluster that the cache tells apart
\* are all that a namenode gives out.
PolicyIsTheFiles(system, protos) ==
    LET after(n) == FoldLeft(LAMBDA maps, p : ConvertErasureCodingPolicy(maps, p).maps, system,
                             SubSeq(protos, 1, n))
        consistent == /\ \A i, j \in DOMAIN protos : protos[i].id = protos[j].id => protos[i] = protos[j]
                      /\ \A i \in DOMAIN protos : protos[i].id \notin DOMAIN system
    IN  consistent => \A i \in DOMAIN protos :
            LET policy == ConvertErasureCodingPolicy(after(i - 1), protos[i]).policy
            IN  /\ policy.cellSize = protos[i].cellsize
                /\ policy.numDataUnits = protos[i].dataunits
                /\ policy.numParityUnits = protos[i].parityunits

=============================================================================
