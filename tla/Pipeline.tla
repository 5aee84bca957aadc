------------------------------ MODULE Pipeline ------------------------------
(***************************************************************************)
(* The write pipeline of one block: PipelineImpl (client/Pipeline.cpp),    *)
(* driven by one thread, against the datanodes of the pipeline and the     *)
(* namenode, which are external and are modelled from the requests that    *)
(* Pipeline.cpp sends them.                                                *)
(*                                                                         *)
(* Data is abstracted to lengths: a packet carries the bytes               *)
(* [off, end) of the block, a replica is the length of the prefix it       *)
(* holds.  Resending a packet rewrites the same bytes.  Indices are        *)
(* one-based, so errorIndex = 0 stands for the code's -1.                  *)
(***************************************************************************)
EXTENDS Integers, Sequences, Functions

CONSTANTS
    DN,               \* the datanodes of the cluster
    Replication,      \* replication
    PoolSize,         \* packetPool.getMaxSize(), "output.packetpool.size"
    BlockWriteRetry,  \* blockWriteRetry
    CanAddDatanode,   \* canAddDatanode
    AppendLen,        \* length of the block an append starts from
    MaxBytes,         \* bound: bytes of the block
    MaxPackets,       \* bound: packets handed to send and close
    MaxFaults         \* bound: crashes, glitches and failed calls

ASSUME PipelineAssumption ==
    /\ Replication \in Nat \ {0} /\ PoolSize \in Nat \ {0} /\ BlockWriteRetry \in Nat \ {0}
    /\ CanAddDatanode \in BOOLEAN /\ AppendLen \in Nat
    /\ MaxBytes \in Nat /\ MaxPackets \in Nat /\ MaxFaults \in Nat

VARIABLES
    \* the fields of PipelineImpl
    stage, nodes, errorIndex, packets, bytesSent, bytesAcked, lastBlock,
    \* where the thread is, and the locals of the calls on its stack
    pc, ret, failover, recovery, retry, retryAlloc, excludedNodes, gs,
    \* the connection: sock is whether the client still holds it
    sock, conn,
    \* the datanodes, the namenode, and the faults that happened so far
    alive, replica, nn, faults,
    \* the caller (OutputStreamImpl): the bytes handed over so far, and the packet
    \* handed over last, which is the argument of send while send runs
    fed, packet

pipe == <<stage, nodes, errorIndex, packets, bytesSent, bytesAcked, lastBlock>>
locals == <<ret, failover, recovery, retry, retryAlloc, excludedNodes, gs>>
net == <<sock, conn>>
ext == <<alive, replica, nn>>
caller == <<fed, packet>>
vars == <<pipe, pc, locals, net, ext, faults, caller>>

Stages == {"SETUP_CREATE", "SETUP_APPEND", "DATA_STREAMING", "CLOSE"}

\* The places where the thread waits for acks: in send with the pool full, in
\* flush, and before and after the last packet in close.
Waits == {"full", "flush", "drain", "final"}
PCs == Waits \cup {"locate", "create", "abandon", "idle", "write", "poll", "build",
        "addnode", "transfer", "newgs", "setup", "update", "closed", "failed", "abort"}

Max2(a, b) == IF a > b THEN a ELSE b
Placements(S, k) == {s \in [1..k -> S] : IsInjective(s)}
NoReplica == [st |-> "none", len |-> 0, gs |-> 0]
NoConn == [gs |-> 0, nodes |-> <<>>, pos |-> <<>>, read |-> 0, stream |-> <<>>]

Dead(ns) == \E i \in DOMAIN ns : ns[i] \notin alive

\* One of the MaxFaults faults the environment may inject.
Fault == faults < MaxFaults /\ faults' = faults + 1

\* An error is explained by a dead datanode among ns, or it is a fault of its own.
Explained(ns) == \/ Dead(ns) /\ UNCHANGED faults
                 \/ Fault

-----------------------------------------------------------------------------
(* The constructor: a new block, or the last block of a file to append to. *)

InitRest ==
    /\ errorIndex = 0 /\ packets = <<>>
    /\ ret = "idle" /\ failover = FALSE /\ recovery = FALSE
    /\ retry = BlockWriteRetry /\ retryAlloc = 0 /\ excludedNodes = {} /\ gs = 0
    /\ sock = FALSE /\ conn = NoConn
    /\ alive = DN /\ faults = 0
    /\ packet = [seqno |-> -1, off |-> fed, end |-> fed, last |-> FALSE]

InitCreate ==
    /\ stage = "SETUP_CREATE" /\ pc = "locate" /\ nodes = <<>>
    /\ bytesSent = 0 /\ bytesAcked = 0 /\ fed = 0
    /\ lastBlock = [gs |-> 0, numBytes |-> 0]
    /\ replica = [n \in DN |-> NoReplica]
    /\ nn = [issued |-> 0, gs |-> 0, nodes |-> {}]

InitAppend ==
    /\ stage = "SETUP_APPEND" /\ pc = "build"
    /\ nodes \in UNION {Placements(DN, k) : k \in 1..Replication}
    /\ bytesSent = AppendLen /\ bytesAcked = AppendLen
    /\ fed = AppendLen
    /\ lastBlock = [gs |-> 1, numBytes |-> AppendLen]
    /\ replica = [n \in DN |-> IF n \in Range(nodes)
                               THEN [st |-> "final", len |-> AppendLen, gs |-> 1]
                               ELSE NoReplica]
    /\ nn = [issued |-> 1, gs |-> 1, nodes |-> Range(nodes)]

Init == (InitCreate \/ InitAppend) /\ InitRest

\* The exception that leaves the pipeline: the stream keeps it in lastError and
\* calls no operation of this pipeline again.
Fails == pc' = "failed"

-----------------------------------------------------------------------------
(* createBlockOutputStream, shared by both ways to build a pipeline.       *)

\* What a datanode checks before it accepts a block (external): a new block has
\* no replica, an append starts from a finalized one, a recovery needs a replica
\* whose length lies in the window [numBytes, bytesSent] of the request.
Accepts(n) ==
    IF stage = "SETUP_CREATE" THEN replica[n].st = "none"
    ELSE /\ replica[n].st # "none"
         /\ stage = "SETUP_APPEND" /\ ~recovery => replica[n].st = "final"
         /\ lastBlock.numBytes <= replica[n].len /\ replica[n].len <= bytesSent

\* The first k nodes have opened their replica with generation stamp g; a
\* recovery may drop bytes above numBytes, a close recovery finalizes the replica.
SetUp(k, g) ==
    LET up == {nodes[i] : i \in 1..k} IN
    /\ up \subseteq alive /\ \A n \in up : Accepts(n)
    /\ \E cut \in [up -> lastBlock.numBytes..bytesSent] :
        /\ \A n \in up : cut[n] <= replica[n].len
        /\ replica' = [n \in DN |->
              IF n \in up
              THEN [st |-> IF stage = "CLOSE" THEN "final" ELSE "rbw",
                    len |-> cut[n], gs |-> g]
              ELSE replica[n]]

Connected(g) ==
    /\ SetUp(Len(nodes), g)
    /\ sock' = TRUE
    /\ conn' = [gs |-> g, nodes |-> nodes, pos |-> [i \in 1..Len(nodes) |-> 0],
                read |-> 0, stream |-> <<>>]
    /\ UNCHANGED faults

\* The catch-all handler blames node 0; firstBadLink, when the datanodes report
\* it, overrides that with the node that could not be reached.
BlamedBy(k) == {1, k + 1} \cap 1..Len(nodes)

\* The set-up reached k nodes and then failed: at the next node, or because the
\* answer was lost.
NotConnected(g) ==
    /\ \E k \in 0..Len(nodes) :
        /\ SetUp(k, g)
        /\ \/ /\ k < Len(nodes) /\ UNCHANGED faults
              /\ nodes[k + 1] \notin alive \/ ~Accepts(nodes[k + 1])
           \/ Fault
        /\ errorIndex' \in BlamedBy(k)
    /\ sock' = FALSE
    /\ UNCHANGED conn

-----------------------------------------------------------------------------
(* buildForNewBlock.                                                       *)

\* One iteration up to addBlock.  The namenode (external) places the block on
\* datanodes that are not excluded; the replicas of an abandoned block are not
\* replicas of the new one.
LocateNextBlock ==
    /\ pc = "locate"
    /\ \E k \in 0..Replication : \E ns \in Placements(DN \ excludedNodes, k) :
        /\ nodes' = ns
        /\ nn' = [issued |-> nn.issued + 1, gs |-> nn.issued + 1, nodes |-> Range(ns)]
        /\ lastBlock' = [gs |-> nn.issued + 1, numBytes |-> 0]
        /\ pc' = IF ns = <<>> THEN "failed" ELSE "create"
    /\ replica' = [n \in DN |-> NoReplica]
    /\ conn' = NoConn
    /\ errorIndex' = 0 /\ retryAlloc' = 0
    /\ UNCHANGED <<stage, packets, bytesSent, bytesAcked, ret, failover, recovery, retry,
                   excludedNodes, gs, sock, alive, faults, caller>>

\* addBlock failed: an HdfsRpcException is retried, any other exception is not.
LocateFails ==
    /\ pc = "locate" /\ Fault
    /\ errorIndex' = 0
    /\ \/ retryAlloc <= BlockWriteRetry /\ retryAlloc' = retryAlloc + 1 /\ UNCHANGED pc
       \/ Fails /\ UNCHANGED retryAlloc
    /\ UNCHANGED <<stage, nodes, packets, bytesSent, bytesAcked, lastBlock, ret, failover,
                   recovery, retry, excludedNodes, gs, net, ext, caller>>

CreateStream ==
    /\ pc = "create"
    /\ \/ /\ Connected(lastBlock.gs)
          /\ pc' = "idle" /\ stage' = "DATA_STREAMING"
          /\ UNCHANGED errorIndex
       \/ /\ NotConnected(lastBlock.gs)
          /\ pc' = "abandon" /\ UNCHANGED stage
    /\ UNCHANGED <<nodes, packets, bytesSent, bytesAcked, lastBlock, locals, alive, nn, caller>>

\* The blamed node is excluded from the next attempt; without one the loop would
\* count down retry and leave with no pipeline at all.
AbandonBlock ==
    /\ pc = "abandon"
    /\ \/ /\ IF errorIndex > 0
             THEN /\ excludedNodes' = excludedNodes \cup {nodes[errorIndex]}
                  /\ UNCHANGED retry
             ELSE retry' = retry - 1 /\ UNCHANGED excludedNodes
          /\ pc' = IF retry' > 0 THEN "locate" ELSE "idle"
          /\ stage' = IF retry' > 0 THEN stage ELSE "DATA_STREAMING"
          /\ UNCHANGED faults
       \/ Fault /\ Fails /\ UNCHANGED <<excludedNodes, retry, stage>>
    /\ UNCHANGED <<nodes, errorIndex, packets, bytesSent, bytesAcked, lastBlock, ret,
                   failover, recovery, retryAlloc, gs, net, ext, caller>>

-----------------------------------------------------------------------------
(* The operations the stream calls: send, flush and close.                 *)

\* A packet continues the block (off = fed), or starts again at the beginning of
\* the partial chunk that the packet before it flushed (OutputStream.tla shows that
\* its packets are of this kind).
Handover(off, end, last) ==
    /\ packet' = [seqno |-> packet.seqno + 1, off |-> off, end |-> end, last |-> last]
    /\ packets' = Append(packets, packet')
    /\ fed' = Max2(fed, end)

TooManyPending(n) == n > PoolSize

Pushed == IF TooManyPending(Len(packets')) THEN "full" ELSE "write"

Send ==
    /\ pc = "idle" /\ packet.seqno + 2 < MaxPackets  \* one number is left for close
    /\ \E off \in packet.off..fed, end \in fed..MaxBytes : Handover(off, end, FALSE)
    /\ pc' = Pushed /\ failover' = FALSE
    /\ UNCHANGED <<stage, nodes, errorIndex, bytesSent, bytesAcked, lastBlock, ret, recovery,
                   retry, retryAlloc, excludedNodes, gs, net, ext, faults>>

Flush ==
    /\ pc = "idle"
    /\ pc' = "flush" /\ failover' = FALSE
    /\ UNCHANGED <<pipe, ret, recovery, retry, retryAlloc, excludedNodes, gs, net, ext,
                   faults, caller>>

Close ==
    /\ pc = "idle"
    /\ pc' = "drain" /\ failover' = FALSE
    /\ UNCHANGED <<pipe, ret, recovery, retry, retryAlloc, excludedNodes, gs, net, ext,
                   faults, caller>>

-----------------------------------------------------------------------------
(* Writing packets.  What was written is in the stream of the connection.  *)

Put(ps) == conn' = [conn EXCEPT !.stream = @ \o ps]

\* bytesSent moves forward to the end of the furthest packet, never back.
SentThrough(ps) ==
    /\ bytesSent' \in {bytesSent} \cup {ps[i].end : i \in DOMAIN ps}
    /\ bytesSent' >= bytesSent /\ \A i \in DOMAIN ps : bytesSent' >= ps[i].end

\* waitForAcks returns: nothing is pending, or, in send, few enough packets are.
WaitedUnforcedDrain == packets = <<>> \/ (pc \in {"full", "drain"} /\ Len(packets) < PoolSize)
WaitedUnforcedFinal == packets = <<>> \/ (pc \in {"full", "final"} /\ Len(packets) < PoolSize)
Waited == packets = <<>> \/ (pc = "full" /\ Len(packets) < PoolSize)

\* The statement that writes: one packet in send, every pending packet after a
\* failover.
ToWriteNoResend == <<packet>>
ToWrite == IF failover THEN packets ELSE <<packet>>

Writing == \/ pc = "write"
           \/ pc \in Waits /\ failover /\ ~Waited

Write ==
    /\ Writing
    /\ Put(ToWrite)
    /\ SentThrough(ToWrite)
    /\ failover' = FALSE
    /\ pc' = IF pc = "write" THEN "poll" ELSE pc
    /\ UNCHANGED <<stage, nodes, errorIndex, packets, bytesAcked, lastBlock, ret, recovery,
                   retry, retryAlloc, excludedNodes, gs, sock, ext, faults, caller>>

\* The handlers of HdfsIOException in send and waitForAcks: node 0 is blamed
\* unless an ack named another, the socket is dropped and the recovery starts.
Blame(i) == errorIndex' = IF i = 0 THEN 1 ELSE i

IOError(i) ==
    /\ Blame(i)
    /\ sock' = FALSE
    /\ pc' = "build" /\ ret' = IF pc = "poll" THEN "write" ELSE pc
    /\ failover' = TRUE /\ recovery' = TRUE
    /\ retry' = BlockWriteRetry /\ excludedNodes' = {}

WriteFails ==
    /\ Writing
    /\ Explained(nodes)
    /\ \E k \in 0..Len(ToWrite) - 1 :
        /\ Put(SubSeq(ToWrite, 1, k))
        /\ SentThrough(SubSeq(ToWrite, 1, k))
    /\ IOError(0)
    /\ UNCHANGED <<stage, nodes, packets, bytesAcked, lastBlock, retryAlloc, gs, ext, caller>>

\* A timeout in writeFully or in the middle of an ack is an HdfsTimeoutException,
\* which is no HdfsIOException: it leaves send, flush or close.
Timeout ==
    /\ pc \in Waits \cup {"write", "poll"} /\ ~(pc \in Waits /\ Waited)
    /\ Explained(nodes) /\ Fails
    /\ UNCHANGED <<pipe, locals, net, ext, caller>>

-----------------------------------------------------------------------------
(* Reading acks: checkResponse, processResponse and processAck.            *)

Reading == pc = "poll" \/ (pc \in Waits /\ ~failover /\ ~Waited)

\* send is over once the poll after the write is.
Returned == IF stage = "CLOSE" THEN "final" ELSE "idle"
AfterRead == IF pc = "poll" THEN Returned ELSE pc

\* An ack is on its way back once every node has the packet.
AckReady == sock /\ conn.read < conn.pos[Len(conn.nodes)]
Acked == conn.stream[conn.read + 1]

AckMatches(p, seqno) == p.seqno = seqno

AckedThroughLatest(p) == p.end
AckedThrough(p) == Max2(p.end, bytesAcked)

PopAcked ==
    /\ packets' = Tail(packets)
    /\ bytesAcked' = AckedThrough(packets[1])
    /\ lastBlock' = [lastBlock EXCEPT !.numBytes = bytesAcked']
    /\ sock' = (sock /\ ~packets[1].last)
    /\ pc' = AfterRead
    /\ UNCHANGED <<errorIndex, ret, failover, recovery, retry, excludedNodes>>

ReadAck ==
    /\ Reading /\ AckReady
    /\ conn' = [conn EXCEPT !.read = @ + 1]
    /\ \/ /\ packets = <<>>           \* assert(!packets.empty())
          /\ pc' = "abort"
          /\ UNCHANGED <<packets, bytesAcked, lastBlock, sock, errorIndex, ret, failover,
                         recovery, retry, excludedNodes>>
       \/ packets # <<>> /\ AckMatches(packets[1], Acked.seqno) /\ PopAcked
       \/ /\ packets # <<>> /\ ~AckMatches(packets[1], Acked.seqno)
          /\ IOError(0) /\ UNCHANGED <<packets, bytesAcked, lastBlock>>
    /\ UNCHANGED <<stage, nodes, bytesSent, retryAlloc, gs, ext, faults, caller>>

\* poll(0) in send finds nothing to read.
NothingToRead ==
    /\ pc = "poll"
    /\ pc' = Returned
    /\ UNCHANGED <<pipe, locals, net, ext, faults, caller>>

\* An ack that reports node i, dead or not, or a read that fails: the connection
\* breaks, or the wait times out, which it must when no ack is outstanding.
ReadFails ==
    /\ Reading
    /\ \/ \E i \in DOMAIN nodes : Explained(<<nodes[i]>>) /\ IOError(i)
       \/ Explained(nodes) /\ IOError(0)
       \/ pc # "poll" /\ conn.read = Len(conn.stream) /\ IOError(0) /\ UNCHANGED faults
    /\ UNCHANGED <<stage, nodes, packets, bytesSent, bytesAcked, lastBlock, retryAlloc, gs,
                   conn, ext, caller>>

\* waitForAcks returns to its caller; close goes on with the last packet, whose
\* offset is that of the chunk being filled.
WaitOver ==
    /\ pc \in Waits /\ Waited
    /\ \/ /\ pc = "full" /\ pc' = "write"
          /\ UNCHANGED <<stage, packets, lastBlock, failover, sock, caller>>
       \/ /\ pc = "flush" /\ pc' = "idle"
          /\ UNCHANGED <<stage, packets, lastBlock, failover, sock, caller>>
       \/ /\ pc = "drain" /\ stage' = "CLOSE"
          /\ \E off \in packet.off..fed : Handover(off, off, TRUE)
          /\ pc' = Pushed /\ failover' = FALSE
          /\ UNCHANGED <<lastBlock, sock>>
       \/ /\ pc = "final" /\ pc' = "closed" /\ sock' = FALSE
          /\ lastBlock' = [lastBlock EXCEPT !.numBytes = bytesAcked]
          /\ UNCHANGED <<stage, packets, failover, caller>>
    /\ UNCHANGED <<nodes, errorIndex, bytesSent, bytesAcked, ret, recovery, retry, retryAlloc,
                   excludedNodes, gs, conn, ext, faults>>

-----------------------------------------------------------------------------
(* buildForAppendOrRecovery.                                               *)

MayAdd(ns) == stage # "CLOSE" /\ Len(ns) < Replication /\ CanAddDatanode

WithoutFirst(ns, e) == Tail(ns)
WithoutBad(ns, e) == [k \in 1..Len(ns) - 1 |-> IF k < e THEN ns[k] ELSE ns[k + 1]]

\* The top of the loop: the blamed node leaves the pipeline.
RemoveBadNode ==
    /\ pc = "build"
    /\ IF errorIndex > 0
       THEN /\ nodes' = WithoutBad(nodes, errorIndex)
            /\ excludedNodes' = excludedNodes \cup {nodes[errorIndex]}
       ELSE UNCHANGED <<nodes, excludedNodes>>
    /\ IF nodes' = <<>>
       THEN Fails /\ UNCHANGED errorIndex
       ELSE errorIndex' = 0 /\ pc' = IF MayAdd(nodes') THEN "addnode" ELSE "newgs"
    /\ UNCHANGED <<stage, packets, bytesSent, bytesAcked, lastBlock, ret, failover, recovery,
                   retry, retryAlloc, gs, net, ext, faults, caller>>

RetriesAlways(e) == retry
RetriesLeft(e) == IF e = 0 THEN retry - 1 ELSE retry

RetryIsRecovery == TRUE

\* The handlers at the end of the loop's try block: only an attempt that blames no
\* node (e is the errorIndex it leaves) uses up a retry.
TryAgain(e) ==
    /\ errorIndex' = e /\ recovery' = RetryIsRecovery
    /\ retry' = RetriesLeft(e)
    /\ pc' = IF retry' > 0 THEN "build" ELSE "failed"

GiveUp == Fails /\ UNCHANGED <<errorIndex, recovery, retry>>

WithNew(ns, d, n) ==
    [k \in 1..Len(ns) + 1 |-> IF k < d THEN ns[k] ELSE IF k = d THEN n ELSE ns[k - 1]]

\* addDatanodeToPipeline up to the transfer.  The namenode (external) answers with
\* the nodes and one more, anywhere among them, or with the same nodes.
AddDatanode ==
    /\ pc = "addnode"
    /\ LET free == DN \ (Range(nodes) \cup excludedNodes) IN
       \/ \E n \in free, d \in 1..Len(nodes) + 1 :
            /\ nodes' = WithNew(nodes, d, n)
            /\ errorIndex' = d
            /\ pc' = "transfer"
            /\ UNCHANGED <<recovery, retry, faults>>
       \/ free = {} /\ TryAgain(0) /\ UNCHANGED <<nodes, faults>>
       \/ Fault /\ (TryAgain(0) \/ GiveUp) /\ UNCHANGED nodes
    /\ UNCHANGED <<stage, packets, bytesSent, bytesAcked, lastBlock, ret, failover, retryAlloc,
                   excludedNodes, gs, net, ext, caller>>

TransferSource(d) == nodes[IF d = 1 THEN 2 ELSE d - 1]

\* transfer: the source copies at least the numBytes of lastBlock (external).  On a
\* failure errorIndex still names the new node.
Transfer ==
    /\ pc = "transfer"
    /\ LET src == TransferSource(errorIndex)
           new == nodes[errorIndex] IN
       \/ /\ {src, new} \subseteq alive
          /\ \E len \in lastBlock.numBytes..replica[src].len :
                replica' = [replica EXCEPT ![new] =
                    [st |-> replica[src].st, len |-> len, gs |-> lastBlock.gs]]
          /\ errorIndex' = 0 /\ pc' = "newgs"
          /\ UNCHANGED <<recovery, retry, faults>>
       \/ Explained(<<src, new>>) /\ TryAgain(errorIndex) /\ UNCHANGED replica
    /\ UNCHANGED <<stage, nodes, packets, bytesSent, bytesAcked, lastBlock, ret, failover,
                   retryAlloc, excludedNodes, gs, net, alive, nn, caller>>

OldStamp(new) == lastBlock.gs
NewStamp(new) == new

UpdateBlockForPipeline ==
    /\ pc = "newgs"
    /\ \/ /\ nn' = [nn EXCEPT !.issued = @ + 1]
          /\ gs' = NewStamp(nn'.issued) /\ pc' = "setup"
          /\ UNCHANGED <<errorIndex, recovery, retry, faults>>
       \/ Fault /\ (TryAgain(0) \/ GiveUp) /\ UNCHANGED <<nn, gs>>
    /\ UNCHANGED <<stage, nodes, packets, bytesSent, bytesAcked, lastBlock, ret, failover,
                   retryAlloc, excludedNodes, net, alive, replica, caller>>

RecoverStream ==
    /\ pc = "setup"
    /\ \/ Connected(gs) /\ pc' = "update" /\ errorIndex' = 0 /\ UNCHANGED <<recovery, retry>>
       \/ NotConnected(gs) /\ TryAgain(errorIndex')
    /\ UNCHANGED <<stage, nodes, packets, bytesSent, bytesAcked, lastBlock, ret, failover,
                   retryAlloc, excludedNodes, gs, alive, nn, caller>>

\* updatePipeline, and the return to the constructor, to send or to waitForAcks.
\* A recovery of a closing pipeline has finalized the replicas: the last packet is
\* not sent again.  The call may fail after the namenode has applied it.
UpdatePipeline ==
    /\ pc = "update"
    /\ \/ /\ nn' = [nn EXCEPT !.gs = gs, !.nodes = Range(nodes)]
          /\ lastBlock' = [lastBlock EXCEPT !.gs = gs]
          /\ packets' = IF stage = "CLOSE" THEN <<>> ELSE packets
          /\ stage' = IF stage = "SETUP_APPEND" THEN "DATA_STREAMING" ELSE stage
          /\ pc' = IF stage = "CLOSE" /\ ret = "write" THEN "final" ELSE ret
          /\ UNCHANGED faults
       \/ /\ Fault /\ Fails
          /\ \/ nn' = [nn EXCEPT !.gs = gs, !.nodes = Range(nodes)]
             \/ UNCHANGED nn
          /\ UNCHANGED <<lastBlock, packets, stage>>
    /\ UNCHANGED <<nodes, errorIndex, bytesSent, bytesAcked, locals, net, alive, replica, caller>>

-----------------------------------------------------------------------------
(* The datanodes (external).                                               *)

\* Node i takes the next packet of the stream from its predecessor.  A node that
\* has been set up with a newer generation stamp no longer serves the old stream.
Receive(i) ==
    LET n == conn.nodes[i]
        p == conn.stream[conn.pos[i] + 1] IN
    /\ conn.pos[i] < IF i = 1 THEN Len(conn.stream) ELSE conn.pos[i - 1]
    /\ n \in alive /\ replica[n].gs = conn.gs
    /\ conn' = [conn EXCEPT !.pos[i] = @ + 1]
    /\ replica' = [replica EXCEPT ![n] =
          [st |-> IF p.last THEN "final" ELSE @.st, len |-> Max2(@.len, p.end), gs |-> @.gs]]

DatanodeReceives ==
    /\ \E i \in DOMAIN conn.nodes : Receive(i)
    /\ UNCHANGED <<pipe, pc, locals, sock, alive, nn, faults, caller>>

Crash ==
    /\ Fault
    /\ \E n \in alive : alive' = alive \ {n}
    /\ UNCHANGED <<pipe, pc, locals, net, replica, nn, caller>>

-----------------------------------------------------------------------------
Construct == LocateNextBlock \/ LocateFails \/ CreateStream \/ AbandonBlock
Stream == Write \/ WriteFails \/ Timeout \/ ReadAck \/ NothingToRead \/ ReadFails \/ WaitOver
Recover == RemoveBadNode \/ AddDatanode \/ Transfer \/ UpdateBlockForPipeline
           \/ RecoverStream \/ UpdatePipeline

\* The stream is closed, or gave up: nothing is called any more.
Over == pc \in {"closed", "failed", "abort"} /\ UNCHANGED vars

Next == Construct \/ Send \/ Flush \/ Close \/ Stream \/ Recover
        \/ DatanodeReceives \/ Crash \/ Over

Spec == Init /\ [][Next]_vars

\* The thread that called runs on, RPCs and socket calls return or time out, and a
\* datanode that is up handles the packets it is sent.
Fairness == WF_vars(Construct \/ Stream \/ Recover) /\ WF_vars(DatanodeReceives)

FairSpec == Spec /\ Fairness

-----------------------------------------------------------------------------
(* Properties.                                                             *)

Packet == [seqno : Int, off : Nat, end : Nat, last : BOOLEAN]
Replica == [st : {"none", "rbw", "final"}, len : Nat, gs : Nat]

TypePipe ==
    /\ stage \in Stages
    /\ nodes \in Seq(DN) /\ errorIndex \in 0..Len(nodes) + 1
    /\ packets \in Seq(Packet)
    /\ bytesSent \in Nat /\ bytesAcked \in Nat
    /\ lastBlock \in [gs : Nat, numBytes : Nat]

TypeLocals ==
    /\ pc \in PCs /\ ret \in Waits \cup {"idle", "write"}
    /\ failover \in BOOLEAN /\ recovery \in BOOLEAN
    /\ retry \in Nat /\ retryAlloc \in Nat /\ excludedNodes \subseteq DN /\ gs \in Nat

TypeNet ==
    /\ sock \in BOOLEAN
    /\ conn \in [gs : Nat, nodes : Seq(DN), pos : Seq(Nat), read : Nat, stream : Seq(Packet)]
    /\ Len(conn.pos) = Len(conn.nodes)

TypeExt ==
    /\ alive \subseteq DN /\ replica \in [DN -> Replica]
    /\ nn \in [issued : Nat, gs : Nat, nodes : SUBSET DN]
    /\ faults \in Nat

TypeCaller ==
    /\ fed \in Nat
    /\ packet \in Packet

\* The fields and locals have the types the code gives them.
TypeOK == TypePipe /\ TypeLocals /\ TypeNet /\ TypeExt /\ TypeCaller

\* The node that is joining the pipeline: its replica is not there yet, or its
\* transfer failed and it is about to be removed again.
Joining(i) == i = errorIndex /\ pc \in {"transfer", "build"}

\* What the datanodes have acked to the client is on every node of the pipeline, at
\* every step of every recovery: a resend starts at bytesAcked, so a node that held
\* less would lose those bytes for good.
AckedIsOnEveryNode ==
    \A i \in DOMAIN nodes : Joining(i) \/ replica[nodes[i]].len >= bytesAcked

\* No healthy node is turned away by the checks of a recovery request: its replica
\* exists and lies in the window [numBytes, bytesSent] that createBlockOutputStream
\* sends, and an append that is tried again says that it is a recovery.
RecoveryAcceptsEveryNode ==
    pc = "setup" => \A i \in DOMAIN nodes : Accepts(nodes[i])

\* A datanode never receives a packet that starts behind the end of its replica:
\* after a failover the resent packets continue what the replica kept.
NoGapOnDatanode ==
    \A i \in DOMAIN conn.nodes :
        LET n == conn.nodes[i] IN
        conn.pos[i] < Len(conn.stream) /\ replica[n].gs = conn.gs
            => conn.stream[conn.pos[i] + 1].off <= replica[n].len

\* close returns a block that is complete: every byte handed over is acked and is in
\* a finalized replica, with the generation stamp the namenode knows, on every node
\* that the namenode was told of.
ClosedBlockIsComplete ==
    pc = "closed" =>
        /\ bytesAcked = fed /\ lastBlock.numBytes = fed
        /\ nn.gs = lastBlock.gs /\ nn.nodes = Range(nodes)
        /\ \A n \in nn.nodes : replica[n] = [st |-> "final", len |-> fed, gs |-> nn.gs]

\* Between two calls the namenode can tell the replicas of nodes that were dropped
\* from the pipeline: they carry an older generation stamp than the block.
DroppedReplicasAreStale ==
    pc \in {"idle", "closed"} =>
        \A n \in DN \ nn.nodes : replica[n].gs < nn.gs

\* assert(packets.size() == 1 && packets[0]->isLastPacketInBlock()): when a closing
\* pipeline has been rebuilt, only the last packet is thrown away.
CloseDropsOnlyLastPacket ==
    pc = "update" /\ stage = "CLOSE" => Len(packets) = 1 /\ packets[1].last

\* The assertions of Pipeline.cpp hold through every recovery: assert(!packets.empty()),
\* an ack is only processed while a packet is pending; assert(sock), between calls and
\* when send writes there is a connection to the nodes of the pipeline; and the one on
\* the last packet, when a closing pipeline has been rebuilt.
AssertionsHold ==
    /\ pc # "abort"
    /\ pc \in {"idle", "write"} => sock /\ conn.nodes = nodes
    /\ CloseDropsOnlyLastPacket

\* flush: "send all data and wait for all ack".
FlushedIsAcked == [][pc = "flush" /\ pc' = "idle" => bytesAcked = fed]_vars

\* Every call of send, flush or close returns or throws: recoveries cannot go on for
\* ever, since each attempt removes a node or uses up a retry.
CallReturns == pc \notin {"idle", "closed", "failed"} ~> pc \in {"idle", "closed", "failed"}

\* The pipeline keeps the promises of BlockWriter.
Promise == INSTANCE BlockWriter WITH
    acked <- bytesAcked,
    status <- IF pc = "closed" THEN "closed"
              ELSE IF pc \in {"failed", "abort"} THEN "failed" ELSE "open"
ImplementsBlockWriter == Promise!BWSpec

-----------------------------------------------------------------------------
(* The inductive invariant behind the theorems of PipelineProofs.          *)

Setting == {"locate", "create", "abandon"}
Rebuilding == {"build", "addnode", "transfer", "newgs", "setup"}
Streaming == Waits \cup {"idle", "write", "poll"}

\* Where the thread can be in each stage, and what it holds there.
Place ==
    /\ pc \in Setting => /\ stage = "SETUP_CREATE" /\ ~sock /\ packets = <<>>
                         /\ fed = 0 /\ bytesSent = 0 /\ bytesAcked = 0 /\ retry > 0
    /\ pc \in Rebuilding => ~sock /\ stage # "SETUP_CREATE" /\ retry > 0
    /\ pc = "update" => sock /\ stage # "SETUP_CREATE"
    /\ pc \in Rebuilding \cup {"update"} =>
          /\ stage = "SETUP_APPEND" => ret = "idle"
          /\ stage = "DATA_STREAMING" => ret \in {"write", "full", "flush", "drain"}
          /\ stage = "CLOSE" => ret \in {"write", "final"}
    /\ pc \in Streaming => stage \in {"DATA_STREAMING", "CLOSE"} /\ (sock \/ (pc = "final" /\ packets = <<>>))
    /\ pc \in {"idle", "full", "flush", "drain"} => stage = "DATA_STREAMING"
    /\ pc \in {"final", "closed"} => stage = "CLOSE"
    /\ pc = "closed" => packets = <<>>
    /\ pc \notin {"locate", "failed"} => nodes # <<>>
    /\ pc # "failed" => errorIndex <= Len(nodes)
    /\ pc = "transfer" => errorIndex > 0 /\ Len(nodes) >= 2
    /\ pc = "abandon" => errorIndex > 0

\* The last packet is alone, and pending until it is acked or the replicas are
\* finalized by a recovery.
LastAlone ==
    /\ stage # "CLOSE" => \A i \in DOMAIN packets : ~packets[i].last
    /\ stage = "CLOSE" => /\ packet.last
                          /\ Len(packets) <= 1
                          /\ packets # <<>> => packets[1] = packet
                          /\ packets # <<>> \/ pc \in {"final", "closed", "failed", "abort"}

\* What was handed over is acked or pending, and no count runs ahead of its source.
Bytes ==
    /\ bytesAcked <= fed /\ bytesSent <= fed
    /\ lastBlock.numBytes = bytesAcked
    /\ packet.end <= fed /\ packet.off <= fed
    /\ \A i \in DOMAIN packets : packets[i].end <= fed
    /\ bytesAcked = fed \/ \E i \in DOMAIN packets : packets[i].end = fed
    /\ stage = "CLOSE" => bytesAcked = fed
    /\ \A k \in DOMAIN conn.stream : conn.stream[k].end <= bytesSent
    /\ \A n \in DN : replica[n].len <= bytesSent

\* A sequence number names one packet, on the connection and among the pending ones.
Labels ==
    /\ \A i \in DOMAIN packets : packets[i].seqno <= packet.seqno
    /\ \A k \in DOMAIN conn.stream : conn.stream[k].seqno <= packet.seqno
    /\ \A i \in DOMAIN packets : packets[i].seqno = packet.seqno => packets[i] = packet
    /\ \A k \in DOMAIN conn.stream : conn.stream[k].seqno = packet.seqno => conn.stream[k] = packet
    /\ \A i, j \in DOMAIN packets : packets[i].seqno = packets[j].seqno => packets[i] = packets[j]
    /\ \A i \in DOMAIN packets, k \in DOMAIN conn.stream :
          packets[i].seqno = conn.stream[k].seqno => packets[i] = conn.stream[k]

\* The packets move down the pipeline in order, and the connection the client holds
\* is served by the nodes of the pipeline, which keep what they received.
Delivered ==
    /\ \A i \in DOMAIN conn.nodes : conn.pos[i] <= Len(conn.stream)
    /\ \A i, j \in DOMAIN conn.nodes : i <= j => conn.pos[j] <= conn.pos[i]
    /\ sock => /\ conn.nodes = nodes
               /\ \A i \in DOMAIN nodes : replica[nodes[i]].gs = conn.gs
               /\ \A i \in DOMAIN nodes : \A k \in 1..conn.pos[i] :
                    /\ replica[nodes[i]].len >= conn.stream[k].end
                    /\ conn.stream[k].last => replica[nodes[i]].st = "final"

\* A node that was transferred to is a node like the others.
Members ==
    /\ IsInjective(nodes)
    /\ AckedIsOnEveryNode
    /\ pc \in Rebuilding \cup Streaming \cup {"update"} =>
         \A i \in DOMAIN nodes : Joining(i) \/ replica[nodes[i]].st # "none"
    /\ stage = "SETUP_APPEND" /\ ~recovery /\ pc \in Rebuilding =>
         \A i \in DOMAIN nodes : Joining(i) \/ replica[nodes[i]].st = "final"

\* Generation stamps: who has which.
Stamps ==
    /\ \A n \in DN : replica[n].gs <= nn.issued
    /\ nn.gs <= nn.issued /\ lastBlock.gs <= nn.issued
    /\ pc \in {"create", "abandon"} \cup Streaming \cup {"closed"} =>
          /\ nn.gs = lastBlock.gs /\ nn.nodes = Range(nodes)
          /\ \A n \in DN \ nn.nodes : replica[n].gs < nn.gs
    /\ pc \in Streaming /\ sock => conn.gs = lastBlock.gs
    /\ pc = "setup" => gs = nn.issued /\ \A n \in DN : replica[n].gs < gs
    /\ pc = "update" => /\ conn.gs = gs /\ gs <= nn.issued
                        /\ \A n \in DN \ Range(nodes) : replica[n].gs < gs
                        /\ stage = "CLOSE" => \A i \in DOMAIN nodes : replica[nodes[i]].st = "final"
    /\ (pc = "final" /\ packets = <<>>) \/ pc = "closed" =>
          \A i \in DOMAIN nodes : replica[nodes[i]].st = "final" /\ replica[nodes[i]].gs = lastBlock.gs

\* The inductive invariant of the write pipeline: every part above, together.
IInv == TypePipe /\ TypeLocals /\ TypeNet /\ TypeExt /\ TypeCaller /\ Place /\ LastAlone /\ Bytes /\ Labels /\ Delivered /\ Members /\ Stamps

=============================================================================
