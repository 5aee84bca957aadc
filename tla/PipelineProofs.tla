--------------------------- MODULE PipelineProofs ---------------------------
(***************************************************************************)
(* IInv of Pipeline is invariant, and what follows from it.  No packet     *)
(* leaves a gap in a replica, and the assertions of Pipeline.cpp hold:     *)
(* both rest on which pending packets the connection has carried, which    *)
(* IInv says nothing about and GapInv adds.                                *)
(***************************************************************************)
EXTENDS PipelineStreamProofs, PipelineRecoveryProofs

-----------------------------------------------------------------------------
(* The theorems.                                                           *)

\* Every step keeps the invariant.
LEMMA NextIInv == ASSUME IInv, [Next]_vars PROVE IInv'
<1>1. CASE Construct
  BY Zenon, <1>1, LocateNextBlockStep, LocateFailsStep, CreateStreamStep, AbandonBlockStep DEF Construct
<1>2. CASE Send \/ Flush \/ Close
  BY Zenon, <1>2, SendStep, FlushCloseStep
<1>3. CASE Stream
  BY Zenon, <1>3, WriteStep, WriteFailsStep, TimeoutStep, ReadAckStep, NothingToReadStep, ReadFailsStep,
     WaitOverStep DEF Stream
<1>4. CASE Recover
  BY Zenon, <1>4, RemoveBadNodeStep, AddDatanodeStep, TransferStep, UpdateBlockForPipelineStep,
     RecoverStreamStep, UpdatePipelineStep DEF Recover
<1>5. CASE DatanodeReceives \/ Crash
  BY Zenon, <1>5, DatanodeReceivesStep, CrashStep
<1>6. CASE UNCHANGED vars
  <2>1. UNCHANGED <<stage, nodes, errorIndex, packets, bytesSent, bytesAcked, lastBlock, pc, ret, failover,
                    recovery, retry, retryAlloc, excludedNodes, gs, sock, conn, alive, replica, nn,
                    faults, fed, packet>>
    BY Zenon, <1>6 DEF vars, pipe, locals, net, ext, caller
  <2>2. TypePipe' /\ TypeLocals' /\ TypeExt' /\ TypeCaller' /\ TypeNet'
    BY SMTT(30), <2>1 DEF IInv, TypePipe, TypeLocals, TypeExt, TypeCaller, TypeNet
  <2>3. Place' /\ LastAlone' /\ Bytes' /\ Labels' /\ Delivered'
    BY SMTT(30), <2>1 DEF IInv, Place, LastAlone, Bytes, Labels, Delivered
  <2>4. Members' /\ Stamps'
    BY <2>1, Zenon DEF IInv, Members, Stamps, AckedIsOnEveryNode, Joining
  <2> QED BY Zenon, <2>2, <2>3, <2>4 DEF IInv
<1> QED BY Zenon, <1>1, <1>2, <1>3, <1>4, <1>5, <1>6 DEF Next, Over

\* The inductive invariant holds in every state of every run of the pipeline.
THEOREM Invariance == Spec => []IInv
<1>1. Init => IInv
  BY Zenon, InitIInv
<1>2. IInv /\ [Next]_vars => IInv'
  BY Zenon, NextIInv
<1> QED BY <1>1, <1>2, PTL DEF Spec

\* TypeOK: the fields of PipelineImpl and the locals of its calls keep their types,
\* whatever fails.
THEOREM TypeCorrect == Spec => []TypeOK
<1>1. IInv => TypeOK
  BY Zenon DEF IInv, TypeOK
<1> QED BY <1>1, Invariance, PTL

\* AckedIsOnEveryNode: no recovery of the pipeline loses a byte that was acked.
THEOREM AckedIsKept == Spec => []AckedIsOnEveryNode
<1>1. IInv => AckedIsOnEveryNode
  BY Zenon DEF IInv, Members
<1> QED BY <1>1, Invariance, PTL

\* RecoveryAcceptsEveryNode: the length window in the request of
\* createBlockOutputStream always contains the lengths of the replicas.
THEOREM RecoveryAccepts == Spec => []RecoveryAcceptsEveryNode
<1>1. ASSUME IInv, pc = "setup", NEW i \in DOMAIN nodes PROVE Accepts(nodes[i])
  <2>1. /\ stage # "SETUP_CREATE" /\ nodes[i] \in DN /\ lastBlock.numBytes = bytesAcked
    BY <1>1 DEF IInv, Place, Rebuilding, TypePipe, Bytes
  <2>2. /\ replica[nodes[i]].st # "none" /\ replica[nodes[i]].len >= bytesAcked
        /\ stage = "SETUP_APPEND" /\ ~recovery => replica[nodes[i]].st = "final"
    BY Zenon, <1>1 DEF IInv, Members, AckedIsOnEveryNode, Joining, Rebuilding
  <2>3. replica[nodes[i]].len <= bytesSent /\ replica[nodes[i]].len \in Nat /\ bytesAcked \in Nat
    BY Zenon, <1>1, <2>1 DEF IInv, Bytes, TypeExt, TypePipe, Replica
  <2> QED BY Zenon, <2>1, <2>2, <2>3 DEF Accepts
<1>2. IInv => RecoveryAcceptsEveryNode
  BY Zenon, <1>1 DEF RecoveryAcceptsEveryNode
<1> QED BY <1>2, Invariance, PTL

\* ClosedBlockIsComplete: a block that close returned is whole on every node the
\* namenode knows.
THEOREM CloseIsComplete == Spec => []ClosedBlockIsComplete
<1>1. ASSUME IInv, pc = "closed"
      PROVE  /\ bytesAcked = fed /\ lastBlock.numBytes = fed
             /\ nn.gs = lastBlock.gs /\ nn.nodes = Range(nodes)
             /\ \A n \in nn.nodes : replica[n] = [st |-> "final", len |-> fed, gs |-> nn.gs]
  <2>1. stage = "CLOSE" /\ bytesAcked = fed /\ lastBlock.numBytes = fed
    BY Zenon, <1>1 DEF IInv, Place, Bytes
  <2>2. /\ nn.gs = lastBlock.gs /\ nn.nodes = Range(nodes)
        /\ \A i \in DOMAIN nodes : replica[nodes[i]].st = "final" /\ replica[nodes[i]].gs = lastBlock.gs
    BY Zenon, <1>1 DEF IInv, Stamps
  <2>3. \A i \in DOMAIN nodes : nodes[i] \in DN /\ replica[nodes[i]].len >= bytesAcked
    BY <1>1 DEF IInv, TypePipe, Members, AckedIsOnEveryNode, Joining
  <2>4. bytesSent <= fed /\ bytesSent \in Nat /\ fed \in Nat /\ \A n \in DN : replica[n].len <= bytesSent
    BY Zenon, <1>1 DEF IInv, Bytes, TypePipe, TypeCaller
  <2>5. \A n \in DN : replica[n] \in Replica
    BY Zenon, <1>1 DEF IInv, TypeExt
  <2>6. \A r \in Replica : r = [st |-> r.st, len |-> r.len, gs |-> r.gs] /\ r.len \in Nat
    BY DEF Replica
  <2>7. \A i \in DOMAIN nodes : replica[nodes[i]] = [st |-> "final", len |-> fed, gs |-> nn.gs]
    <3> SUFFICES ASSUME NEW i \in DOMAIN nodes
                 PROVE  replica[nodes[i]] = [st |-> "final", len |-> fed, gs |-> nn.gs]
      BY Zenon
    <3>1. replica[nodes[i]].len = fed
      BY <2>1, <2>3, <2>4, <2>5, <2>6
    <3> QED BY Zenon, <2>2, <2>3, <2>5, <2>6, <3>1
  <2> QED BY Zenon, <2>1, <2>2, <2>7 DEF Range
<1>2. IInv => ClosedBlockIsComplete
  BY Zenon, <1>1 DEF ClosedBlockIsComplete
<1> QED BY <1>2, Invariance, PTL

\* DroppedReplicasAreStale: the namenode never takes a replica that the pipeline
\* left behind for a current one.
THEOREM DroppedAreStale == Spec => []DroppedReplicasAreStale
<1>1. IInv => DroppedReplicasAreStale
  BY Zenon DEF IInv, Stamps, Streaming, DroppedReplicasAreStale
<1> QED BY <1>1, Invariance, PTL

\* CloseDropsOnlyLastPacket: the assertion in buildForAppendOrRecovery's caller holds.
THEOREM CloseDropsLast == Spec => []CloseDropsOnlyLastPacket
<1>1. ASSUME IInv, pc = "update", stage = "CLOSE" PROVE Len(packets) = 1 /\ packets[1].last
  <2>1. packets[1] = packet /\ packet.last
    BY Zenon, <1>1 DEF IInv, LastAlone
  <2>2. packets \in Seq(Packet)
    BY Zenon, <1>1 DEF IInv, TypePipe
  <2>3. Len(packets) <= 1 /\ packets # <<>>
    BY Zenon, <1>1 DEF IInv, LastAlone
  <2>4. Len(packets) = 1
    <3>1. Len(packets) \in Nat /\ Len(packets) # 0
      BY Zenon, <2>2, <2>3, NonEmptyFacts
    <3>2. Len(packets) <= 1
      BY Zenon, <2>3
    <3>3. \A x \in Nat : x # 0 /\ x <= 1 => x = 1
      OBVIOUS
    <3> QED BY <3>1, <3>2, <3>3, Zenon
  <2> QED BY <2>1, <2>4, Zenon
<1>2. IInv => CloseDropsOnlyLastPacket
  BY Zenon, <1>1 DEF CloseDropsOnlyLastPacket
<1> QED BY <1>2, Invariance, PTL

\* FlushedIsAcked: when flush returns, every byte handed over is acked.
THEOREM FlushAcks == Spec => FlushedIsAcked
<1>1. ASSUME IInv, [Next]_vars, pc = "flush", pc' = "idle" PROVE bytesAcked = fed
  <2>1. ~Construct /\ ~Send /\ ~Flush /\ ~Close /\ ~Recover /\ ~Over
    BY Zenon, <1>1 DEF Construct, LocateNextBlock, LocateFails, CreateStream, AbandonBlock, Send, Flush, Close,
       Recover, RemoveBadNode, AddDatanode, Transfer, UpdateBlockForPipeline, RecoverStream,
       UpdatePipeline, Over
  <2>2. ~DatanodeReceives /\ ~Crash /\ ~UNCHANGED vars
    BY Zenon, <1>1 DEF DatanodeReceives, Crash, vars
  <2>3. ~Write /\ ~WriteFails /\ ~Timeout /\ ~NothingToRead /\ ~ReadFails
    BY Zenon, <1>1 DEF Write, WriteFails, Timeout, NothingToRead, ReadFails, IOError, Fails
  <2>4. ~ReadAck
    BY Zenon, <1>1 DEF ReadAck, PopAcked, AfterRead, IOError
  <2>5. WaitOver
    BY Zenon, <1>1, <2>1, <2>2, <2>3, <2>4 DEF Next, Stream
  <2>6. packets = <<>>
    BY Zenon, <1>1, <2>5 DEF WaitOver, Waited
  <2> QED BY <1>1, <2>6 DEF IInv, Bytes
<1>2. IInv /\ [Next]_vars => [pc = "flush" /\ pc' = "idle" => bytesAcked = fed]_vars
  BY Zenon, <1>1
<1> QED BY <1>2, Invariance, PTL DEF Spec, FlushedIsAcked

\* ImplementsBlockWriter: for its stream, PipelineImpl is a BlockWriter, whatever the
\* datanodes and the namenode do.
THEOREM Refinement == Spec => ImplementsBlockWriter
<1>1. Init => Promise!BWInit
  BY PipelineAssumption DEF Init, InitCreate, InitAppend, Promise!BWInit
<1>2. ASSUME IInv, IInv', [Next]_vars PROVE [Promise!BWNext]_(Promise!bwVars)
  <2>1. /\ fed \in Nat /\ fed' \in Nat /\ bytesAcked \in Nat /\ bytesAcked' \in Nat /\ bytesAcked' <= fed'
    BY Zenon, <1>2 DEF IInv, TypeCaller, TypePipe, Bytes
  <2>2. ASSUME UNCHANGED <<fed, bytesAcked, pc>> PROVE UNCHANGED Promise!bwVars
    BY Zenon, <2>2 DEF Promise!bwVars
  <2>3. ASSUME UNCHANGED <<fed, bytesAcked>>, pc \notin {"closed", "failed", "abort"},
               pc' = "closed" => bytesAcked = fed
        PROVE  [Promise!BWNext]_(Promise!bwVars)
    BY Zenon, <2>3 DEF Promise!BWNext, Promise!CloseBlock, Promise!Fail, Promise!bwVars
  <2>4. CASE Construct
    <3>1. /\ UNCHANGED <<fed, bytesAcked>> /\ pc \notin {"closed", "failed", "abort"} /\ pc' # "closed"
      BY Zenon, <2>4 DEF Construct, LocateNextBlock, LocateFails, CreateStream, AbandonBlock, Fails, caller
    <3> QED BY Zenon, <2>3, <3>1
  <2>5. CASE Flush \/ Close
    <3>1. /\ UNCHANGED <<fed, bytesAcked>> /\ pc \notin {"closed", "failed", "abort"} /\ pc' # "closed"
      BY Zenon, <2>5 DEF Flush, Close, pipe, caller
    <3> QED BY <2>3, <3>1
  <2>6. CASE Send
    <3>1. /\ UNCHANGED bytesAcked /\ pc = "idle" /\ pc' \in {"full", "write"}
      BY Zenon, <2>6 DEF Send, Pushed
    <3>2. fed' >= fed
      BY <2>1, <2>6 DEF Send, Handover, Max2
    <3> QED BY Zenon, <2>1, <3>1, <3>2 DEF Promise!BWNext, Promise!HandOver
  <2>7. CASE Recover
    <3>1. /\ UNCHANGED <<fed, bytesAcked>> /\ pc \notin {"closed", "failed", "abort"}
      BY Zenon, <2>7 DEF Recover, RemoveBadNode, AddDatanode, Transfer, UpdateBlockForPipeline, RecoverStream,
         UpdatePipeline, caller
    <3>2. pc' # "closed"
      <4>1. CASE UpdatePipeline
        BY Zenon, <1>2, <4>1 DEF UpdatePipeline, Fails, IInv, TypeLocals, Waits
      <4>2. CASE ~UpdatePipeline
        BY Zenon, <2>7, <4>2 DEF Recover, RemoveBadNode, AddDatanode, Transfer, UpdateBlockForPipeline,
           RecoverStream, TryAgain, GiveUp, Fails
      <4> QED BY Zenon, <4>1, <4>2
    <3> QED BY Zenon, <2>3, <3>1, <3>2
  <2>8. CASE DatanodeReceives \/ Crash \/ Over \/ UNCHANGED vars
    BY Zenon, <2>2, <2>8 DEF DatanodeReceives, Crash, Over, vars, pipe, caller
  <2>9. CASE Write \/ WriteFails \/ Timeout \/ NothingToRead \/ ReadFails
    <3>1. UNCHANGED <<fed, bytesAcked>>
      BY Zenon, <2>9 DEF Write, WriteFails, Timeout, NothingToRead, ReadFails, pipe, caller
    <3>2. pc \notin {"closed", "failed", "abort"}
      BY Zenon, <2>9 DEF Write, WriteFails, Timeout, NothingToRead, ReadFails, Writing, Reading, Waits
    <3>3. pc' # "closed"
      BY Zenon, <2>9, <3>2 DEF Write, WriteFails, Timeout, NothingToRead, ReadFails, IOError, Fails, Returned
    <3> QED BY Zenon, <2>3, <3>1, <3>2, <3>3
  <2>10. CASE ReadAck
    <3>1. /\ UNCHANGED fed /\ pc \in Waits \cup {"poll"} /\ pc \notin {"closed", "failed", "abort"}
      BY Zenon, <2>10 DEF ReadAck, Reading, Waits, caller
    <3>2. CASE PopAcked
      <4>1. pc' \notin {"closed", "failed", "abort"}
        BY Zenon, <3>1, <3>2 DEF PopAcked, AfterRead, Returned
      <4>2. bytesAcked' = AckedThrough(packets[1])
        BY Zenon, <3>2 DEF PopAcked
      <4>3. packets # <<>>
        BY Zenon, <2>10, <4>1 DEF ReadAck, IOError
      <4>4. packets[1].end \in Nat
        <5>1. 1 \in DOMAIN packets
          BY SMTT(30), <1>2, <4>3 DEF IInv, TypePipe
        <5> QED BY Zenon, <1>2, <5>1, PacketTypes
      <4>5. bytesAcked' \in bytesAcked..fed
        BY <2>1, <3>1, <4>2, <4>4 DEF AckedThrough, Max2
      <4> QED BY Zenon, <3>1, <4>1, <4>5 DEF Promise!BWNext, Promise!Ack
    <3>3. CASE ~PopAcked
      <4>1. UNCHANGED bytesAcked /\ pc' # "closed"
        BY Zenon, <2>10, <3>3 DEF ReadAck, IOError
      <4> QED BY Zenon, <2>3, <3>1, <4>1
    <3> QED BY Zenon, <3>2, <3>3
  <2>11. CASE WaitOver
    <3>1. UNCHANGED bytesAcked /\ pc \in Waits /\ pc \notin {"closed", "failed", "abort"}
      BY Zenon, <2>11 DEF WaitOver, Waits
    <3>2. CASE pc = "final"
      <4>1. bytesAcked = fed /\ UNCHANGED fed
        BY SMTT(30), <1>2, <2>11, <3>2 DEF IInv, Place, Bytes, WaitOver, caller
      <4> QED BY ZenonT(30), <2>3, <3>1, <4>1
    <3>3. CASE pc \in {"full", "flush"}
      <4>1. UNCHANGED fed /\ pc' # "closed"
        BY Zenon, <2>11, <3>3 DEF WaitOver, caller
      <4> QED BY Zenon, <2>3, <3>1, <4>1
    <3>4. CASE pc = "drain"
      <4>1. pc' \in {"full", "write"}
        BY Zenon, <2>11, <3>4 DEF WaitOver, Pushed
      <4>2. PICK off \in packet.off..fed : Handover(off, off, TRUE)
        BY Zenon, <2>11, <3>4 DEF WaitOver
      <4>3. off \in Nat
        BY <1>2, <2>1 DEF IInv, TypeCaller, Packet
      <4>4. fed' >= fed
        BY <2>1, <4>2, <4>3 DEF Handover, Max2
      <4> QED BY Zenon, <2>1, <3>1, <3>4, <4>1, <4>4 DEF Promise!BWNext, Promise!HandOver
    <3> QED BY Zenon, <3>1, <3>2, <3>3, <3>4 DEF Waits
  <2> QED BY Zenon, <1>2, <2>4, <2>5, <2>6, <2>7, <2>8, <2>9, <2>10, <2>11 DEF Next, Stream
<1> QED BY <1>1, <1>2, Invariance, PTL DEF Spec, ImplementsBlockWriter, Promise!BWSpec

-----------------------------------------------------------------------------
(* The invariants.                                                         *)

\* A pending packet begins inside of what is acked or of a packet before it.
Chain ==
    /\ \A j \in DOMAIN packets :
          \/ packets[j].off <= bytesAcked
          \/ \E h \in DOMAIN packets : h < j /\ packets[h].end >= packets[j].off
    /\ \/ packet.off <= bytesAcked
       \/ \E h \in DOMAIN packets :
             packets[h].seqno < packet.seqno /\ packets[h].end >= packet.off

InStream(p) == \E k \in DOMAIN conn.stream : conn.stream[k] = p

\* What is pending was written to the connection, but for the packet that send is about
\* to write, unless everything is going to be written again.
Written ==
    /\ pc \in {"idle", "poll"} \/ (pc \in {"flush", "drain", "final"} /\ ~failover) =>
          \A j \in DOMAIN packets : InStream(packets[j])
    /\ pc \in {"full", "write"} /\ ~failover =>
          \A j \in DOMAIN packets : packets[j].seqno < packet.seqno => InStream(packets[j])
    /\ pc \in Rebuilding \cup {"update"} => (failover /\ ret # "idle") \/ packets = <<>>

\* The connection that a recovery leaves behind: its nodes are in the pipeline or are
\* excluded, and its generation stamp is older than the next one.
OldConn ==
    /\ conn.gs <= nn.issued
    /\ pc = "setup" => conn.gs < gs
    /\ pc \in Setting => conn.nodes = <<>>
    /\ pc \in Rebuilding => \A i \in DOMAIN conn.nodes :
          conn.nodes[i] \in excludedNodes \/ \E j \in DOMAIN nodes : nodes[j] = conn.nodes[i]
    /\ pc = "transfer" => \A i \in DOMAIN conn.nodes : conn.nodes[i] # nodes[errorIndex]

\* A packet that node i has still to receive begins inside of its replica or of a packet
\* that it receives before.
NoGap ==
    \A i \in DOMAIN conn.nodes : replica[conn.nodes[i]].gs = conn.gs =>
        \A k \in DOMAIN conn.stream : k > conn.pos[i] =>
            \/ conn.stream[k].off <= replica[conn.nodes[i]].len
            \/ \E j \in DOMAIN conn.stream :
                  conn.pos[i] < j /\ j < k /\ conn.stream[j].end >= conn.stream[k].off

GapInv == Chain /\ Written /\ OldConn /\ NoGap

\* The packet that send was called with is still pending when send writes it.
Pool ==
    /\ pc = "full" \/ (pc \in Rebuilding \cup {"update"} /\ ret = "full") =>
          Len(packets) >= PoolSize - 1
    /\ pc \in {"write", "poll"} \/ (pc \in Rebuilding \cup {"update"} /\ ret = "write") =>
          packets # <<>>
    /\ pc # "abort"

-----------------------------------------------------------------------------
(* The pending packets.                                                    *)

\* The offsets and ends of the packets are numbers.
LEMMA PacketNumbers ==
    ASSUME IInv
    PROVE  /\ packets \in Seq(Packet) /\ conn.stream \in Seq(Packet) /\ packet \in Packet
           /\ \A i \in DOMAIN packets : packets[i].off \in Nat /\ packets[i].end \in Nat
                                        /\ packets[i].seqno \in Int
           /\ \A k \in DOMAIN conn.stream : conn.stream[k].off \in Nat /\ conn.stream[k].end \in Nat
           /\ packet.off \in Nat /\ packet.end \in Nat /\ packet.seqno \in Int
           /\ bytesAcked \in Nat /\ fed \in Nat
<1>1. \A p \in Packet : p.off \in Nat /\ p.end \in Nat /\ p.seqno \in Int
  BY Zenon DEF Packet
<1>2. packets \in Seq(Packet) /\ conn.stream \in Seq(Packet) /\ packet \in Packet
      /\ bytesAcked \in Nat /\ fed \in Nat
  BY Zenon DEF IInv, TypePipe, TypeNet, TypeCaller
<1>3. /\ \A i \in DOMAIN packets : packets[i] \in Packet
      /\ \A k \in DOMAIN conn.stream : conn.stream[k] \in Packet
  BY <1>2
<1> QED BY Zenon, <1>1, <1>2, <1>3

\* send and close hand over a packet that begins inside of what was handed over before.
LEMMA HandoverChain ==
    ASSUME IInv, Chain, NEW off \in Nat, NEW end \in Nat, NEW last \in BOOLEAN, off <= fed,
           Handover(off, end, last), UNCHANGED bytesAcked
    PROVE  Chain'
<1>1. /\ packets \in Seq(Packet) /\ packet.seqno \in Int /\ bytesAcked \in Nat /\ fed \in Nat
      /\ \A i \in DOMAIN packets : packets[i].off \in Nat /\ packets[i].end \in Nat
                                   /\ packets[i].seqno \in Int
  BY Zenon, PacketNumbers
<1>2. packet' = [seqno |-> packet.seqno + 1, off |-> off, end |-> end, last |-> last]
      /\ packets' = Append(packets, packet')
  BY Zenon DEF Handover
<1>3. packet'.off = off /\ packet'.seqno = packet.seqno + 1 /\ packet' \in Packet
  BY <1>1, <1>2 DEF Packet
<1>4. /\ DOMAIN packets' = 1..(Len(packets) + 1) /\ DOMAIN packets = 1..Len(packets) /\ Len(packets) \in Nat
      /\ \A i \in DOMAIN packets : packets'[i] = packets[i] /\ i \in DOMAIN packets'
      /\ packets'[Len(packets) + 1] = packet'
  BY <1>1, <1>2, <1>3
<1>5. off <= bytesAcked \/ \E h \in DOMAIN packets : packets[h].end >= off
  <2>1. bytesAcked = fed \/ \E i \in DOMAIN packets : packets[i].end = fed
    BY Zenon DEF IInv, Bytes
  <2> QED BY <1>1, <2>1
<1>6. \A h \in DOMAIN packets : packets[h].seqno < packet'.seqno
  <2>1. \A i \in DOMAIN packets : packets[i].seqno <= packet.seqno
    BY Zenon DEF IInv, Labels
  <2> QED BY <1>1, <1>3, <2>1
<1>7. packet'.off <= bytesAcked \/ \E h \in DOMAIN packets' :
          packets'[h].seqno < packet'.seqno /\ packets'[h].end >= packet'.off
  BY Zenon, <1>3, <1>4, <1>5, <1>6
<1>8. ASSUME NEW j \in DOMAIN packets'
      PROVE  \/ packets'[j].off <= bytesAcked
             \/ \E h \in DOMAIN packets' : h < j /\ packets'[h].end >= packets'[j].off
  <2>1. CASE j \in DOMAIN packets
    BY Zenon, <1>4, <2>1 DEF Chain
  <2>2. CASE j = Len(packets) + 1
    <3>1. \A h \in DOMAIN packets : h < j
      BY <1>4, <2>2
    <3> QED BY Zenon, <1>3, <1>4, <1>5, <2>2, <3>1
  <2> QED BY <1>4, <2>1, <2>2
<1> QED BY Zenon, <1>7, <1>8 DEF Chain

\* An ack that takes the first packet off moves bytesAcked to its end.
LEMMA PopChain == ASSUME IInv, Chain, packets # <<>>, PopAcked, UNCHANGED packet PROVE Chain'
<1>1. /\ packets \in Seq(Packet) /\ packet.off \in Nat /\ bytesAcked \in Nat
      /\ \A i \in DOMAIN packets : packets[i].off \in Nat /\ packets[i].end \in Nat
  BY Zenon, PacketNumbers
<1>2. 1 \in DOMAIN packets /\ DOMAIN packets = 1..Len(packets) /\ Len(packets) \in Nat \ {0}
  BY Zenon, <1>1, NonEmptyFacts
<1>3. packets' = Tail(packets) /\ bytesAcked' = Max2(packets[1].end, bytesAcked)
  BY Zenon DEF PopAcked, AckedThrough
<1>4. bytesAcked' \in Nat /\ bytesAcked' >= bytesAcked /\ bytesAcked' >= packets[1].end
  BY <1>1, <1>2, <1>3 DEF Max2
<1>5. /\ DOMAIN packets' = 1..(Len(packets) - 1)
      /\ \A i \in DOMAIN packets' : packets'[i] = packets[i + 1]
  BY <1>1, <1>2, <1>3
<1>6. \A h \in DOMAIN packets : h = 1 \/ (h - 1 \in DOMAIN packets' /\ packets'[h - 1] = packets[h])
  BY <1>2, <1>5
<1>7. ASSUME NEW j \in DOMAIN packets'
      PROVE  \/ packets'[j].off <= bytesAcked'
             \/ \E h \in DOMAIN packets' : h < j /\ packets'[h].end >= packets'[j].off
  <2>1. j + 1 \in DOMAIN packets /\ packets'[j] = packets[j + 1] /\ j \in Int
    BY <1>2, <1>5
  <2>2. CASE packets[j + 1].off <= bytesAcked
    BY <1>1, <1>4, <2>1, <2>2
  <2>3. CASE \E h \in DOMAIN packets : h < j + 1 /\ packets[h].end >= packets[j + 1].off
    <3>1. PICK h \in DOMAIN packets : h < j + 1 /\ packets[h].end >= packets[j + 1].off
      BY Zenon, <2>3
    <3>2. CASE h = 1
      BY <1>1, <1>2, <1>4, <2>1, <3>1, <3>2
    <3>3. CASE h # 1
      <4>1. h - 1 \in DOMAIN packets' /\ packets'[h - 1] = packets[h]
        BY Zenon, <1>6, <3>3
      <4>2. h - 1 < j
        BY <1>2, <2>1, <3>1
      <4> QED BY Zenon, <2>1, <3>1, <4>1, <4>2
    <3> QED BY Zenon, <3>2, <3>3
  <2> QED BY Zenon, <2>1, <2>2, <2>3 DEF Chain
<1>8. packet.off <= bytesAcked' \/ \E h \in DOMAIN packets' :
          packets'[h].seqno < packet.seqno /\ packets'[h].end >= packet.off
  <2>1. CASE packet.off <= bytesAcked
    BY <1>1, <1>4, <2>1
  <2>2. CASE \E h \in DOMAIN packets : packets[h].seqno < packet.seqno /\ packets[h].end >= packet.off
    <3>1. PICK h \in DOMAIN packets : packets[h].seqno < packet.seqno /\ packets[h].end >= packet.off
      BY Zenon, <2>2
    <3>2. CASE h = 1
      BY <1>1, <1>2, <1>4, <3>1, <3>2
    <3>3. CASE h # 1
      BY Zenon, <1>6, <3>1, <3>3
    <3> QED BY Zenon, <3>2, <3>3
  <2> QED BY Zenon, <2>1, <2>2 DEF Chain
<1> QED BY Zenon, <1>7, <1>8 DEF Chain

\* The steps that leave the packets and the count of acked bytes alone.
PacketsStay == UNCHANGED <<packets, packet, bytesAcked>>

\* What a step does to the pending packets.
LEMMA PacketEffect ==
    ASSUME IInv, [Next]_vars
    PROVE  \/ PacketsStay
           \/ Send \/ (WaitOver /\ pc = "drain")
           \/ ReadAck /\ packets # <<>> /\ PopAcked /\ UNCHANGED packet
           \/ UpdatePipeline /\ stage = "CLOSE" /\ packets' = <<>> /\ UNCHANGED <<packet, bytesAcked>>
<1>1. CASE Construct
  BY Zenon, <1>1 DEF Construct, LocateNextBlock, LocateFails, CreateStream, AbandonBlock, caller, PacketsStay
<1>2. CASE Send \/ Flush \/ Close
  BY Zenon, <1>2 DEF Flush, Close, pipe, caller, PacketsStay
<1>3. CASE Stream
  <2>1. CASE ReadAck
    BY Zenon, <2>1 DEF ReadAck, caller, PacketsStay
  <2>2. CASE WaitOver
    BY Zenon, <2>2 DEF WaitOver, caller, PacketsStay
  <2>3. CASE Write \/ WriteFails \/ Timeout \/ NothingToRead \/ ReadFails
    BY Zenon, <2>3 DEF Write, WriteFails, Timeout, NothingToRead, ReadFails, pipe, caller, PacketsStay
  <2> QED BY Zenon, <1>3, <2>1, <2>2, <2>3 DEF Stream
<1>4. CASE Recover
  <2>1. CASE UpdatePipeline
    BY Zenon, <2>1 DEF UpdatePipeline, caller, PacketsStay
  <2>2. CASE RemoveBadNode \/ AddDatanode \/ Transfer \/ UpdateBlockForPipeline \/ RecoverStream
    BY Zenon, <2>2 DEF RemoveBadNode, AddDatanode, Transfer, UpdateBlockForPipeline, RecoverStream, caller, PacketsStay
  <2> QED BY Zenon, <1>4, <2>1, <2>2 DEF Recover
<1>5. CASE DatanodeReceives \/ Crash \/ Over \/ UNCHANGED vars
  BY Zenon, <1>5 DEF DatanodeReceives, Crash, Over, vars, pipe, caller, PacketsStay
<1> QED BY Zenon, <1>1, <1>2, <1>3, <1>4, <1>5 DEF Next

\* Every step keeps the chain of the pending packets.
LEMMA ChainStep == ASSUME IInv, Chain, [Next]_vars PROVE Chain'
<1>1. CASE PacketsStay
  BY Zenon, <1>1 DEF PacketsStay, Chain
<1>2. CASE Send
  <2>1. PICK off \in packet.off..fed, end \in fed..MaxBytes : Handover(off, end, FALSE)
    BY Zenon, <1>2 DEF Send
  <2>2. off \in Nat /\ end \in Nat /\ off <= fed
    BY PacketNumbers, PipelineAssumption
  <2> QED BY Zenon, <1>2, <2>1, <2>2, HandoverChain DEF Send
<1>3. CASE WaitOver /\ pc = "drain"
  <2>1. PICK off \in packet.off..fed : Handover(off, off, TRUE)
    BY Zenon, <1>3 DEF WaitOver
  <2>2. off \in Nat /\ off <= fed
    BY PacketNumbers
  <2>3. UNCHANGED bytesAcked
    BY Zenon, <1>3 DEF WaitOver
  <2> QED BY Zenon, <2>1, <2>2, <2>3, HandoverChain
<1>4. CASE ReadAck /\ packets # <<>> /\ PopAcked /\ UNCHANGED packet
  BY Zenon, <1>4, PopChain
<1>5. CASE UpdatePipeline /\ stage = "CLOSE" /\ packets' = <<>> /\ UNCHANGED <<packet, bytesAcked>>
  <2>1. packet.off <= bytesAcked
    BY Zenon, <1>5 DEF IInv, Bytes
  <2>2. DOMAIN packets' = {}
    BY <1>5
  <2> QED BY Zenon, <1>5, <2>1, <2>2 DEF Chain
<1> QED BY Zenon, <1>1, <1>2, <1>3, <1>4, <1>5, PacketEffect

-----------------------------------------------------------------------------
(* The assertions: what is pending while send runs.                        *)

\* A packet that was handed over is pending.
LEMMA HandoverPool ==
    ASSUME IInv, PoolSize \in Nat, NEW off, NEW end, NEW last, Handover(off, end, last), pc' = Pushed
    PROVE  Pool'
<1>1. packets \in Seq(Packet)
  BY Zenon DEF IInv, TypePipe
<1>2. packets' = Append(packets, packet')
  BY Zenon DEF Handover
<1>3. packets' # <<>>
  BY <1>1, <1>2
<1>4. pc' = "full" => Len(packets') > PoolSize
  BY Zenon DEF Pushed, TooManyPending
<1>5. pc' \in {"full", "write"}
  BY Zenon DEF Pushed
<1>6. Len(packets') \in Nat
  BY <1>1, <1>2
<1>7. Len(packets') > PoolSize => Len(packets') >= PoolSize - 1
  BY <1>6
<1> QED BY Zenon, <1>3, <1>4, <1>5, <1>7 DEF Pool, Rebuilding

\* A failover remembers in ret where the thread was.
LEMMA IOErrorPool ==
    ASSUME IInv, Pool, NEW i, IOError(i), pc \in Waits \cup {"write", "poll"}, UNCHANGED packets
    PROVE  Pool'
BY Zenon DEF Pool, IOError, Rebuilding, Waits

\* No step of a pipeline whose pool holds two packets or more fails an assertion.
LEMMA PoolStep == ASSUME IInv, Pool, PoolSize >= 2, [Next]_vars PROVE Pool'
<1>0. PoolSize \in Nat
  BY PipelineAssumption
<1>1. CASE Construct
  <2>1. pc' \in {"failed", "create", "locate", "abandon", "idle"}
    BY Zenon, <1>1 DEF Construct, LocateNextBlock, LocateFails, CreateStream, AbandonBlock, Fails
  <2> QED BY Zenon, <2>1 DEF Pool, Rebuilding
<1>2. CASE Send
  <2>1. PICK off \in packet.off..fed, end \in fed..MaxBytes : Handover(off, end, FALSE)
    BY Zenon, <1>2 DEF Send
  <2> QED BY Zenon, <1>0, <1>2, <2>1, HandoverPool DEF Send
<1>3. CASE Flush \/ Close \/ Timeout \/ NothingToRead
  <2>1. pc' \in {"flush", "drain", "failed", "final", "idle"}
    BY Zenon, <1>3 DEF Flush, Close, Timeout, NothingToRead, Fails, Returned
  <2> QED BY Zenon, <2>1 DEF Pool, Rebuilding
<1>4. CASE Write
  BY Zenon, <1>4 DEF Write, Writing, Pool, Rebuilding, Waits
<1>5. CASE WriteFails \/ ReadFails
  <2>1. pc \in Waits \cup {"write", "poll"} /\ UNCHANGED packets
    BY Zenon, <1>5 DEF WriteFails, ReadFails, Writing, Reading
  <2>2. \E i : IOError(i)
    BY Zenon, <1>5 DEF WriteFails, ReadFails
  <2> QED BY Zenon, <2>1, <2>2, IOErrorPool
<1>6. CASE ReadAck
  <2>1. pc \in Waits \cup {"poll"} /\ packets # <<>>
    BY Zenon, <1>6 DEF ReadAck, Reading, Waited, Pool
  <2>2. CASE IOError(0) /\ UNCHANGED packets
    BY Zenon, <2>1, <2>2, IOErrorPool
  <2>3. CASE PopAcked
    <3>1. pc = "poll" => pc' \in {"idle", "final"}
      BY Zenon, <2>3 DEF PopAcked, AfterRead, Returned
    <3>2. pc # "poll" => pc' = pc
      BY Zenon, <2>3 DEF PopAcked, AfterRead
    <3>3. ASSUME pc = "full" PROVE Len(packets') >= PoolSize - 1
      <4>1. ~(Len(packets) < PoolSize)
        BY Zenon, <1>6, <3>3 DEF ReadAck, Reading, Waited
      <4>2. packets \in Seq(Packet) /\ packets' = Tail(packets)
        BY Zenon, <2>3 DEF IInv, TypePipe, PopAcked
      <4>3. Len(packets') = Len(packets) - 1 /\ Len(packets) \in Nat
        BY <2>1, <4>2
      <4> QED BY <1>0, <4>1, <4>3
    <3> QED BY Zenon, <2>1, <3>1, <3>2, <3>3 DEF Pool, Waits, Rebuilding
  <2> QED BY Zenon, <1>6, <2>1, <2>2, <2>3 DEF ReadAck
<1>7. CASE WaitOver
  <2>1. CASE pc = "full" /\ pc' = "write" /\ UNCHANGED packets
    <3>1. Len(packets) >= PoolSize - 1
      BY Zenon, <2>1 DEF Pool
    <3>2. packets # <<>>
      BY <1>0, <3>1
    <3> QED BY Zenon, <2>1, <3>2 DEF Pool, Rebuilding
  <2>2. CASE pc' \in {"idle", "closed"}
    BY Zenon, <2>2 DEF Pool, Rebuilding
  <2>3. CASE pc = "drain"
    <3>1. PICK off \in packet.off..fed : Handover(off, off, TRUE)
      BY Zenon, <1>7, <2>3 DEF WaitOver
    <3>2. pc' = Pushed
      BY Zenon, <1>7, <2>3 DEF WaitOver
    <3> QED BY Zenon, <1>0, <3>1, <3>2, HandoverPool
  <2> QED BY Zenon, <1>7, <2>1, <2>2, <2>3 DEF WaitOver
<1>8. CASE RemoveBadNode \/ AddDatanode \/ Transfer \/ UpdateBlockForPipeline \/ RecoverStream
  <2>1. pc \in Rebuilding /\ pc' \in Rebuilding \cup {"update", "failed"} /\ UNCHANGED <<ret, packets>>
    BY Zenon, <1>8 DEF RemoveBadNode, AddDatanode, Transfer, UpdateBlockForPipeline, RecoverStream,
       TryAgain, GiveUp, Fails, Rebuilding
  <2> QED BY Zenon, <2>1 DEF Pool, Rebuilding
<1>9. CASE UpdatePipeline
  <2>1. CASE Fails
    BY Zenon, <2>1 DEF Fails, Pool, Rebuilding
  <2>2. CASE stage = "CLOSE" /\ pc' = IF stage = "CLOSE" /\ ret = "write" THEN "final" ELSE ret
    <3>1. pc' = "final"
      BY Zenon, <1>9, <2>2 DEF IInv, Place, UpdatePipeline
    <3> QED BY Zenon, <3>1 DEF Pool, Rebuilding
  <2>3. CASE stage # "CLOSE" /\ UNCHANGED packets /\ pc' = ret
    <3>1. ret \in Waits \cup {"idle", "write"} /\ pc = "update"
      BY Zenon, <1>9 DEF IInv, TypeLocals, UpdatePipeline
    <3> QED BY Zenon, <2>3, <3>1 DEF Pool, Rebuilding, Waits
  <2> QED BY Zenon, <1>9, <2>1, <2>2, <2>3 DEF UpdatePipeline
<1>10. CASE DatanodeReceives \/ Crash \/ Over \/ UNCHANGED vars
  BY Zenon, <1>10 DEF DatanodeReceives, Crash, Over, vars, pipe, locals, Pool
<1> QED BY Zenon, <1>1, <1>2, <1>3, <1>4, <1>5, <1>6, <1>7, <1>8, <1>9, <1>10 DEF Next, Stream, Recover

\* AssertionsHold: with room for two packets in the pool, assert(!packets.empty()),
\* assert(sock) and the assertion on the last packet hold whatever fails.  A pool of one
\* packet is the exception: send then waits for the ack of a packet it has not written.
THEOREM AssertionsSafe == ASSUME PoolSize >= 2 PROVE Spec => []AssertionsHold
<1>1. Init => Pool
  BY Zenon DEF Init, InitCreate, InitAppend, InitRest, Pool, Rebuilding
<1>2. IInv /\ Pool /\ [Next]_vars => Pool'
  BY Zenon, PoolStep
<1>3. Spec => []Pool
  BY <1>1, <1>2, Invariance, PTL DEF Spec
<1>4. ASSUME IInv, Pool PROVE pc # "abort" /\ (pc \in {"idle", "write"} => sock /\ conn.nodes = nodes)
  BY Zenon, <1>4 DEF Pool, IInv, Place, Delivered, Streaming
<1>5. IInv /\ Pool /\ CloseDropsOnlyLastPacket => AssertionsHold
  BY Zenon, <1>4 DEF AssertionsHold
<1> QED BY <1>3, <1>5, Invariance, CloseDropsLast, PTL

-----------------------------------------------------------------------------
(* The connection that a recovery leaves behind.                           *)

\* The packets that are written and the acks that are read leave the rest of the
\* connection alone.
ConnStays == conn'.gs = conn.gs /\ conn'.nodes = conn.nodes

\* While there is something to write or to read, the client holds a connection to the
\* nodes of the pipeline.
LEMMA BusyHasSock ==
    ASSUME IInv, Writing \/ Reading
    PROVE  /\ sock /\ conn.nodes = nodes /\ pc \in Streaming
           /\ pc \in Waits \cup {"write", "poll"} /\ pc \notin {"build", "transfer"}
BY Zenon DEF IInv, Writing, Reading, Waited, Place, Streaming, Delivered, Waits

\* A connection that breaks leaves the nodes of the pipeline.
LEMMA IOErrorOldConn ==
    ASSUME IInv, OldConn, NEW i, IOError(i), Writing \/ Reading, ConnStays, UNCHANGED <<nodes, nn>>
    PROVE  OldConn'
<1>1. conn.nodes = nodes /\ pc' = "build"
  BY Zenon, BusyHasSock DEF IOError
<1>2. conn'.gs <= nn'.issued
  BY Zenon DEF OldConn, ConnStays
<1> QED BY Zenon, <1>1, <1>2 DEF OldConn, ConnStays, Setting, Rebuilding

\* A node that is taken out of the pipeline is excluded from the rest of the recovery.
LEMMA RemoveBadNodeOldConn == ASSUME IInv, OldConn, RemoveBadNode PROVE OldConn'
<1>1. /\ UNCHANGED <<conn, nn, gs>> /\ pc = "build" /\ pc' \in {"failed", "addnode", "newgs"}
  BY Zenon DEF RemoveBadNode, Fails, net, ext
<1>2. \A i \in DOMAIN conn.nodes :
          conn.nodes[i] \in excludedNodes \/ \E j \in DOMAIN nodes : nodes[j] = conn.nodes[i]
  BY Zenon, <1>1 DEF OldConn, Rebuilding
<1>3. \A j \in DOMAIN nodes : nodes[j] \in excludedNodes' \/ \E k \in DOMAIN nodes' : nodes'[k] = nodes[j]
  <2>1. CASE errorIndex > 0
    <3>1. /\ nodes' = WithoutBad(nodes, errorIndex) /\ excludedNodes' = excludedNodes \cup {nodes[errorIndex]}
      BY Zenon, <2>1 DEF RemoveBadNode
    <3>2. nodes \in Seq(DN) /\ errorIndex \in 1..Len(nodes)
      BY <1>1, <2>1 DEF IInv, TypePipe, Place
    <3>3. ASSUME NEW j \in DOMAIN nodes, j # errorIndex
          PROVE  \E k \in DOMAIN nodes' : nodes'[k] = nodes[j]
      <4>1. CASE j < errorIndex
        <5>1. j \in 1..(Len(nodes) - 1)
          BY <3>2, <3>3, <4>1
        <5>2. j \in DOMAIN nodes' /\ nodes'[j] = nodes[j]
          BY <3>1, <4>1, <5>1 DEF WithoutBad
        <5> QED BY Zenon, <5>2
      <4>2. CASE j > errorIndex
        <5>1. j - 1 \in 1..(Len(nodes) - 1) /\ ~(j - 1 < errorIndex) /\ (j - 1) + 1 = j
          BY <3>2, <3>3, <4>2
        <5>2. j - 1 \in DOMAIN nodes' /\ nodes'[j - 1] = nodes[j]
          BY <3>1, <5>1 DEF WithoutBad
        <5> QED BY Zenon, <5>2
      <4> QED BY <3>2, <3>3, <4>1, <4>2
    <3> QED BY Zenon, <3>1, <3>3
  <2>2. CASE ~(errorIndex > 0)
    BY Zenon, <2>2 DEF RemoveBadNode
  <2> QED BY Zenon, <2>1, <2>2
<1>4. excludedNodes \subseteq excludedNodes'
  BY Zenon DEF RemoveBadNode
<1> QED BY Zenon, <1>1, <1>2, <1>3, <1>4 DEF OldConn, Setting, Rebuilding

\* The node that is added is not one of the connection's.
LEMMA AddDatanodeOldConn == ASSUME IInv, OldConn, AddDatanode PROVE OldConn'
<1>1. /\ UNCHANGED <<conn, nn, gs, excludedNodes>> /\ pc = "addnode"
  BY Zenon DEF AddDatanode, net, ext
<1>2. \A i \in DOMAIN conn.nodes :
          conn.nodes[i] \in excludedNodes \/ \E j \in DOMAIN nodes : nodes[j] = conn.nodes[i]
  BY Zenon, <1>1 DEF OldConn, Rebuilding
<1>3. CASE UNCHANGED nodes /\ pc' \in {"build", "failed"}
  BY Zenon, <1>1, <1>2, <1>3 DEF OldConn, Setting, Rebuilding
<1>4. ASSUME NEW n \in DN \ (Range(nodes) \cup excludedNodes), NEW d \in 1..(Len(nodes) + 1),
             nodes' = WithNew(nodes, d, n), errorIndex' = d, pc' = "transfer"
      PROVE  OldConn'
  <2>1. nodes \in Seq(DN)
    BY Zenon DEF IInv, TypePipe
  <2>2. nodes'[d] = n
    BY <1>4, <2>1 DEF WithNew
  <2>3. ASSUME NEW j \in DOMAIN nodes PROVE \E k \in DOMAIN nodes' : nodes'[k] = nodes[j]
    <3>1. CASE j < d
      <4>1. j \in DOMAIN nodes' /\ nodes'[j] = nodes[j]
        BY <1>4, <2>1, <2>3, <3>1 DEF WithNew
      <4> QED BY Zenon, <4>1
    <3>2. CASE j >= d
      <4>1. j + 1 \in 1..(Len(nodes) + 1) /\ ~(j + 1 < d) /\ j + 1 # d /\ (j + 1) - 1 = j
        BY <2>1, <2>3, <3>2
      <4>2. j + 1 \in DOMAIN nodes' /\ nodes'[j + 1] = nodes[j]
        BY <1>4, <4>1 DEF WithNew
      <4> QED BY Zenon, <4>2
    <3> QED BY <2>1, <2>3, <3>1, <3>2
  <2>4. \A i \in DOMAIN conn.nodes : conn.nodes[i] # n
    BY Zenon, <1>2, <1>4 DEF Range
  <2>5. \A i \in DOMAIN conn'.nodes :
            conn'.nodes[i] \in excludedNodes' \/ \E j \in DOMAIN nodes' : nodes'[j] = conn'.nodes[i]
    BY Zenon, <1>1, <1>2, <2>3
  <2>6. \A i \in DOMAIN conn'.nodes : conn'.nodes[i] # nodes'[errorIndex']
    BY Zenon, <1>1, <1>4, <2>2, <2>4
  <2>7. conn'.gs <= nn'.issued /\ pc' # "setup" /\ pc' \notin Setting
    BY Zenon, <1>1, <1>4 DEF OldConn, Setting
  <2> QED BY Zenon, <2>5, <2>6, <2>7 DEF OldConn
<1> QED BY Zenon, <1>3, <1>4 DEF AddDatanode, TryAgain, GiveUp, Fails

\* Every step keeps what is known of the connection.
LEMMA OldConnStep == ASSUME IInv, OldConn, [Next]_vars PROVE OldConn'
<1>0. /\ conn \in [gs : Nat, nodes : Seq(DN), pos : Seq(Nat), read : Nat, stream : Seq(Packet)]
      /\ nn \in [issued : Nat, gs : Nat, nodes : SUBSET DN]
  BY Zenon DEF IInv, TypeNet, TypeExt
<1>1. CASE Construct
  <2>1. CASE LocateNextBlock
    <3>1. conn' = NoConn /\ nn'.issued = nn.issued + 1 /\ pc' \in {"failed", "create"}
      BY <2>1 DEF LocateNextBlock
    <3>2. conn'.nodes = <<>> /\ conn'.gs <= nn'.issued
      BY <1>0, <3>1 DEF NoConn
    <3> QED BY Zenon, <3>1, <3>2 DEF OldConn, Setting, Rebuilding
  <2>2. CASE CreateStream /\ Connected(lastBlock.gs) /\ pc' = "idle"
    <3>1. conn'.gs = lastBlock.gs /\ UNCHANGED nn
      BY <2>2 DEF CreateStream, Connected
    <3>2. conn'.gs <= nn'.issued
      BY Zenon, <3>1 DEF IInv, Stamps
    <3> QED BY Zenon, <2>2, <3>2 DEF OldConn, Setting, Rebuilding
  <2>3. CASE \/ LocateFails \/ AbandonBlock
             \/ CreateStream /\ NotConnected(lastBlock.gs) /\ pc' = "abandon"
    <3>1. UNCHANGED <<conn, nn>> /\ pc \in Setting /\ pc' \in Setting \cup {"idle", "failed"}
      BY Zenon, <2>3 DEF LocateFails, AbandonBlock, CreateStream, NotConnected, Fails, Setting, net, ext
    <3> QED BY Zenon, <3>1 DEF OldConn, Setting, Rebuilding
  <2> QED BY Zenon, <1>1, <2>1, <2>2, <2>3 DEF Construct, CreateStream
<1>2. ASSUME ConnStays, UNCHANGED nn, pc' \notin Setting \cup Rebuilding PROVE OldConn'
  BY Zenon, <1>2 DEF OldConn, ConnStays, Rebuilding
<1>3. CASE Send \/ Flush \/ Close
  <2>1. UNCHANGED <<conn, nn>> /\ pc' \in {"full", "write", "flush", "drain"}
    BY Zenon, <1>3 DEF Send, Flush, Close, Pushed, net, ext
  <2> QED BY Zenon, <1>2, <2>1 DEF ConnStays, Setting, Rebuilding
<1>4. CASE Stream
  <2>1. ConnStays /\ UNCHANGED <<nn, nodes>>
    <3>1. UNCHANGED conn \/ (\E ps : Put(ps)) \/ conn' = [conn EXCEPT !.read = @ + 1]
      BY Zenon, <1>4 DEF Stream, Write, WriteFails, Timeout, ReadAck, NothingToRead, ReadFails, WaitOver, net
    <3>2. ConnStays
      BY <1>0, <3>1 DEF Put, ConnStays
    <3>3. UNCHANGED <<nn, nodes>>
      BY Zenon, <1>4 DEF Stream, Write, WriteFails, Timeout, ReadAck, NothingToRead, ReadFails, WaitOver, ext, pipe
    <3> QED BY Zenon, <3>2, <3>3
  <2>2. CASE (Writing \/ Reading) /\ \E i : IOError(i)
    BY Zenon, <2>1, <2>2, IOErrorOldConn
  <2>3. CASE Write \/ Timeout \/ NothingToRead \/ WaitOver
    <3>1. pc' \in Waits \cup {"poll", "idle", "failed", "write", "closed"}
      BY Zenon, <2>3 DEF Write, Timeout, NothingToRead, WaitOver, Writing, Fails, Returned, Pushed, Waits
    <3> QED BY Zenon, <1>2, <2>1, <3>1 DEF Setting, Rebuilding, Waits
  <2>4. CASE ReadAck /\ (PopAcked \/ pc' = "abort")
    <3>1. pc' \in Waits \cup {"idle", "abort"}
      BY Zenon, <2>4 DEF ReadAck, PopAcked, AfterRead, Returned, Reading, Waits
    <3> QED BY Zenon, <1>2, <2>1, <3>1 DEF Setting, Rebuilding, Waits
  <2>5. WriteFails \/ ReadFails => (Writing \/ Reading) /\ \E i : IOError(i)
    BY Zenon DEF WriteFails, ReadFails
  <2>6. ReadAck => Reading /\ ((\E i : IOError(i)) \/ PopAcked \/ pc' = "abort")
    BY Zenon DEF ReadAck
  <2> QED BY Zenon, <1>4, <2>2, <2>3, <2>4, <2>5, <2>6 DEF Stream
<1>5. CASE RemoveBadNode \/ AddDatanode
  BY Zenon, <1>5, RemoveBadNodeOldConn, AddDatanodeOldConn
<1>6. CASE UpdateBlockForPipeline /\ pc' = "setup" /\ nn' = [nn EXCEPT !.issued = @ + 1]
  <2>1. gs' = nn.issued + 1 /\ nn'.issued = nn.issued + 1
    BY <1>0, <1>6 DEF UpdateBlockForPipeline, NewStamp
  <2>2. conn.gs <= nn.issued
    BY Zenon DEF OldConn
  <2>3. conn.gs < gs' /\ conn.gs <= nn'.issued
    BY <1>0, <2>1, <2>2
  <2>4. UNCHANGED <<conn, nodes, excludedNodes>> /\ pc = "newgs"
    BY Zenon, <1>6 DEF UpdateBlockForPipeline, net
  <2> QED BY Zenon, <1>6, <2>3, <2>4 DEF OldConn, Setting, Rebuilding
<1>7. CASE RecoverStream /\ Connected(gs) /\ pc' = "update"
  <2>1. conn'.gs = gs /\ UNCHANGED nn /\ pc = "setup"
    BY <1>7 DEF RecoverStream, Connected
  <2>2. conn'.gs <= nn'.issued
    BY <1>0, <2>1 DEF IInv, Stamps
  <2> QED BY Zenon, <1>7, <2>2 DEF OldConn, Setting, Rebuilding
<1>8. CASE \/ Transfer
           \/ UpdateBlockForPipeline /\ UNCHANGED nn /\ pc' # "setup"
           \/ RecoverStream /\ UNCHANGED conn /\ pc' # "update"
  <2>1. /\ UNCHANGED <<conn, nn, nodes, excludedNodes>> /\ pc \in Rebuilding
        /\ pc' \in {"build", "newgs", "failed"}
    BY Zenon, <1>8 DEF Transfer, UpdateBlockForPipeline, RecoverStream, TryAgain, GiveUp, Fails, net, Rebuilding
  <2> QED BY Zenon, <2>1 DEF OldConn, Setting, Rebuilding
<1>9. CASE UpdatePipeline
  <2>1. UNCHANGED conn /\ nn'.issued = nn.issued
    BY <1>0, <1>9 DEF UpdatePipeline, net
  <2>2. pc' \notin Setting \cup Rebuilding
    BY Zenon, <1>9 DEF UpdatePipeline, Fails, IInv, TypeLocals, Setting, Rebuilding, Waits
  <2> QED BY Zenon, <2>1, <2>2 DEF OldConn, Rebuilding
<1>10. CASE DatanodeReceives
  <2>1. ConnStays
    BY <1>0, <1>10 DEF DatanodeReceives, Receive, ConnStays
  <2>2. UNCHANGED <<pc, nn, gs, nodes, excludedNodes, errorIndex>>
    BY Zenon, <1>10 DEF DatanodeReceives, pipe, locals
  <2> QED BY Zenon, <2>1, <2>2 DEF OldConn, ConnStays
<1>11. CASE Crash \/ Over \/ UNCHANGED vars
  BY Zenon, <1>11 DEF Crash, Over, vars, pipe, locals, net, ext, OldConn
<1>12. Transfer \/ UpdateBlockForPipeline \/ RecoverStream =>
          \/ UpdateBlockForPipeline /\ pc' = "setup" /\ nn' = [nn EXCEPT !.issued = @ + 1]
          \/ RecoverStream /\ Connected(gs) /\ pc' = "update"
          \/ Transfer
          \/ UpdateBlockForPipeline /\ UNCHANGED nn /\ pc' # "setup"
          \/ RecoverStream /\ UNCHANGED conn /\ pc' # "update"
  BY Zenon DEF UpdateBlockForPipeline, RecoverStream, NotConnected, TryAgain, GiveUp, Fails
<1> QED BY Zenon, <1>1, <1>3, <1>4, <1>5, <1>6, <1>7, <1>8, <1>9, <1>10, <1>11, <1>12 DEF Next, Recover

-----------------------------------------------------------------------------
(* What was written to the connection.                                     *)

AllInStream == \A j \in DOMAIN packets : InStream(packets[j])

\* With every pending packet on the connection, or none pending, there is nothing to show.
LEMMA AllWritten ==
    /\ AllInStream /\ pc \notin Rebuilding \cup {"update"} => Written
    /\ packets = <<>> => Written /\ AllInStream
    /\ pc \notin Streaming \cup Rebuilding \cup {"update"} => Written
<1>1. packets = <<>> => DOMAIN packets = {}
  OBVIOUS
<1> QED BY Zenon, <1>1 DEF Written, AllInStream, Streaming, Waits

\* The packet that send takes over is the only one that is not on the connection.
LEMMA HandoverWritten ==
    ASSUME IInv, AllInStream, NEW off, NEW end, NEW last, Handover(off, end, last), UNCHANGED conn,
           pc' \in {"full", "write"}
    PROVE  Written'
<1>1. packets \in Seq(Packet) /\ packet.seqno \in Int
  BY Zenon, PacketNumbers
<1>2. packet'.seqno = packet.seqno + 1 /\ packets' = Append(packets, packet')
  BY DEF Handover
<1>3. ASSUME NEW j \in DOMAIN packets', packets'[j].seqno < packet'.seqno
      PROVE  \E k \in DOMAIN conn'.stream : conn'.stream[k] = packets'[j]
  <2>1. j \in DOMAIN packets \/ packets'[j] = packet'
    BY <1>1, <1>2
  <2>2. ~(packet'.seqno < packet'.seqno)
    BY <1>1, <1>2
  <2>3. j \in DOMAIN packets
    BY Zenon, <1>3, <2>1, <2>2
  <2>4. packets'[j] = packets[j]
    BY <1>1, <1>2, <2>3
  <2> QED BY Zenon, <2>3, <2>4 DEF AllInStream, InStream
<1> QED BY Zenon, <1>3 DEF Written, InStream, Rebuilding

\* The packets that are written are on the connection.
LEMMA PutInStream ==
    ASSUME IInv, NEW ps \in Seq(Packet), Put(ps)
    PROVE  /\ conn'.stream = conn.stream \o ps
           /\ \A k \in DOMAIN conn.stream : k \in DOMAIN conn'.stream /\ conn'.stream[k] = conn.stream[k]
           /\ \A k \in DOMAIN ps : /\ Len(conn.stream) + k \in DOMAIN conn'.stream
                                   /\ conn'.stream[Len(conn.stream) + k] = ps[k]
<1>1. /\ conn \in [gs : Nat, nodes : Seq(DN), pos : Seq(Nat), read : Nat, stream : Seq(Packet)]
  BY Zenon DEF IInv, TypeNet
<1>2. conn'.stream = conn.stream \o ps /\ conn.stream \in Seq(Packet)
  BY <1>1 DEF Put
<1> QED BY <1>2, ConcatFacts

\* Write leaves nothing pending that is not on the connection.
LEMMA WriteWritten == ASSUME IInv, Written, Write PROVE Written'
<1>1. packets \in Seq(Packet) /\ packet \in Packet /\ UNCHANGED <<packets, packet>>
  BY Zenon, PacketNumbers DEF Write, caller
<1>2. CASE failover
  <2>1. Put(packets)
    BY Zenon, <1>2 DEF Write, ToWrite
  <2>2. AllInStream'
    BY Zenon, <1>1, <2>1, PutInStream DEF AllInStream, InStream
  <2> QED BY Zenon, <2>2, AllWritten, <1>1 DEF Write, Writing, Rebuilding, Waits, Written, AllInStream, InStream
<1>3. CASE ~failover
  <2>1. Put(<<packet>>) /\ pc = "write" /\ pc' = "poll"
    BY Zenon, <1>3 DEF Write, ToWrite, Writing
  <2>2. <<packet>> \in Seq(Packet) /\ 1 \in DOMAIN <<packet>> /\ <<packet>>[1] = packet
    BY <1>1
  <2>3. InStream(packet)'
    BY Zenon, <1>1, <2>1, <2>2, PutInStream DEF InStream
  <2>4. \A j \in DOMAIN packets : InStream(packets[j]) => InStream(packets[j])'
    BY Zenon, <1>1, <2>1, <2>2, PutInStream DEF InStream
  <2>5. \A j \in DOMAIN packets : packets[j] = packet \/ packets[j].seqno < packet.seqno
    <3>1. \A j \in DOMAIN packets : /\ packets[j].seqno <= packet.seqno
                                    /\ packets[j].seqno = packet.seqno => packets[j] = packet
      BY Zenon DEF IInv, Labels
    <3>2. \A j \in DOMAIN packets : packets[j].seqno \in Int /\ packet.seqno \in Int
      BY Zenon, PacketNumbers
    <3> QED BY <3>1, <3>2
  <2>6. \A j \in DOMAIN packets' : InStream(packets[j])'
    BY Zenon, <1>1, <1>3, <2>1, <2>3, <2>4, <2>5 DEF Written
  <2> QED BY Zenon, <2>1, <2>6 DEF Written, Rebuilding
<1> QED BY Zenon, <1>2, <1>3

\* The packets that an ack leaves pending stay on the connection.
LEMMA ReadAckWritten ==
    ASSUME IInv, Written, ReadAck, packets # <<>>, PopAcked
    PROVE  Written'
<1>1. /\ conn \in [gs : Nat, nodes : Seq(DN), pos : Seq(Nat), read : Nat, stream : Seq(Packet)]
      /\ packets \in Seq(Packet)
  BY Zenon DEF IInv, TypeNet, TypePipe
<1>2. conn'.stream = conn.stream
  BY <1>1 DEF ReadAck
<1>3. packets' = Tail(packets) /\ UNCHANGED <<packet, failover>>
  BY Zenon DEF PopAcked, ReadAck, caller
<1>4. \A j \in DOMAIN packets' : j + 1 \in DOMAIN packets /\ packets'[j] = packets[j + 1]
  BY <1>1, <1>3
<1>5. \A j \in DOMAIN packets' : \E h \in DOMAIN packets : packets'[j] = packets[h]
  BY Zenon, <1>4
<1>6. ASSUME NEW j \in DOMAIN packets'
      PROVE  \E h \in DOMAIN packets : /\ packets'[j] = packets[h]
                                       /\ InStream(packets[h]) =>
                                             \E k \in DOMAIN conn'.stream : conn'.stream[k] = packets'[j]
  <2>1. PICK h \in DOMAIN packets : packets'[j] = packets[h]
    BY Zenon, <1>5
  <2>2. InStream(packets[h]) => \E k \in DOMAIN conn'.stream : conn'.stream[k] = packets'[j]
    BY Zenon, <1>2, <2>1 DEF InStream
  <2> QED BY Zenon, <2>1, <2>2
<1>7. /\ pc = "poll" => pc' \in {"idle", "final"}
      /\ pc # "poll" => pc' = pc /\ pc \in Waits /\ ~failover
  BY Zenon DEF PopAcked, AfterRead, Returned, ReadAck, Reading
<1>8. CASE pc = "full"
  <2>1. \A j \in DOMAIN packets : packets[j].seqno < packet.seqno => InStream(packets[j])
    BY Zenon, <1>7, <1>8 DEF Written
  <2>2. \A j \in DOMAIN packets' : packets'[j].seqno < packet.seqno =>
            \E k \in DOMAIN conn'.stream : conn'.stream[k] = packets'[j]
    BY Zenon, <1>6, <2>1
  <2>3. pc' = "full"
    BY Zenon, <1>7, <1>8
  <2> QED BY Zenon, <1>3, <2>2, <2>3 DEF Written, InStream, Rebuilding
<1>9. CASE pc # "full"
  <2>1. \A j \in DOMAIN packets : InStream(packets[j])
    BY Zenon, <1>7, <1>9 DEF Written, Waits
  <2>2. \A j \in DOMAIN packets' : \E k \in DOMAIN conn'.stream : conn'.stream[k] = packets'[j]
    BY Zenon, <1>6, <2>1
  <2>3. pc' \notin Rebuilding \cup {"update", "full", "write"}
    BY Zenon, <1>7, <1>9 DEF Rebuilding, Waits
  <2> QED BY Zenon, <2>2, <2>3 DEF Written, InStream
<1> QED BY Zenon, <1>8, <1>9

\* Every step keeps what is known of the packets on the connection.
LEMMA WrittenStep == ASSUME IInv, Written, [Next]_vars PROVE Written'
<1>0. packets' = <<>> => DOMAIN packets' = {}
  OBVIOUS
<1>a. ASSUME packets' = <<>> PROVE Written'
  BY Zenon, <1>0, <1>a DEF Written
<1>b. ASSUME pc' \notin Streaming \cup Rebuilding \cup {"update"} PROVE Written'
  BY Zenon, <1>b DEF Written, Streaming, Waits
<1>c. packets = <<>> => AllInStream
  BY Zenon, AllWritten
<1>1. CASE Construct
  <2>1. pc \in Setting /\ UNCHANGED packets
    BY Zenon, <1>1 DEF Construct, LocateNextBlock, LocateFails, CreateStream, AbandonBlock, Setting
  <2> QED BY Zenon, <1>a, <2>1 DEF IInv, Place
<1>2. CASE Send
  <2>1. PICK off \in packet.off..fed, end \in fed..MaxBytes : Handover(off, end, FALSE)
    BY Zenon, <1>2 DEF Send
  <2>2. AllInStream /\ UNCHANGED conn /\ pc' \in {"full", "write"}
    BY Zenon, <1>2 DEF Send, Written, AllInStream, Pushed, net
  <2> QED BY Zenon, <2>1, <2>2, HandoverWritten
<1>3. CASE Flush \/ Close
  <2>1. UNCHANGED <<packets, conn>> /\ pc = "idle" /\ pc' \in {"flush", "drain"}
    BY Zenon, <1>3 DEF Flush, Close, pipe, net
  <2> QED BY Zenon, <2>1 DEF Written, InStream, Rebuilding
<1>4. CASE NothingToRead
  <2>1. UNCHANGED <<packets, conn>> /\ pc = "poll" /\ pc' \in {"idle", "final"}
    BY Zenon, <1>4 DEF NothingToRead, Returned, pipe, net
  <2> QED BY Zenon, <2>1 DEF Written, InStream, Rebuilding
<1>5. CASE Write
  BY Zenon, <1>5, WriteWritten
<1>6. ASSUME NEW i, IOError(i), Writing \/ Reading PROVE Written'
  <2>1. pc' = "build" /\ failover' = TRUE /\ ret' # "idle"
    BY Zenon, <1>6, BusyHasSock DEF IOError, Waits
  <2> QED BY Zenon, <2>1 DEF Written
<1>7. CASE Timeout
  BY Zenon, <1>7, <1>b DEF Timeout, Fails, Streaming, Rebuilding, Waits
<1>8. CASE WriteFails \/ ReadFails
  BY Zenon, <1>6, <1>8 DEF WriteFails, ReadFails
<1>9. CASE ReadAck
  <2>1. CASE pc' = "abort"
    BY Zenon, <1>b, <2>1 DEF Streaming, Rebuilding, Waits
  <2>2. CASE IOError(0)
    BY Zenon, <1>6, <1>9, <2>2 DEF ReadAck
  <2>3. CASE packets # <<>> /\ PopAcked
    BY Zenon, <1>9, <2>3, ReadAckWritten
  <2> QED BY Zenon, <1>9, <2>1, <2>2, <2>3 DEF ReadAck
<1>10. CASE WaitOver
  <2>1. CASE pc = "full"
    <3>1. pc' = "write" /\ UNCHANGED <<packets, packet, conn, failover>>
      BY Zenon, <1>10, <2>1 DEF WaitOver, caller
    <3> QED BY Zenon, <2>1, <3>1 DEF Written, InStream, Rebuilding
  <2>2. CASE pc = "flush"
    <3>1. packets = <<>> /\ UNCHANGED packets
      BY Zenon, <1>10, <2>2 DEF WaitOver, Waited
    <3> QED BY Zenon, <1>a, <3>1
  <2>3. CASE pc = "drain"
    <3>1. PICK off \in packet.off..fed : Handover(off, off, TRUE)
      BY Zenon, <1>10, <2>3 DEF WaitOver
    <3>2. packets = <<>> /\ UNCHANGED conn /\ pc' \in {"full", "write"}
      BY Zenon, <1>10, <2>3 DEF WaitOver, Waited, Pushed
    <3> QED BY Zenon, <1>c, <3>1, <3>2, HandoverWritten
  <2>4. CASE pc = "final"
    <3>1. pc' = "closed"
      BY Zenon, <1>10, <2>4 DEF WaitOver
    <3> QED BY Zenon, <1>b, <3>1 DEF Streaming, Rebuilding, Waits
  <2> QED BY Zenon, <1>10, <2>1, <2>2, <2>3, <2>4 DEF WaitOver, Waits
<1>11. CASE RemoveBadNode \/ AddDatanode \/ Transfer \/ UpdateBlockForPipeline \/ RecoverStream
  <2>1. /\ pc \in Rebuilding /\ pc' \in Rebuilding \cup {"update", "failed"}
        /\ UNCHANGED <<ret, packets, failover>>
    BY Zenon, <1>11 DEF RemoveBadNode, AddDatanode, Transfer, UpdateBlockForPipeline, RecoverStream,
       TryAgain, GiveUp, Fails, Rebuilding
  <2> QED BY Zenon, <2>1 DEF Written, Rebuilding
<1>12. CASE UpdatePipeline
  <2>1. CASE packets = <<>>
    BY Zenon, <1>a, <1>12, <2>1 DEF UpdatePipeline
  <2>2. CASE packets # <<>>
    <3>1. failover /\ ret # "idle" /\ UNCHANGED failover
      BY Zenon, <1>12, <2>2 DEF Written, UpdatePipeline, locals
    <3>2. pc' \in Waits \cup {"write", "failed"}
      BY Zenon, <1>12, <3>1 DEF UpdatePipeline, Fails, IInv, TypeLocals, Waits
    <3> QED BY Zenon, <3>1, <3>2 DEF Written, Rebuilding, Waits
  <2> QED BY Zenon, <2>1, <2>2
<1>13. CASE DatanodeReceives
  <2>1. conn'.stream = conn.stream
    BY <1>13 DEF DatanodeReceives, Receive, IInv, TypeNet
  <2>2. UNCHANGED <<pc, packets, packet, failover, ret>>
    BY Zenon, <1>13 DEF DatanodeReceives, pipe, locals, caller
  <2> QED BY Zenon, <2>1, <2>2 DEF Written, InStream
<1>14. CASE Crash \/ Over \/ UNCHANGED vars
  BY Zenon, <1>14 DEF Crash, Over, vars, pipe, locals, net, caller, Written, InStream
<1> QED BY Zenon, <1>1, <1>2, <1>3, <1>4, <1>5, <1>7, <1>8, <1>9, <1>10, <1>11, <1>12, <1>13, <1>14
       DEF Next, Stream, Recover

-----------------------------------------------------------------------------
(* No gaps.                                                                *)

\* The packets ps continue what is acked, what is on the connection, or each other.
Continues(ps) ==
    \A m \in DOMAIN ps :
        \/ ps[m].off <= bytesAcked
        \/ \E k \in DOMAIN conn.stream : conn.stream[k].end >= ps[m].off
        \/ \E h \in DOMAIN ps : h < m /\ ps[h].end >= ps[m].off

\* What send and waitForAcks write continues what was written.
LEMMA ToWriteContinues ==
    ASSUME IInv, Chain, Written, Writing
    PROVE  ToWrite \in Seq(Packet) /\ Continues(ToWrite)
<1>1. packets \in Seq(Packet) /\ packet \in Packet
  BY Zenon, PacketNumbers
<1>2. CASE failover
  BY Zenon, <1>1, <1>2 DEF ToWrite, Continues, Chain
<1>3. CASE ~failover
  <2>1. ToWrite = <<packet>> /\ pc = "write"
    BY Zenon, <1>3 DEF ToWrite, Writing
  <2>2. /\ <<packet>> \in Seq(Packet) /\ DOMAIN <<packet>> = {1} /\ <<packet>>[1] = packet
    BY <1>1
  <2>3. packet.off <= bytesAcked \/ \E k \in DOMAIN conn.stream : conn.stream[k].end >= packet.off
    <3>1. CASE packet.off <= bytesAcked
      BY Zenon, <3>1
    <3>2. CASE \E h \in DOMAIN packets : packets[h].seqno < packet.seqno /\ packets[h].end >= packet.off
      <4>1. PICK h \in DOMAIN packets : packets[h].seqno < packet.seqno /\ packets[h].end >= packet.off
        BY Zenon, <3>2
      <4>2. InStream(packets[h])
        BY Zenon, <1>3, <2>1, <4>1 DEF Written
      <4>3. PICK k \in DOMAIN conn.stream : conn.stream[k] = packets[h]
        BY Zenon, <4>2 DEF InStream
      <4>4. conn.stream[k].end >= packet.off
        BY Zenon, <4>1, <4>3
      <4> QED BY Zenon, <4>4
    <3> QED BY Zenon, <3>1, <3>2 DEF Chain
  <2> QED BY Zenon, <2>1, <2>2, <2>3 DEF Continues
<1> QED BY Zenon, <1>2, <1>3

\* So does a part of it, when the write breaks off.
LEMMA PartContinues ==
    ASSUME NEW ps \in Seq(Packet), Continues(ps), NEW k \in 0..(Len(ps) - 1)
    PROVE  SubSeq(ps, 1, k) \in Seq(Packet) /\ Continues(SubSeq(ps, 1, k))
<1> DEFINE qs == SubSeq(ps, 1, k)
<1>1. /\ qs \in Seq(Packet) /\ DOMAIN qs = 1..k /\ DOMAIN ps = 1..Len(ps)
      /\ \A m \in DOMAIN qs : m \in DOMAIN ps /\ qs[m] = ps[m]
      /\ \A m \in DOMAIN qs, h \in DOMAIN ps : h < m => h \in DOMAIN qs
  OBVIOUS
<1> HIDE DEF qs
<1>2. Continues(qs)
  BY Zenon, <1>1 DEF Continues
<1> QED BY Zenon, <1>1, <1>2 DEF qs

\* Packets that continue what was written leave no gap.
LEMMA PutNoGap ==
    ASSUME IInv, NoGap, NEW ps \in Seq(Packet), Continues(ps), Put(ps), Writing, UNCHANGED replica
    PROVE  NoGap'
<1>0. /\ conn \in [gs : Nat, nodes : Seq(DN), pos : Seq(Nat), read : Nat, stream : Seq(Packet)]
      /\ Len(conn.pos) = Len(conn.nodes)
  BY Zenon DEF IInv, TypeNet
<1>1. /\ conn'.gs = conn.gs /\ conn'.nodes = conn.nodes /\ conn'.pos = conn.pos
      /\ conn'.stream = conn.stream \o ps /\ conn.stream \in Seq(Packet)
  BY <1>0 DEF Put
<1>2. sock /\ conn.nodes = nodes /\ pc \notin {"build", "transfer"}
  BY Zenon, BusyHasSock
<1> DEFINE L == Len(conn.stream)
           s == conn'.stream
<1>3. /\ L \in Nat /\ DOMAIN conn.stream = 1..L /\ DOMAIN s = 1..(L + Len(ps)) /\ DOMAIN ps = 1..Len(ps)
      /\ Len(ps) \in Nat
      /\ \A k \in 1..L : s[k] = conn.stream[k]
      /\ \A m \in 1..Len(ps) : s[L + m] = ps[m]
  BY <1>1, ConcatFacts
<1> SUFFICES ASSUME NEW i \in DOMAIN conn.nodes, replica[conn.nodes[i]].gs = conn.gs,
                    NEW k \in DOMAIN s, k > conn.pos[i]
             PROVE  \/ s[k].off <= replica[conn.nodes[i]].len
                    \/ \E j \in DOMAIN s : conn.pos[i] < j /\ j < k /\ s[j].end >= s[k].off
  BY Zenon, <1>1 DEF NoGap
<1>4. conn.pos[i] \in Nat /\ conn.nodes[i] \in DN /\ conn.pos[i] <= L
  <2>1. conn.pos[i] \in Nat /\ conn.nodes[i] \in DN
    BY <1>0
  <2> QED BY Zenon, <2>1 DEF IInv, Delivered
<1>5. replica[conn.nodes[i]].len \in Nat
  BY Zenon, <1>4 DEF IInv, TypeExt, Replica
<1>6. replica[conn.nodes[i]].len >= bytesAcked
  BY Zenon, <1>2 DEF IInv, Members, AckedIsOnEveryNode, Joining
<1>7. \A j \in 1..conn.pos[i] : replica[conn.nodes[i]].len >= conn.stream[j].end
  BY Zenon, <1>2 DEF IInv, Delivered
<1>8. /\ \A j \in 1..L : conn.stream[j].end \in Nat /\ conn.stream[j].off \in Nat
      /\ bytesAcked \in Nat
  BY Zenon, <1>3, PacketNumbers
<1>9. \A m \in 1..Len(ps) : ps[m].off \in Nat /\ ps[m].end \in Nat
  <2>1. \A p \in Packet : p.off \in Nat /\ p.end \in Nat
    BY Zenon DEF Packet
  <2>2. \A m \in 1..Len(ps) : ps[m] \in Packet
    OBVIOUS
  <2> QED BY Zenon, <2>1, <2>2
<1> HIDE DEF L, s
<1>10. CASE k \in 1..L
  <2>1. \/ conn.stream[k].off <= replica[conn.nodes[i]].len
        \/ \E j \in 1..L : conn.pos[i] < j /\ j < k /\ conn.stream[j].end >= conn.stream[k].off
    BY Zenon, <1>3, <1>10 DEF NoGap
  <2>2. \A j \in 1..L : j \in DOMAIN s
    BY <1>3
  <2> QED BY Zenon, <1>3, <1>10, <2>1, <2>2
<1>11. CASE k \notin 1..L
  <2> DEFINE m == k - L
  <2>1. m \in 1..Len(ps) /\ k = L + m /\ k > L
    BY <1>3, <1>11
  <2>2. s[k] = ps[m]
    BY Zenon, <1>3, <2>1
  <2> HIDE DEF m
  <2>3. \/ ps[m].off <= bytesAcked
        \/ \E j \in 1..L : conn.stream[j].end >= ps[m].off
        \/ \E h \in 1..Len(ps) : h < m /\ ps[h].end >= ps[m].off
    BY Zenon, <1>3, <2>1 DEF Continues
  <2>4. CASE ps[m].off <= bytesAcked
    BY <1>5, <1>6, <1>8, <1>9, <2>1, <2>2, <2>4
  <2>5. CASE \E j \in 1..L : conn.stream[j].end >= ps[m].off
    <3>1. PICK j \in 1..L : conn.stream[j].end >= ps[m].off
      BY Zenon, <2>5
    <3>2. CASE j <= conn.pos[i]
      <4>1. replica[conn.nodes[i]].len >= conn.stream[j].end
        BY <1>4, <1>7, <3>1, <3>2
      <4>2. conn.stream[j].end \in Nat /\ ps[m].off \in Nat
        BY Zenon, <1>8, <1>9, <2>1
      <4>3. ps[m].off <= replica[conn.nodes[i]].len
        BY <1>5, <3>1, <4>1, <4>2
      <4> QED BY Zenon, <2>2, <4>3
    <3>3. CASE j > conn.pos[i]
      <4>1. j \in DOMAIN s /\ conn.pos[i] < j /\ j < k
        BY <1>3, <1>4, <2>1, <3>3
      <4> QED BY Zenon, <1>3, <2>2, <3>1, <4>1
    <3> QED BY <1>4, <3>2, <3>3
  <2>6. CASE \E h \in 1..Len(ps) : h < m /\ ps[h].end >= ps[m].off
    <3>1. PICK h \in 1..Len(ps) : h < m /\ ps[h].end >= ps[m].off
      BY Zenon, <2>6
    <3>2. L + h \in DOMAIN s /\ conn.pos[i] < L + h /\ L + h < k
      BY <1>3, <1>4, <2>1, <3>1
    <3>3. s[L + h].end >= s[k].off
      BY Zenon, <1>3, <2>2, <3>1
    <3> QED BY Zenon, <3>2, <3>3
  <2> QED BY Zenon, <2>3, <2>4, <2>5, <2>6
<1> QED BY Zenon, <1>10, <1>11

\* A packet that a node receives fills the replica up to its end.
LEMMA ReceiveNoGap ==
    ASSUME IInv, NoGap, NEW r \in DOMAIN conn.nodes, Receive(r)
    PROVE  NoGap'
<1>0. /\ conn \in [gs : Nat, nodes : Seq(DN), pos : Seq(Nat), read : Nat, stream : Seq(Packet)]
      /\ Len(conn.pos) = Len(conn.nodes) /\ replica \in [DN -> Replica]
  BY Zenon DEF IInv, TypeNet, TypeExt
<1> DEFINE n == conn.nodes[r]
           at == conn.pos[r] + 1
           p == conn.stream[at]
<1>1. /\ conn.pos[r] < IF r = 1 THEN Len(conn.stream) ELSE conn.pos[r - 1]
      /\ conn' = [conn EXCEPT !.pos[r] = @ + 1]
      /\ replica' = [replica EXCEPT ![n] =
            [st |-> IF p.last THEN "final" ELSE @.st, len |-> Max2(@.len, p.end), gs |-> @.gs]]
  BY Zenon DEF Receive
<1>2. /\ conn'.gs = conn.gs /\ conn'.nodes = conn.nodes /\ conn'.stream = conn.stream
      /\ conn'.pos = [conn.pos EXCEPT ![r] = @ + 1]
  BY <1>0, <1>1
<1>3. /\ \A i \in DOMAIN conn.nodes : conn.pos[i] \in Nat /\ conn.nodes[i] \in DN
      /\ r \in DOMAIN conn.pos /\ DOMAIN conn.stream = 1..Len(conn.stream)
  BY <1>0
<1>4. at \in DOMAIN conn.stream
  <2>1. \A i \in DOMAIN conn.nodes : conn.pos[i] <= Len(conn.stream)
    BY Zenon DEF IInv, Delivered
  <2>2. r # 1 => r - 1 \in DOMAIN conn.nodes
    BY <1>0
  <2> QED BY <1>0, <1>1, <1>3, <2>1, <2>2
<1>5. p.end \in Nat /\ \A k \in DOMAIN conn.stream : conn.stream[k].end \in Nat /\ conn.stream[k].off \in Nat
  BY Zenon, <1>4, PacketNumbers
<1>6. \A d \in DN : replica[d].len \in Nat
  BY Zenon, <1>0 DEF Replica
<1>7. /\ \A d \in DN : replica'[d].gs = replica[d].gs /\ replica'[d].len \in Nat
                       /\ replica'[d].len >= replica[d].len
      /\ replica'[n].len >= p.end
  <2>1. replica'[n] = [st |-> IF p.last THEN "final" ELSE replica[n].st,
                       len |-> Max2(replica[n].len, p.end), gs |-> replica[n].gs]
    BY <1>0, <1>1, <1>3
  <2>2. replica'[n].gs = replica[n].gs /\ replica'[n].len = Max2(replica[n].len, p.end)
    BY <2>1
  <2>3. replica'[n].len >= replica[n].len /\ replica'[n].len >= p.end /\ replica'[n].len \in Nat
    BY <1>3, <1>5, <1>6, <2>2 DEF Max2
  <2>4. \A d \in DN \ {n} : replica'[d] = replica[d]
    BY <1>0, <1>1
  <2>5. \A d \in DN : replica[d].len >= replica[d].len
    BY <1>6
  <2> QED BY Zenon, <1>6, <2>2, <2>3, <2>4, <2>5
<1>8. /\ conn'.pos[r] = at
      /\ \A i \in DOMAIN conn.nodes : i # r => conn'.pos[i] = conn.pos[i]
  BY <1>0, <1>2, <1>3
<1> HIDE DEF at, p, n
<1> SUFFICES ASSUME NEW i \in DOMAIN conn.nodes, replica'[conn.nodes[i]].gs = conn.gs,
                    NEW k \in DOMAIN conn.stream, k > conn'.pos[i]
             PROVE  \/ conn.stream[k].off <= replica'[conn.nodes[i]].len
                    \/ \E j \in DOMAIN conn.stream :
                          conn'.pos[i] < j /\ j < k /\ conn.stream[j].end >= conn.stream[k].off
  BY Zenon, <1>2 DEF NoGap
<1>9. /\ conn.nodes[i] \in DN /\ replica[conn.nodes[i]].gs = conn.gs
      /\ replica[conn.nodes[i]].len \in Nat /\ replica'[conn.nodes[i]].len \in Nat
      /\ replica'[conn.nodes[i]].len >= replica[conn.nodes[i]].len
  BY Zenon, <1>3, <1>6, <1>7
<1>10. k > conn.pos[i]
  BY <1>3, <1>8 DEF at
<1>11. \/ conn.stream[k].off <= replica[conn.nodes[i]].len
       \/ \E j \in DOMAIN conn.stream : conn.pos[i] < j /\ j < k /\ conn.stream[j].end >= conn.stream[k].off
  BY Zenon, <1>9, <1>10 DEF NoGap
<1>12. CASE conn.stream[k].off <= replica[conn.nodes[i]].len
  BY <1>5, <1>9, <1>12
<1>13. CASE \E j \in DOMAIN conn.stream : conn.pos[i] < j /\ j < k /\ conn.stream[j].end >= conn.stream[k].off
  <2>1. PICK j \in DOMAIN conn.stream : conn.pos[i] < j /\ j < k /\ conn.stream[j].end >= conn.stream[k].off
    BY Zenon, <1>13
  <2>2. CASE i = r /\ j = at
    <3>1. conn.stream[j].end <= replica'[conn.nodes[i]].len
      BY <1>5, <1>7, <1>9, <2>2 DEF n, p
    <3>2. conn.stream[j].end \in Nat /\ conn.stream[k].off \in Nat
      BY Zenon, <1>5
    <3> QED BY <1>9, <2>1, <3>1, <3>2
  <2>3. CASE i = r /\ j # at
    <3>1. conn'.pos[i] < j
      BY <1>3, <1>8, <2>1, <2>3 DEF at
    <3> QED BY Zenon, <2>1, <3>1
  <2>4. CASE i # r
    BY Zenon, <1>8, <2>1, <2>4
  <2> QED BY Zenon, <2>2, <2>3, <2>4
<1> QED BY Zenon, <1>11, <1>12, <1>13

\* The connection and the replicas of its nodes are what they were.
GapStays ==
    /\ conn'.gs = conn.gs /\ conn'.nodes = conn.nodes /\ conn'.pos = conn.pos /\ conn'.stream = conn.stream
    /\ \A i \in DOMAIN conn.nodes :
          replica'[conn.nodes[i]] = replica[conn.nodes[i]] \/ replica'[conn.nodes[i]].gs # conn.gs

\* A replica that is opened with a newer generation stamp has left the connection.
LEMMA SetUpStays ==
    ASSUME IInv, OldConn, RecoverStream, NotConnected(gs)
    PROVE  GapStays
<1>1. UNCHANGED conn /\ conn.gs < gs /\ pc = "setup"
  BY Zenon DEF NotConnected, RecoverStream, OldConn
<1>2. conn.gs \in Nat /\ gs \in Nat /\ \A i \in DOMAIN conn.nodes : conn.nodes[i] \in DN
  BY DEF IInv, TypeNet, TypeLocals
<1>3. conn.gs # gs
  BY <1>1, <1>2
<1>4. PICK k \in 0..Len(nodes) : SetUp(k, gs)
  BY Zenon DEF NotConnected
<1> DEFINE up == {nodes[j] : j \in 1..k}
<1>5. PICK cut \in [up -> lastBlock.numBytes..bytesSent] :
          replica' = [d \in DN |-> IF d \in up
                                   THEN [st |-> IF stage = "CLOSE" THEN "final" ELSE "rbw",
                                         len |-> cut[d], gs |-> gs]
                                   ELSE replica[d]]
  BY Zenon, <1>4 DEF SetUp
<1> HIDE DEF up
<1>6. ASSUME NEW d \in DN PROVE replica'[d] = replica[d] \/ replica'[d].gs = gs
  <2>1. CASE d \in up
    <3>1. replica'[d] = [st |-> IF stage = "CLOSE" THEN "final" ELSE "rbw", len |-> cut[d], gs |-> gs]
      BY Zenon, <1>5, <2>1
    <3> QED BY <3>1
  <2>2. CASE d \notin up
    BY Zenon, <1>5, <2>2
  <2> QED BY Zenon, <2>1, <2>2
<1> QED BY Zenon, <1>1, <1>2, <1>3, <1>6 DEF GapStays

\* The node that a replica is transferred to is not on the connection.
LEMMA TransferStays == ASSUME IInv, OldConn, Transfer PROVE GapStays
<1>1. UNCHANGED conn /\ pc = "transfer"
  BY Zenon DEF Transfer, net
<1>2. \A i \in DOMAIN conn.nodes : conn.nodes[i] # nodes[errorIndex] /\ conn.nodes[i] \in DN
  <2>1. \A i \in DOMAIN conn.nodes : conn.nodes[i] \in DN
    BY DEF IInv, TypeNet
  <2> QED BY Zenon, <1>1, <2>1 DEF OldConn
<1>3. UNCHANGED replica \/ \E x : replica' = [replica EXCEPT ![nodes[errorIndex]] = x]
  BY Zenon DEF Transfer
<1>4. replica \in [DN -> Replica]
  BY Zenon DEF IInv, TypeExt
<1>5. \A d \in DN : d # nodes[errorIndex] => replica'[d] = replica[d]
  BY <1>3, <1>4
<1> QED BY Zenon, <1>1, <1>2, <1>5 DEF GapStays

\* Every step keeps the replicas without gaps.
LEMMA NoGapStep == ASSUME IInv, GapInv, [Next]_vars PROVE NoGap'
<1> USE DEF GapInv
<1>0. /\ conn \in [gs : Nat, nodes : Seq(DN), pos : Seq(Nat), read : Nat, stream : Seq(Packet)]
  BY Zenon DEF IInv, TypeNet
<1>1. ASSUME GapStays PROVE NoGap'
  BY Zenon, <1>1 DEF GapStays, NoGap
<1>2. ASSUME UNCHANGED <<conn, replica>> PROVE NoGap'
  BY Zenon, <1>2 DEF NoGap
<1>3. ASSUME conn'.nodes = <<>> \/ conn'.stream = <<>> PROVE NoGap'
  <2>1. DOMAIN conn'.nodes = {} \/ DOMAIN conn'.stream = {}
    BY <1>3
  <2> QED BY Zenon, <2>1 DEF NoGap
<1>4. CASE Construct
  <2>1. CASE LocateNextBlock
    <3>1. conn'.nodes = <<>>
      BY <2>1 DEF LocateNextBlock, NoConn
    <3> QED BY Zenon, <1>3, <3>1
  <2>2. CASE LocateFails \/ AbandonBlock
    BY Zenon, <1>2, <2>2 DEF LocateFails, AbandonBlock, net, ext
  <2>3. CASE CreateStream
    <3>1. CASE Connected(lastBlock.gs)
      <4>1. conn'.stream = <<>>
        BY <3>1 DEF Connected
      <4> QED BY Zenon, <1>3, <4>1
    <3>2. CASE NotConnected(lastBlock.gs)
      <4>1. conn'.nodes = <<>>
        BY Zenon, <2>3, <3>2 DEF NotConnected, OldConn, CreateStream, Setting
      <4> QED BY Zenon, <1>3, <4>1
    <3> QED BY Zenon, <2>3, <3>1, <3>2 DEF CreateStream
  <2> QED BY Zenon, <1>4, <2>1, <2>2, <2>3 DEF Construct
<1>5. CASE Send \/ Flush \/ Close
  BY Zenon, <1>2, <1>5 DEF Send, Flush, Close, net, ext
<1>6. CASE Write
  BY Zenon, <1>6, ToWriteContinues, PutNoGap DEF Write, ext
<1>7. CASE WriteFails
  <2>1. PICK k \in 0..Len(ToWrite) - 1 : Put(SubSeq(ToWrite, 1, k))
    BY Zenon, <1>7 DEF WriteFails
  <2>2. Writing /\ UNCHANGED replica
    BY Zenon, <1>7 DEF WriteFails, ext
  <2>3. ToWrite \in Seq(Packet) /\ Continues(ToWrite)
    BY Zenon, <2>2, ToWriteContinues
  <2>4. SubSeq(ToWrite, 1, k) \in Seq(Packet) /\ Continues(SubSeq(ToWrite, 1, k))
    BY Zenon, <2>3, PartContinues
  <2> QED BY Zenon, <2>1, <2>2, <2>4, PutNoGap
<1>8. CASE Timeout \/ NothingToRead \/ ReadFails \/ WaitOver
  BY Zenon, <1>2, <1>8 DEF Timeout, NothingToRead, ReadFails, WaitOver, net, ext
<1>9. CASE ReadAck
  <2>1. conn' = [conn EXCEPT !.read = @ + 1] /\ UNCHANGED replica
    BY Zenon, <1>9 DEF ReadAck, ext
  <2>2. /\ conn'.gs = conn.gs /\ conn'.nodes = conn.nodes /\ conn'.pos = conn.pos
        /\ conn'.stream = conn.stream
    BY <1>0, <2>1
  <2> QED BY Zenon, <1>1, <2>1, <2>2 DEF GapStays
<1>10. CASE RemoveBadNode \/ AddDatanode \/ UpdateBlockForPipeline \/ UpdatePipeline
  BY Zenon, <1>2, <1>10 DEF RemoveBadNode, AddDatanode, UpdateBlockForPipeline, UpdatePipeline, net, ext
<1>11. CASE Transfer
  BY Zenon, <1>1, <1>11, TransferStays
<1>12. CASE RecoverStream
  <2>1. CASE Connected(gs)
    <3>1. conn'.stream = <<>>
      BY <2>1 DEF Connected
    <3> QED BY Zenon, <1>3, <3>1
  <2>2. CASE NotConnected(gs)
    BY Zenon, <1>1, <1>12, <2>2, SetUpStays
  <2> QED BY Zenon, <1>12, <2>1, <2>2 DEF RecoverStream
<1>13. CASE DatanodeReceives
  BY Zenon, <1>13, ReceiveNoGap DEF DatanodeReceives
<1>14. CASE Crash \/ Over \/ UNCHANGED vars
  BY Zenon, <1>2, <1>14 DEF Crash, Over, vars, net, ext
<1> QED BY Zenon, <1>4, <1>5, <1>6, <1>7, <1>8, <1>9, <1>10, <1>11, <1>12, <1>13, <1>14
       DEF Next, Stream, Recover

\* GapInv: through every recovery, what is pending is on the connection or is going to be
\* written again, and what a datanode has still to receive continues its replica.
THEOREM PendingIsWritten == Spec => []GapInv
<1>1. ASSUME Init PROVE GapInv
  <2>1. packets = <<>> /\ conn = NoConn /\ pc \in {"locate", "build"} /\ packet.off = bytesAcked /\ bytesAcked \in Nat
        /\ nn.issued \in Nat
    BY <1>1, PipelineAssumption DEF Init, InitCreate, InitAppend, InitRest
  <2>2. DOMAIN packets = {} /\ conn.nodes = <<>> /\ conn.gs = 0 /\ DOMAIN conn.nodes = {}
    BY <2>1 DEF NoConn
  <2>3. packet.off <= bytesAcked /\ conn.gs <= nn.issued
    BY <2>1, <2>2
  <2> QED BY Zenon, <2>1, <2>2, <2>3 DEF GapInv, Chain, Written, OldConn, NoGap
<1>2. IInv /\ GapInv /\ [Next]_vars => GapInv'
  BY Zenon, ChainStep, WrittenStep, OldConnStep, NoGapStep DEF GapInv
<1> QED BY <1>1, <1>2, Invariance, PTL DEF Spec

\* NoGapOnDatanode: whatever is resent and however often the pipeline is rebuilt, no
\* datanode receives a packet that starts behind the end of its replica.
THEOREM NoGaps == Spec => []NoGapOnDatanode
<1>1. ASSUME IInv, GapInv, NEW i \in DOMAIN conn.nodes, conn.pos[i] < Len(conn.stream),
             replica[conn.nodes[i]].gs = conn.gs
      PROVE  conn.stream[conn.pos[i] + 1].off <= replica[conn.nodes[i]].len
  <2> DEFINE k == conn.pos[i] + 1
  <2>1. conn.pos[i] \in Nat /\ conn.stream \in Seq(Packet)
    BY <1>1 DEF IInv, TypeNet
  <2>2. k \in DOMAIN conn.stream /\ k > conn.pos[i]
    BY <1>1, <2>1
  <2>3. \A j \in DOMAIN conn.stream : ~(conn.pos[i] < j /\ j < k)
    BY <2>1
  <2> HIDE DEF k
  <2>4. conn.stream[k].off <= replica[conn.nodes[i]].len
    BY Zenon, <1>1, <2>2, <2>3 DEF GapInv, NoGap
  <2> QED BY Zenon, <2>4 DEF k
<1>2. IInv /\ GapInv => NoGapOnDatanode
  BY Zenon, <1>1 DEF NoGapOnDatanode
<1> QED BY <1>2, Invariance, PendingIsWritten, PTL

=============================================================================
