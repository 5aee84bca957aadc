----------------------- MODULE PipelineRecoveryProofs -----------------------
(***************************************************************************)
(* The steps of a recovery of the pipeline, and the steps that open the    *)
(* replicas of a new block, keep IInv of Pipeline; IInv holds at the start.*)
(***************************************************************************)
EXTENDS Pipeline, TLAPS

-----------------------------------------------------------------------------
(* Every step of a recovery keeps the invariant.                           *)

\* The parts of the invariant that only look at what a recovery leaves alone.
LEMMA RebuildFacts ==
    ASSUME IInv, pc \in Rebuilding, pc' \in Rebuilding \cup {"failed"},
           UNCHANGED <<stage, packets, bytesSent, bytesAcked, lastBlock, conn, fed, packet, ret>>,
           sock' = FALSE
    PROVE  LastAlone' /\ Labels' /\ TypeNet' /\ TypeCaller' /\ Delivered'
<1>1. LastAlone'
  BY Zenon DEF IInv, LastAlone, Rebuilding
<1>2. Labels' /\ TypeNet' /\ TypeCaller' /\ Delivered'
  BY ZenonT(30) DEF IInv, Labels, TypeNet, TypeCaller, Delivered
<1> QED BY Zenon, <1>1, <1>2

\* The blamed node leaves the pipeline.
LEMMA RemoveBadNodeStep == ASSUME IInv, RemoveBadNode PROVE IInv'
<1>1. /\ pc = "build"
      /\ UNCHANGED <<stage, packets, bytesSent, bytesAcked, lastBlock, ret, failover, recovery,
                     retry, retryAlloc, gs, sock, conn, alive, replica, nn, faults, fed, packet>>
  BY Zenon DEF RemoveBadNode, net, ext, caller
<1>2. /\ nodes \in Seq(DN) /\ errorIndex \in 0..Len(nodes) /\ nodes # <<>> /\ ~sock /\ retry > 0
      /\ stage # "SETUP_CREATE" /\ excludedNodes \subseteq DN
  BY <1>1 DEF IInv, TypePipe, TypeLocals, Place, Rebuilding
<1>3. /\ nodes' \in Seq(DN) /\ excludedNodes' \subseteq DN /\ IsInjective(nodes')
      /\ \A k \in DOMAIN nodes' : \E i \in DOMAIN nodes : nodes'[k] = nodes[i] /\ ~Joining(i)
  <2>1. CASE errorIndex = 0
    <3>1. nodes' = nodes /\ excludedNodes' = excludedNodes
      BY <2>1 DEF RemoveBadNode
    <3> QED BY <1>2, <2>1, <3>1 DEF IInv, Members, Joining
  <2>2. CASE errorIndex > 0
    <3>1. /\ nodes' = [k \in 1..Len(nodes) - 1 |-> IF k < errorIndex THEN nodes[k] ELSE nodes[k + 1]]
          /\ excludedNodes' = excludedNodes \cup {nodes[errorIndex]}
      BY Zenon, <2>2 DEF RemoveBadNode, WithoutBad
    <3>2. Len(nodes) - 1 \in Nat
      BY <1>2
    <3>3. nodes' \in Seq(DN) /\ excludedNodes' \subseteq DN /\ DOMAIN nodes' = 1..Len(nodes) - 1
      BY <1>2, <2>2, <3>1, <3>2
    <3>4. ASSUME NEW k \in 1..Len(nodes) - 1
          PROVE  /\ nodes'[k] = nodes[IF k < errorIndex THEN k ELSE k + 1]
                 /\ (IF k < errorIndex THEN k ELSE k + 1) \in DOMAIN nodes \ {errorIndex}
      BY <1>2, <2>2, <3>1
    <3>5. IsInjective(nodes')
      BY SMTT(30), <1>2, <3>3, <3>4 DEF IInv, Members, IsInjective
    <3> QED BY Zenon, <3>3, <3>4, <3>5 DEF Joining
  <2> QED BY <1>2, <2>1, <2>2
<1>4. /\ nodes' = <<>> => pc' = "failed" /\ errorIndex' = errorIndex
      /\ nodes' # <<>> => errorIndex' = 0 /\ pc' \in {"addnode", "newgs"}
  BY Zenon DEF RemoveBadNode, Fails
<1>5. errorIndex \in 0..Len(nodes') + 1 \/ nodes' # <<>>
  <2>1. CASE errorIndex = 0
    BY <1>3, <2>1
  <2>2. CASE errorIndex > 0 /\ nodes' = <<>>
    <3>1. nodes' = [k \in 1..Len(nodes) - 1 |-> IF k < errorIndex THEN nodes[k] ELSE nodes[k + 1]]
      BY Zenon, <2>2 DEF RemoveBadNode, WithoutBad
    <3>2. DOMAIN nodes' = 1..Len(nodes) - 1 /\ DOMAIN nodes' = {}
      BY <2>2, <3>1
    <3>3. Len(nodes) = 1
      <4>1. 1 \notin 1..Len(nodes) - 1
        BY Zenon, <3>2
      <4>2. Len(nodes) \in Nat \ {0}
        BY <1>2
      <4> QED BY <4>1, <4>2
    <3> QED BY <1>2, <2>2, <3>3
  <2> QED BY <1>2, <2>1, <2>2
<1>6. TypePipe' /\ TypeExt'
  BY <1>1, <1>3, <1>4, <1>5 DEF IInv, TypePipe, TypeExt
<1>7. TypeLocals'
  BY Zenon, <1>1, <1>3, <1>4 DEF IInv, TypeLocals, PCs
<1>8. LastAlone' /\ Labels' /\ TypeNet' /\ TypeCaller' /\ Delivered'
  BY Zenon, <1>1, <1>2, <1>4, RebuildFacts DEF Rebuilding, IInv, TypeNet
<1>9. Place'
  BY <1>1, <1>2, <1>3, <1>4 DEF IInv, Place, Setting, Rebuilding, Streaming, Waits
<1>10. Bytes'
  BY Zenon, <1>1 DEF IInv, Bytes
<1>11. Members'
  <2>1. \A k \in DOMAIN nodes' : /\ replica[nodes'[k]].len >= bytesAcked
                                 /\ replica[nodes'[k]].st # "none"
                                 /\ stage = "SETUP_APPEND" /\ ~recovery => replica[nodes'[k]].st = "final"
    BY Zenon, <1>1, <1>3 DEF IInv, Members, AckedIsOnEveryNode, Rebuilding
  <2> QED BY Zenon, <1>1, <1>3, <1>4, <2>1 DEF Members, AckedIsOnEveryNode
<1>12. Stamps'
  BY Zenon, <1>1, <1>4 DEF IInv, Stamps, Streaming, Waits
<1> QED BY Zenon, <1>6, <1>7, <1>8, <1>9, <1>10, <1>11, <1>12 DEF IInv

\* An attempt that failed is tried again, or the recovery gives up.
LEMMA TryAgainStep ==
    ASSUME IInv, pc \in Rebuilding, NEW e \in 0..Len(nodes), TryAgain(e) \/ GiveUp,
           UNCHANGED <<stage, nodes, packets, bytesSent, bytesAcked, lastBlock, ret, failover, retryAlloc,
                       excludedNodes, gs, conn, alive, nn, fed, packet>>,
           sock' = FALSE, faults' \in Nat,
           replica' \in [DN -> Replica],
           \A n \in DN : replica'[n].len <= bytesSent /\ replica'[n].gs <= nn.issued,
           \A i \in DOMAIN nodes :
              \/ i = e /\ TryAgain(e)
              \/ replica'[nodes[i]].len >= bytesAcked /\ replica'[nodes[i]].st # "none"
    PROVE  IInv'
<1>1. /\ ~sock /\ stage # "SETUP_CREATE" /\ retry > 0 /\ nodes # <<>> /\ nodes \in Seq(DN)
      /\ stage = "SETUP_APPEND" => ret = "idle"
      /\ stage = "DATA_STREAMING" => ret \in {"write", "full", "flush", "drain"}
      /\ stage = "CLOSE" => ret \in {"write", "final"}
      /\ errorIndex \in 0..Len(nodes) + 1 /\ errorIndex <= Len(nodes) /\ retry \in Nat
  BY Zenon DEF IInv, Place, Rebuilding, TypePipe, TypeLocals
<1>2. /\ pc' \in {"build", "failed"} /\ retry' \in Nat /\ (pc' = "build" => retry' > 0)
      /\ errorIndex' \in 0..Len(nodes) /\ recovery' \in BOOLEAN
      /\ TryAgain(e) => errorIndex' = e /\ recovery'
      /\ GiveUp => errorIndex' = errorIndex /\ pc' = "failed"
  <2>1. CASE TryAgain(e)
    <3>1. /\ errorIndex' = e /\ recovery' = TRUE /\ retry' = (IF e = 0 THEN retry - 1 ELSE retry)
          /\ pc' = IF retry' > 0 THEN "build" ELSE "failed"
      BY Zenon, <2>1 DEF TryAgain, RetriesLeft, RetryIsRecovery
    <3>2. retry' \in Nat
      BY <1>1, <3>1
    <3>3. GiveUp => errorIndex' = errorIndex /\ pc' = "failed"
      BY Zenon DEF GiveUp, Fails
    <3> QED BY Zenon, <3>1, <3>2, <3>3
  <2>2. CASE GiveUp
    <3>1. pc' = "failed" /\ errorIndex' = errorIndex /\ recovery' = recovery /\ retry' = retry
      BY Zenon, <2>2 DEF GiveUp, Fails
    <3>2. TryAgain(e) => errorIndex' = e /\ recovery'
      BY Zenon DEF TryAgain, RetryIsRecovery
    <3> QED BY <1>1, <3>1, <3>2 DEF IInv, TypeLocals
  <2> QED BY Zenon, <2>1, <2>2
<1>3. TypePipe' /\ TypeExt'
  BY SMTT(30), <1>1, <1>2 DEF IInv, TypePipe, TypeExt
<1>4. TypeLocals'
  BY Zenon, <1>2 DEF IInv, TypeLocals, PCs
<1>5. LastAlone' /\ Labels' /\ TypeNet' /\ TypeCaller' /\ Delivered'
  BY Zenon, <1>2, RebuildFacts DEF Rebuilding
<1>6. Place'
  BY <1>1, <1>2 DEF Place, Setting, Rebuilding, Streaming, Waits
<1>7. Bytes'
  BY Zenon DEF IInv, Bytes
<1>8. Members'
  <2>1. TryAgain(e) /\ e > 0 => pc' = "build"
    BY <1>1 DEF TryAgain, RetriesLeft
  <2>2. \A i \in DOMAIN nodes : i \in 1..Len(nodes)
    BY <1>1
  <2>3. \A i \in DOMAIN nodes :
           Joining(i)' \/ (replica'[nodes[i]].len >= bytesAcked /\ replica'[nodes[i]].st # "none")
    BY <1>2, <2>1, <2>2 DEF Joining
  <2>4. pc' = "failed" \/ recovery'
    BY Zenon, <1>2
  <2> QED BY Zenon, <2>3, <2>4 DEF IInv, Members, AckedIsOnEveryNode, Joining, Rebuilding
<1>9. Stamps'
  BY Zenon, <1>2 DEF IInv, Stamps, Streaming, Waits
<1> QED BY Zenon, <1>3, <1>4, <1>5, <1>6, <1>7, <1>8, <1>9 DEF IInv

\* addDatanodeToPipeline, up to the transfer.
LEMMA AddDatanodeStep == ASSUME IInv, AddDatanode PROVE IInv'
<1>1. /\ pc = "addnode"
      /\ UNCHANGED <<stage, packets, bytesSent, bytesAcked, lastBlock, ret, failover, retryAlloc,
                     excludedNodes, gs, sock, conn, alive, replica, nn, fed, packet>>
  BY Zenon DEF AddDatanode, net, ext, caller
<1>2. /\ nodes \in Seq(DN) /\ nodes # <<>> /\ ~sock /\ retry > 0 /\ stage # "SETUP_CREATE"
      /\ Len(nodes) \in Nat \ {0} /\ DOMAIN nodes = 1..Len(nodes) /\ faults \in Nat
      /\ sock \in BOOLEAN
  BY <1>1 DEF IInv, TypePipe, TypeExt, TypeNet, Place, Rebuilding
<1>3. /\ replica \in [DN -> Replica]
      /\ \A n \in DN : replica[n].len <= bytesSent /\ replica[n].gs <= nn.issued
      /\ \A i \in DOMAIN nodes : replica[nodes[i]].len >= bytesAcked /\ replica[nodes[i]].st # "none"
  BY Zenon, <1>1 DEF IInv, TypeExt, Bytes, Stamps, Members, AckedIsOnEveryNode, Joining, Rebuilding
<1>4. CASE (TryAgain(0) \/ GiveUp) /\ UNCHANGED nodes /\ faults' \in Nat
  <2>1. sock' = FALSE /\ pc \in Rebuilding /\ 0 \in 0..Len(nodes)
    BY <1>1, <1>2 DEF Rebuilding
  <2> QED BY Zenon, <1>1, <1>3, <1>4, <2>1, TryAgainStep
<1>5. ASSUME NEW n \in DN \ (Range(nodes) \cup excludedNodes), NEW d \in 1..Len(nodes) + 1,
             nodes' = WithNew(nodes, d, n), errorIndex' = d, pc' = "transfer",
             UNCHANGED <<recovery, retry, faults>>
      PROVE  IInv'
  <2>1. nodes' = [k \in 1..Len(nodes) + 1 |-> IF k < d THEN nodes[k] ELSE IF k = d THEN n ELSE nodes[k - 1]]
    BY Zenon, <1>5 DEF WithNew
  <2>2. nodes' \in Seq(DN) /\ DOMAIN nodes' = 1..Len(nodes) + 1 /\ Len(nodes') = Len(nodes) + 1
    BY <1>2, <2>1
  <2>3. nodes'[d] = n /\ \A i \in DOMAIN nodes : nodes[i] # n
    BY <2>1 DEF Range
  <2>4. ASSUME NEW k \in 1..Len(nodes) + 1, k # d
        PROVE  /\ nodes'[k] = nodes[IF k < d THEN k ELSE k - 1]
               /\ (IF k < d THEN k ELSE k - 1) \in DOMAIN nodes
    BY <1>2, <2>1, <2>4
  <2>5. IsInjective(nodes')
    <3>1. ASSUME NEW a \in 1..Len(nodes) + 1, NEW b \in 1..Len(nodes) + 1, nodes'[a] = nodes'[b]
          PROVE  a = b
      <4>1. CASE a = d \/ b = d
        BY <2>3, <2>4, <3>1, <4>1
      <4>2. CASE a # d /\ b # d
        BY SMTT(30), <1>2, <2>4, <3>1, <4>2 DEF IInv, Members, IsInjective
      <4> QED BY Zenon, <4>1, <4>2
    <3> QED BY Zenon, <2>2, <3>1 DEF IsInjective
  <2>6. TypePipe' /\ TypeExt'
    BY <1>1, <1>2, <1>5, <2>2 DEF IInv, TypePipe, TypeExt
  <2>7. TypeLocals'
    BY Zenon, <1>1, <1>5 DEF IInv, TypeLocals, PCs
  <2>8. LastAlone' /\ Labels' /\ TypeNet' /\ TypeCaller' /\ Delivered'
    BY Zenon, <1>1, <1>2, <1>5, RebuildFacts DEF Rebuilding
  <2>9. Place'
    BY <1>1, <1>2, <1>5, <2>2 DEF IInv, Place, Setting, Rebuilding, Streaming, Waits
  <2>10. Bytes'
    BY Zenon, <1>1 DEF IInv, Bytes
  <2>11. Members'
    <3>1. \A k \in DOMAIN nodes' : k # d => \E i \in DOMAIN nodes : nodes'[k] = nodes[i]
      BY Zenon, <2>2, <2>4
    <3>2. Joining(d)'
      BY Zenon, <1>5 DEF Joining
    <3>3. \A i \in DOMAIN nodes : stage = "SETUP_APPEND" /\ ~recovery => replica[nodes[i]].st = "final"
      BY Zenon, <1>1 DEF IInv, Members, Joining, Rebuilding
    <3>4. /\ \A k \in DOMAIN nodes' : Joining(k)' \/ replica[nodes'[k]].len >= bytesAcked
          /\ \A k \in DOMAIN nodes' : Joining(k)' \/ replica[nodes'[k]].st # "none"
          /\ stage = "SETUP_APPEND" /\ ~recovery =>
                \A k \in DOMAIN nodes' : Joining(k)' \/ replica[nodes'[k]].st = "final"
      BY <1>3, <3>1, <3>2, <3>3
    <3> QED BY Zenon, <1>1, <1>5, <2>5, <3>4 DEF Members, AckedIsOnEveryNode
  <2>12. Stamps'
    BY Zenon, <1>1, <1>5 DEF IInv, Stamps, Streaming, Waits
  <2> QED BY Zenon, <2>6, <2>7, <2>8, <2>9, <2>10, <2>11, <2>12 DEF IInv
<1>6. Fault => faults' \in Nat
  BY <1>2 DEF Fault
<1> QED BY Zenon, <1>2, <1>4, <1>5, <1>6 DEF AddDatanode

\* The new node gets its copy, or is blamed.
LEMMA TransferStep == ASSUME IInv, Transfer PROVE IInv'
<1> DEFINE src == TransferSource(errorIndex)
           new == nodes[errorIndex]
           e == errorIndex
<1>1. /\ pc = "transfer"
      /\ UNCHANGED <<stage, nodes, packets, bytesSent, bytesAcked, lastBlock, ret, failover,
                     retryAlloc, excludedNodes, gs, sock, conn, alive, nn, fed, packet>>
  BY Zenon DEF Transfer, net, caller
<1>2. /\ nodes \in Seq(DN) /\ e \in 1..Len(nodes) /\ Len(nodes) >= 2 /\ DOMAIN nodes = 1..Len(nodes)
      /\ ~sock /\ retry > 0 /\ stage # "SETUP_CREATE" /\ faults \in Nat /\ sock \in BOOLEAN
      /\ lastBlock.numBytes = bytesAcked /\ bytesAcked \in Nat /\ lastBlock.gs \in Nat
      /\ retry \in Nat /\ nodes # <<>>
  BY <1>1 DEF IInv, TypePipe, TypeExt, TypeNet, TypeLocals, Place, Rebuilding, Bytes
<1>3. /\ replica \in [DN -> Replica]
      /\ \A n \in DN : replica[n].len <= bytesSent /\ replica[n].gs <= nn.issued
      /\ \A i \in DOMAIN nodes :
            i # e => /\ replica[nodes[i]].len >= bytesAcked /\ replica[nodes[i]].st # "none"
                     /\ stage = "SETUP_APPEND" /\ ~recovery => replica[nodes[i]].st = "final"
  BY Zenon, <1>1 DEF IInv, TypeExt, Bytes, Stamps, Members, AckedIsOnEveryNode, Joining, Rebuilding
<1>4. PICK s \in DOMAIN nodes : s # e /\ src = nodes[s]
  <2>1. (IF e = 1 THEN 2 ELSE e - 1) \in DOMAIN nodes /\ (IF e = 1 THEN 2 ELSE e - 1) # e
    BY <1>2
  <2> QED BY Zenon, <2>1 DEF TransferSource
<1>5. src \in DN /\ new \in DN /\ e \in DOMAIN nodes /\ e \in 0..Len(nodes)
  BY <1>2, <1>4
<1> HIDE DEF src, new, e
<1>6. CASE Explained(<<src, new>>) /\ TryAgain(e) /\ UNCHANGED replica
  <2>1. faults' \in Nat
    BY <1>2, <1>6 DEF Explained, Fault
  <2>2. sock' = FALSE /\ pc \in Rebuilding
    BY Zenon, <1>1, <1>2 DEF Rebuilding
  <2> QED BY Zenon, <1>1, <1>3, <1>5, <1>6, <2>1, <2>2, TryAgainStep
<1>7. ASSUME NEW len \in lastBlock.numBytes..replica[src].len,
             replica' = [replica EXCEPT ![new] = [st |-> replica[src].st, len |-> len, gs |-> lastBlock.gs]],
             errorIndex' = 0, pc' = "newgs", UNCHANGED <<recovery, retry, faults>>
      PROVE  IInv'
  <2>1. /\ replica[src] \in Replica /\ len \in Nat /\ len >= bytesAcked /\ len <= replica[src].len
        /\ replica[src].len <= bytesSent /\ bytesSent \in Nat /\ lastBlock.gs <= nn.issued
        /\ replica[src].st # "none"
        /\ stage = "SETUP_APPEND" /\ ~recovery => replica[src].st = "final"
    <3>1. replica[src] \in Replica /\ replica[src].len \in Nat
      BY Zenon, <1>3, <1>5 DEF Replica
    <3>2. len \in Nat /\ len >= bytesAcked /\ len <= replica[src].len
      BY <1>2, <3>1
    <3>3. bytesSent \in Nat /\ lastBlock.gs <= nn.issued
      BY Zenon DEF IInv, TypePipe, Stamps
    <3> QED BY Zenon, <1>3, <1>4, <1>5, <3>1, <3>2, <3>3
  <2>2. \A n \in DN : replica'[n] = IF n = new THEN [st |-> replica[src].st, len |-> len, gs |-> lastBlock.gs]
                                    ELSE replica[n]
    BY Zenon, <1>3, <1>7
  <2>3. replica' \in [DN -> Replica]
    BY Zenon, <1>2, <1>3, <1>5, <1>7, <2>1 DEF Replica
  <2>4. /\ \A n \in DN : replica'[n].len <= bytesSent
        /\ \A n \in DN : replica'[n].gs <= nn.issued
        /\ \A i \in DOMAIN nodes :
              /\ replica'[nodes[i]].len >= bytesAcked /\ replica'[nodes[i]].st # "none"
              /\ stage = "SETUP_APPEND" /\ ~recovery => replica'[nodes[i]].st = "final"
    <3>1. \A n \in DN : replica'[n].len <= bytesSent
      BY <1>3, <2>1, <2>2 DEF Replica
    <3>2. \A n \in DN : replica'[n].gs <= nn.issued
      BY <1>3, <2>1, <2>2
    <3>3. ASSUME NEW i \in DOMAIN nodes
          PROVE  /\ replica'[nodes[i]].len >= bytesAcked /\ replica'[nodes[i]].st # "none"
                 /\ stage = "SETUP_APPEND" /\ ~recovery => replica'[nodes[i]].st = "final"
      <4>1. CASE nodes[i] = new
        BY <1>5, <2>1, <2>2, <4>1
      <4>2. CASE nodes[i] # new
        <5>1. i # e /\ nodes[i] \in DN
          BY <1>2, <4>2 DEF new, e
        <5> QED BY Zenon, <1>3, <2>2, <4>2, <5>1
      <4> QED BY Zenon, <4>1, <4>2
    <3> QED BY Zenon, <3>1, <3>2, <3>3
  <2>5. TypePipe' /\ TypeExt'
    BY SMTT(30), <1>1, <1>2, <1>7, <2>3 DEF IInv, TypePipe, TypeExt
  <2>6. TypeLocals'
    BY Zenon, <1>1, <1>7 DEF IInv, TypeLocals, PCs
  <2>7. LastAlone' /\ Labels' /\ TypeNet' /\ TypeCaller' /\ Delivered'
    BY Zenon, <1>1, <1>2, <1>7, RebuildFacts DEF Rebuilding
  <2>8. Place'
    BY <1>1, <1>2, <1>7 DEF IInv, Place, Setting, Rebuilding, Streaming, Waits
  <2>9. Bytes'
    BY Zenon, <1>1, <2>4 DEF IInv, Bytes
  <2>10. Members'
    BY Zenon, <1>1, <1>7, <2>4 DEF IInv, Members, AckedIsOnEveryNode
  <2>11. Stamps'
    BY Zenon, <1>1, <1>7, <2>4 DEF IInv, Stamps, Streaming, Waits
  <2> QED BY Zenon, <2>5, <2>6, <2>7, <2>8, <2>9, <2>10, <2>11 DEF IInv
<1>8. \/ Explained(<<src, new>>) /\ TryAgain(e) /\ UNCHANGED replica
      \/ /\ \E len \in lastBlock.numBytes..replica[src].len :
              replica' = [replica EXCEPT ![new] = [st |-> replica[src].st, len |-> len, gs |-> lastBlock.gs]]
         /\ errorIndex' = 0 /\ pc' = "newgs" /\ UNCHANGED <<recovery, retry, faults>>
  BY Zenon DEF Transfer, src, new, e
<1> QED BY Zenon, <1>6, <1>7, <1>8

\* The namenode hands out the next generation stamp.
LEMMA UpdateBlockForPipelineStep == ASSUME IInv, UpdateBlockForPipeline PROVE IInv'
<1>1. /\ pc = "newgs"
      /\ UNCHANGED <<stage, nodes, packets, bytesSent, bytesAcked, lastBlock, ret, failover,
                     retryAlloc, excludedNodes, sock, conn, alive, replica, fed, packet>>
  BY Zenon DEF UpdateBlockForPipeline, net, caller
<1>2. /\ nodes \in Seq(DN) /\ 0 \in 0..Len(nodes) /\ faults \in Nat /\ ~sock /\ sock \in BOOLEAN
      /\ nn \in [issued : Nat, gs : Nat, nodes : SUBSET DN]
  BY <1>1 DEF IInv, TypePipe, TypeExt, TypeNet, Place, Rebuilding
<1>3. /\ replica \in [DN -> Replica]
      /\ \A n \in DN : replica[n].len <= bytesSent /\ replica[n].gs <= nn.issued
      /\ \A i \in DOMAIN nodes : replica[nodes[i]].len >= bytesAcked /\ replica[nodes[i]].st # "none"
  BY Zenon, <1>1 DEF IInv, TypeExt, Bytes, Stamps, Members, AckedIsOnEveryNode, Joining, Rebuilding
<1>4. CASE Fault /\ (TryAgain(0) \/ GiveUp) /\ UNCHANGED <<nn, gs>>
  <2>1. faults' \in Nat
    BY <1>2, <1>4 DEF Fault
  <2>2. sock' = FALSE /\ pc \in Rebuilding
    BY Zenon, <1>1, <1>2 DEF Rebuilding
  <2> QED BY Zenon, <1>1, <1>2, <1>3, <1>4, <2>1, <2>2, TryAgainStep
<1>5. CASE /\ nn' = [nn EXCEPT !.issued = @ + 1] /\ gs' = NewStamp(nn'.issued) /\ pc' = "setup"
           /\ UNCHANGED <<errorIndex, recovery, retry, faults>>
  <2>1. /\ nn'.issued = nn.issued + 1 /\ nn'.gs = nn.gs /\ nn'.nodes = nn.nodes /\ gs' = nn.issued + 1
        /\ nn' \in [issued : Nat, gs : Nat, nodes : SUBSET DN]
    BY <1>2, <1>5 DEF NewStamp
  <2>2. TypePipe' /\ TypeExt'
    BY Zenon, <1>1, <1>5, <2>1 DEF IInv, TypePipe, TypeExt
  <2>3. TypeLocals'
    BY Zenon, <1>1, <1>2, <1>5, <2>1 DEF IInv, TypeLocals, PCs
  <2>4. LastAlone' /\ Labels' /\ TypeNet' /\ TypeCaller' /\ Delivered'
    BY Zenon, <1>1, <1>2, <1>5, RebuildFacts DEF Rebuilding
  <2>5. Place'
    BY Zenon, <1>1, <1>2, <1>5 DEF IInv, Place, Setting, Rebuilding, Streaming, Waits
  <2>6. Bytes'
    BY Zenon, <1>1 DEF IInv, Bytes
  <2>7. Members'
    BY Zenon, <1>1, <1>5 DEF IInv, Members, AckedIsOnEveryNode, Joining, Rebuilding, Streaming, Waits
  <2>8. Stamps'
    <3>1. \A n \in DN : replica[n].gs \in Nat /\ replica[n].gs < nn.issued + 1 /\ replica[n].gs <= nn.issued + 1
      BY <1>2, <1>3 DEF Replica
    <3>2. nn.gs <= nn.issued + 1 /\ lastBlock.gs <= nn.issued + 1
      BY <1>2 DEF IInv, Stamps, TypePipe
    <3> QED BY Zenon, <1>1, <1>5, <2>1, <3>1, <3>2 DEF Stamps, Streaming, Waits
  <2> QED BY <2>2, <2>3, <2>4, <2>5, <2>6, <2>7, <2>8 DEF IInv
<1> QED BY Zenon, <1>4, <1>5 DEF UpdateBlockForPipeline

\* The namenode learns of the rebuilt pipeline, and the interrupted call goes on.
LEMMA UpdatePipelineStep == ASSUME IInv, UpdatePipeline PROVE IInv'
<1>1. /\ pc = "update"
      /\ UNCHANGED <<nodes, errorIndex, bytesSent, bytesAcked, ret, failover, recovery, retry, retryAlloc,
                     excludedNodes, gs, sock, conn, alive, replica, fed, packet>>
  BY Zenon DEF UpdatePipeline, locals, net, caller
<1>2. /\ sock /\ stage # "SETUP_CREATE" /\ stage \in Stages /\ nodes # <<>> /\ errorIndex <= Len(nodes)
      /\ stage = "SETUP_APPEND" => ret = "idle"
      /\ stage = "DATA_STREAMING" => ret \in {"write", "full", "flush", "drain"}
      /\ stage = "CLOSE" => ret \in {"write", "final"}
      /\ nodes \in Seq(DN) /\ Range(nodes) \subseteq DN /\ gs \in Nat /\ packets \in Seq(Packet)
      /\ lastBlock \in [gs : Nat, numBytes : Nat] /\ faults \in Nat
      /\ nn \in [issued : Nat, gs : Nat, nodes : SUBSET DN]
  BY <1>1 DEF IInv, Place, TypePipe, TypeLocals, TypeExt, Range
<1>3. /\ \A n \in DN : replica[n].gs <= nn.issued
      /\ nn.gs <= nn.issued /\ lastBlock.gs <= nn.issued
      /\ conn.gs = gs /\ gs <= nn.issued
      /\ \A n \in DN \ Range(nodes) : replica[n].gs < gs
      /\ stage = "CLOSE" => \A i \in DOMAIN nodes : replica[nodes[i]].st = "final"
  BY Zenon, <1>1 DEF IInv, Stamps
<1>4. TypeNet' /\ TypeCaller'
  BY Zenon, <1>1 DEF IInv, TypeNet, TypeCaller
<1>5. CASE /\ nn' = [nn EXCEPT !.gs = gs, !.nodes = Range(nodes)]
           /\ lastBlock' = [lastBlock EXCEPT !.gs = gs]
           /\ packets' = IF stage = "CLOSE" THEN <<>> ELSE packets
           /\ stage' = IF stage = "SETUP_APPEND" THEN "DATA_STREAMING" ELSE stage
           /\ pc' = IF stage = "CLOSE" /\ ret = "write" THEN "final" ELSE ret
           /\ UNCHANGED faults
  <2>1. /\ nn'.issued = nn.issued /\ nn'.gs = gs /\ nn'.nodes = Range(nodes)
        /\ nn' \in [issued : Nat, gs : Nat, nodes : SUBSET DN]
    BY Zenon, <1>2, <1>5
  <2>2. /\ lastBlock'.gs = gs /\ lastBlock'.numBytes = lastBlock.numBytes
        /\ lastBlock' \in [gs : Nat, numBytes : Nat]
    BY Zenon, <1>2, <1>5
  <2>3. /\ stage' \in {"DATA_STREAMING", "CLOSE"} /\ (stage' = "CLOSE" <=> stage = "CLOSE")
        /\ stage' = "DATA_STREAMING" => pc' \in {"idle", "write", "full", "flush", "drain"} /\ packets' = packets
        /\ stage' = "CLOSE" => pc' = "final" /\ packets' = <<>>
    BY Zenon, <1>2, <1>5 DEF Stages
  <2>4. TypePipe'
    <3>1. packets' \in Seq(Packet)
      BY <1>2, <1>5
    <3> QED BY Zenon, <1>1, <2>2, <2>3, <3>1 DEF IInv, TypePipe, Stages
  <2>5. TypeLocals'
    BY Zenon, <1>1, <2>3 DEF IInv, TypeLocals, PCs, Waits
  <2>6. TypeExt'
    BY Zenon, <1>1, <1>2, <1>5, <2>1 DEF IInv, TypeExt
  <2>7. Place'
    BY Zenon, <1>1, <1>2, <2>3 DEF Place, Setting, Rebuilding, Streaming, Waits
  <2>8. LastAlone'
    BY <1>1, <2>3 DEF IInv, LastAlone
  <2>9. Bytes'
    BY SMTT(30), <1>1, <2>2, <2>3 DEF IInv, Bytes
  <2>10. Labels' /\ Delivered'
    BY <1>1, <2>3 DEF IInv, Labels, Delivered
  <2>11. Members'
    BY Zenon, <1>1, <2>3 DEF IInv, Members, AckedIsOnEveryNode, Joining, Rebuilding, Streaming, Waits
  <2>12. Stamps'
    <3>1. \A i \in DOMAIN nodes : replica[nodes[i]].gs = gs
      BY Zenon, <1>2, <1>3 DEF IInv, Delivered
    <3> QED BY <1>1, <1>3, <2>1, <2>2, <2>3, <3>1 DEF Stamps, Streaming, Waits
  <2> QED BY Zenon, <1>4, <2>4, <2>5, <2>6, <2>7, <2>8, <2>9, <2>10, <2>11, <2>12 DEF IInv
<1>6. CASE /\ Fault /\ pc' = "failed" /\ UNCHANGED <<lastBlock, packets, stage>>
           /\ nn' = [nn EXCEPT !.gs = gs, !.nodes = Range(nodes)] \/ UNCHANGED nn
  <2>1. /\ nn'.issued = nn.issued /\ nn'.gs <= nn.issued
        /\ nn' \in [issued : Nat, gs : Nat, nodes : SUBSET DN]
    BY Zenon, <1>2, <1>3, <1>6
  <2>2. TypePipe' /\ TypeExt'
    BY SMTT(30), <1>1, <1>2, <1>6, <2>1 DEF IInv, TypePipe, TypeExt, Fault
  <2>3. TypeLocals'
    BY Zenon, <1>1, <1>6 DEF IInv, TypeLocals, PCs
  <2>4. Place'
    BY Zenon, <1>1, <1>6 DEF Place, Setting, Rebuilding, Streaming, Waits
  <2>5. LastAlone' /\ Bytes' /\ Labels' /\ Delivered'
    BY <1>1, <1>6 DEF IInv, LastAlone, Bytes, Labels, Delivered
  <2>6. Members'
    BY Zenon, <1>1, <1>6 DEF IInv, Members, AckedIsOnEveryNode, Joining, Rebuilding, Streaming, Waits
  <2>7. Stamps'
    BY Zenon, <1>1, <1>3, <1>6, <2>1 DEF Stamps, Streaming, Waits
  <2> QED BY Zenon, <1>4, <2>2, <2>3, <2>4, <2>5, <2>6, <2>7 DEF IInv
<1> QED BY Zenon, <1>5, <1>6 DEF UpdatePipeline, Fails

-----------------------------------------------------------------------------
(* Every action of the constructor keeps the invariant.                    *)

\* addBlock hands out a placement that starts a fresh block.
LEMMA LocateNextBlockStep == ASSUME IInv, LocateNextBlock PROVE IInv'
<1>1. PICK k \in 0..Replication : \E ns \in Placements(DN \ excludedNodes, k) :
        /\ nodes' = ns
        /\ nn' = [issued |-> nn.issued + 1, gs |-> nn.issued + 1, nodes |-> Range(ns)]
        /\ lastBlock' = [gs |-> nn.issued + 1, numBytes |-> 0]
        /\ pc' = IF ns = <<>> THEN "failed" ELSE "create"
  BY Zenon DEF LocateNextBlock
<1>2. nodes' \in [1..k -> DN] /\ IsInjective(nodes')
  BY Zenon, <1>1 DEF Placements
<1>3. nodes' \in Seq(DN) /\ Len(nodes') = k /\ DOMAIN nodes' = 1..k
  BY <1>2, PipelineAssumption
<1>4. /\ nn' = [issued |-> nn.issued + 1, gs |-> nn.issued + 1, nodes |-> Range(nodes')]
      /\ lastBlock' = [gs |-> nn.issued + 1, numBytes |-> 0]
      /\ pc' = IF nodes' = <<>> THEN "failed" ELSE "create"
  BY Zenon, <1>1
<1>5. /\ pc = "locate" /\ errorIndex' = 0 /\ retryAlloc' = 0
      /\ replica' = [n \in DN |-> NoReplica] /\ conn' = NoConn
      /\ UNCHANGED <<stage, packets, bytesSent, bytesAcked, ret, failover, recovery, retry,
                     excludedNodes, gs, sock, alive, faults, caller>>
  BY Zenon DEF LocateNextBlock
<1>6. /\ stage = "SETUP_CREATE" /\ ~sock /\ packets = <<>>
      /\ fed = 0 /\ bytesSent = 0 /\ bytesAcked = 0
  BY Zenon, <1>5 DEF IInv, Place, Setting
<1>7. Range(nodes') \subseteq DN
  BY Zenon, <1>2 DEF Range
<1>8. nn.issued \in Nat
  BY Zenon DEF IInv, TypeExt
<1>9. TypePipe'
  BY <1>3, <1>4, <1>5, <1>8 DEF IInv, TypePipe
<1>10. TypeLocals'
  BY Zenon, <1>4, <1>5 DEF IInv, TypeLocals, PCs, Waits
<1>11. TypeNet'
  BY <1>5 DEF IInv, TypeNet, NoConn
<1>12. TypeExt'
  BY <1>4, <1>5, <1>7, <1>8 DEF IInv, TypeExt, NoReplica, Replica
<1>13. TypeCaller'
  BY Zenon, <1>5 DEF IInv, TypeCaller, caller
<1>14. Place'
  BY <1>3, <1>4, <1>5, <1>6 DEF IInv, Place, Setting, Rebuilding, Streaming, Waits, caller
<1>15. LastAlone'
  BY Zenon, <1>5, <1>6 DEF IInv, LastAlone
<1>16. Bytes'
  BY Zenon, <1>4, <1>5, <1>6 DEF IInv, Bytes, NoConn, NoReplica, caller
<1>17. Labels' /\ Delivered'
  BY <1>5, <1>6 DEF IInv, Labels, Delivered, NoConn, caller
<1>18. Members'
  BY <1>2, <1>3, <1>4, <1>5, <1>6
  DEF IInv, Members, AckedIsOnEveryNode, Joining, NoReplica, Setting, Rebuilding, Streaming, Waits
<1>19. Stamps'
  BY <1>4, <1>5, <1>8 DEF IInv, Stamps, NoReplica, Streaming, Waits
<1> QED BY Zenon, <1>9, <1>10, <1>11, <1>12, <1>13, <1>14, <1>15, <1>16, <1>17, <1>18, <1>19 DEF IInv

\* A failed addBlock changes nothing but the retry count.
LEMMA LocateFailsStep == ASSUME IInv, LocateFails PROVE IInv'
<1> USE DEF IInv, LocateFails, Fault, Fails, net, ext, caller
<1>1. TypePipe' /\ TypeCaller'
  BY DEF TypePipe, TypeCaller
<1>2. TypeLocals'
  BY DEF TypeLocals, PCs, Waits
<1>3. TypeNet' /\ TypeExt'
  BY DEF TypeNet, TypeExt
<1>4. Place'
  BY SMTT(30) DEF Place, TypePipe, Setting, Rebuilding, Streaming, Waits
<1>5. LastAlone'
  BY Zenon DEF LastAlone, Place, Setting
<1>6. Bytes' /\ Labels' /\ Delivered'
  BY DEF Bytes, Labels, Delivered
<1>7. Members'
  <2>1. pc = "locate" /\ bytesAcked = 0 /\ ~(pc \in Rebuilding) /\ pc' \in {"locate", "failed"}
    BY Zenon DEF Place, Setting, Rebuilding
  <2>2. \A i \in DOMAIN nodes : replica[nodes[i]].len >= 0
    BY DEF TypeExt, Replica, TypePipe
  <2> QED BY Zenon, <2>1, <2>2
          DEF Members, AckedIsOnEveryNode, Joining, Setting, Rebuilding, Streaming, Waits
<1>8. Stamps'
  BY Zenon DEF Stamps, Streaming, Waits
<1> QED BY Zenon, <1>1, <1>2, <1>3, <1>4, <1>5, <1>6, <1>7, <1>8

\* What opening the replicas of a set of nodes leaves of them.
LEMMA SetUpFacts ==
    ASSUME IInv, NEW k \in 0..Len(nodes), NEW g \in Nat, SetUp(k, g)
    PROVE  /\ replica' \in [DN -> Replica]
           /\ \A n \in DN : replica'[n].len <= bytesSent
           /\ \A i \in 1..Len(nodes) :
                 \/ replica'[nodes[i]] = replica[nodes[i]]
                 \/ /\ lastBlock.numBytes <= replica'[nodes[i]].len
                    /\ replica'[nodes[i]].gs = g
                    /\ replica'[nodes[i]].st = IF stage = "CLOSE" THEN "final" ELSE "rbw"
           /\ \A i \in 1..k :
                 /\ lastBlock.numBytes <= replica'[nodes[i]].len
                 /\ replica'[nodes[i]].gs = g
                 /\ replica'[nodes[i]].st = IF stage = "CLOSE" THEN "final" ELSE "rbw"
           /\ \A n \in DN : replica'[n] = replica[n] \/ replica'[n].gs = g
           /\ \A n \in DN : (\A i \in 1..k : nodes[i] # n) => replica'[n] = replica[n]
<1> DEFINE up == {nodes[i] : i \in 1..k}
<1>1. PICK cut \in [up -> lastBlock.numBytes..bytesSent] :
        replica' = [n \in DN |->
              IF n \in up
              THEN [st |-> IF stage = "CLOSE" THEN "final" ELSE "rbw", len |-> cut[n], gs |-> g]
              ELSE replica[n]]
  BY Zenon DEF SetUp
<1>2. /\ lastBlock.numBytes \in Nat /\ bytesSent \in Nat /\ nodes \in Seq(DN)
      /\ replica \in [DN -> Replica] /\ \A n \in DN : replica[n].len <= bytesSent
  BY Zenon DEF IInv, TypePipe, TypeExt, Bytes
<1>3. \A n \in up : cut[n] \in Nat /\ cut[n] <= bytesSent /\ lastBlock.numBytes <= cut[n]
  BY <1>1, <1>2
<1>4. \A i \in 1..Len(nodes) : nodes[i] \in DN
  BY <1>2
<1>5. \A i \in 1..k : nodes[i] \in up /\ i \in 1..Len(nodes)
  BY <1>2
<1> HIDE DEF up
<1>6. replica' \in [DN -> Replica]
  BY Zenon, <1>1, <1>2, <1>3 DEF Replica
<1>7. \A n \in DN : replica'[n].len <= bytesSent
  BY Zenon, <1>1, <1>2, <1>3
<1>8. \A n \in DN : n \in up =>
                 /\ lastBlock.numBytes <= replica'[n].len
                 /\ replica'[n].gs = g
                 /\ replica'[n].st = IF stage = "CLOSE" THEN "final" ELSE "rbw"
  BY Zenon, <1>1, <1>2, <1>3
<1>9. \A n \in DN : n \notin up => replica'[n] = replica[n]
  BY Zenon, <1>1
<1>10. \A n \in DN : (\A i \in 1..k : nodes[i] # n) => n \notin up
  BY Zenon DEF up
<1> QED BY Zenon, <1>4, <1>5, <1>6, <1>7, <1>8, <1>9, <1>10

\* A pipeline for a new block is set up, or the attempt is about to be abandoned.
LEMMA CreateStreamStep == ASSUME IInv, CreateStream PROVE IInv'
<1>1. /\ pc = "create" /\ stage = "SETUP_CREATE" /\ ~sock /\ packets = <<>>
      /\ fed = 0 /\ bytesSent = 0 /\ bytesAcked = 0 /\ nodes # <<>>
      /\ lastBlock.gs \in Nat /\ nodes \in Seq(DN) /\ Len(nodes) \in Nat \ {0}
  BY DEF IInv, CreateStream, Place, Setting, TypePipe
<1>2. /\ UNCHANGED <<nodes, packets, bytesSent, bytesAcked, lastBlock, alive, nn>>
      /\ UNCHANGED <<ret, failover, recovery, retry, retryAlloc, excludedNodes, gs, fed, packet>>
  BY Zenon DEF CreateStream, locals, caller
<1>3. TypeCaller'
  BY Zenon, <1>2 DEF IInv, TypeCaller
<1>4. CASE Connected(lastBlock.gs) /\ pc' = "idle" /\ stage' = "DATA_STREAMING" /\ UNCHANGED errorIndex
  <2>1. SetUp(Len(nodes), lastBlock.gs) /\ sock' = TRUE /\ faults' = faults
    BY Zenon, <1>4 DEF Connected
  <2>2. conn' = [gs |-> lastBlock.gs, nodes |-> nodes, pos |-> [i \in 1..Len(nodes) |-> 0],
                 read |-> 0, stream |-> <<>>]
    BY Zenon, <1>4 DEF Connected
  <2>3. Len(nodes) \in 0..Len(nodes)
    BY <1>1
  <2>4. /\ replica' \in [DN -> Replica]
        /\ \A n \in DN : replica'[n].len <= bytesSent
        /\ \A i \in 1..Len(nodes) : /\ lastBlock.numBytes <= replica'[nodes[i]].len
                                    /\ replica'[nodes[i]].gs = lastBlock.gs
                                    /\ replica'[nodes[i]].st = "rbw"
        /\ \A n \in DN : (\A i \in 1..Len(nodes) : nodes[i] # n) => replica'[n] = replica[n]
        /\ \A n \in DN : replica'[n] = replica[n] \/ replica'[n].gs = lastBlock.gs
    BY <1>1, <2>1, <2>3, SetUpFacts
  <2>5. TypePipe' /\ TypeLocals'
    BY Zenon, <1>2, <1>4 DEF IInv, TypePipe, TypeLocals, Stages, PCs
  <2>6. TypeNet'
    BY <1>1, <2>1, <2>2 DEF TypeNet
  <2>7. TypeExt'
    BY Zenon, <1>2, <2>1, <2>4 DEF IInv, TypeExt
  <2>8. Place'
    BY Zenon, <1>1, <1>2, <1>4, <2>1 DEF IInv, Place, Setting, Rebuilding, Streaming, Waits
  <2>9. LastAlone'
    BY <1>1, <1>2, <1>4 DEF LastAlone
  <2>10. Bytes'
    BY Zenon, <1>1, <1>2, <1>4, <2>2, <2>4 DEF IInv, Bytes
  <2>11. Labels'
    BY <1>1, <1>2, <2>2 DEF IInv, Labels
  <2>12. Delivered'
    <3>1. /\ conn'.nodes = nodes /\ conn'.gs = lastBlock.gs /\ conn'.stream = <<>>
          /\ \A i \in 1..Len(nodes) : conn'.pos[i] = 0
      BY Zenon, <2>2
    <3>2. DOMAIN nodes = 1..Len(nodes)
      BY SMTT(30), <1>1
    <3> QED BY <1>2, <2>4, <3>1, <3>2 DEF Delivered
  <2>13. Members'
    BY <1>1, <1>2, <1>4, <2>4
    DEF IInv, Members, Bytes, AckedIsOnEveryNode, Joining, Setting, Rebuilding, Streaming
  <2>14. Stamps'
    <3>1. \A n \in DN \ nn.nodes : \A i \in 1..Len(nodes) : nodes[i] # n
      BY <1>1 DEF IInv, Stamps, Range
    <3> QED BY Zenon, <1>1, <1>2, <1>4, <2>2, <2>4, <3>1 DEF IInv, Stamps, Streaming, Waits
  <2> QED BY Zenon, <1>3, <2>5, <2>6, <2>7, <2>8, <2>9, <2>10, <2>11, <2>12, <2>13, <2>14 DEF IInv
<1>5. CASE NotConnected(lastBlock.gs) /\ pc' = "abandon" /\ UNCHANGED stage
  <2>1. PICK k \in 0..Len(nodes) : SetUp(k, lastBlock.gs) /\ errorIndex' \in BlamedBy(k)
    BY Zenon, <1>5 DEF NotConnected
  <2>2. /\ sock' = FALSE /\ UNCHANGED conn /\ errorIndex' \in 1..Len(nodes)
        /\ faults' \in {faults, faults + 1}
    BY Zenon, <1>5, <2>1 DEF NotConnected, BlamedBy, Fault
  <2>3. /\ replica' \in [DN -> Replica]
        /\ \A n \in DN : replica'[n].len <= bytesSent
        /\ \A i \in 1..Len(nodes) :
              replica'[nodes[i]] = replica[nodes[i]] \/ lastBlock.numBytes <= replica'[nodes[i]].len
        /\ \A n \in DN : replica'[n] = replica[n] \/ replica'[n].gs = lastBlock.gs
        /\ \A n \in DN : (\A i \in 1..k : nodes[i] # n) => replica'[n] = replica[n]
    BY Zenon, <1>1, <2>1, SetUpFacts
  <2>4. TypePipe' /\ TypeLocals' /\ TypeNet'
    <3>1. TypePipe'
      BY <1>1, <1>2, <1>5, <2>2 DEF IInv, TypePipe
    <3>2. TypeLocals' /\ TypeNet'
      BY Zenon, <1>2, <1>5, <2>2 DEF IInv, TypeLocals, TypeNet, PCs
    <3> QED BY Zenon, <3>1, <3>2
  <2>5. TypeExt'
    BY <1>2, <2>2, <2>3 DEF IInv, TypeExt
  <2>6. Place'
    BY SMTT(30), <1>1, <1>2, <1>5, <2>2 DEF IInv, Place, Setting, Rebuilding, Streaming, Waits
  <2>7. LastAlone' /\ Labels'
    BY <1>1, <1>2, <1>5, <2>2 DEF IInv, LastAlone, Labels
  <2>8. Bytes'
    BY Zenon, <1>1, <1>2, <1>5, <2>2, <2>3 DEF IInv, Bytes
  <2>9. Delivered'
    BY Zenon, <1>1, <1>2, <2>2 DEF IInv, Delivered
  <2>10. Members'
    <3>1. \A i \in DOMAIN nodes : replica'[nodes[i]].len >= 0
      BY <1>1, <2>3 DEF Replica
    <3> QED BY Zenon, <1>1, <1>2, <1>5, <3>1
            DEF IInv, Members, AckedIsOnEveryNode, Joining, Setting, Rebuilding, Streaming, Waits
  <2>11. Stamps'
    <3>1. \A n \in DN \ nn.nodes : \A i \in 1..k : nodes[i] # n
      BY <1>1 DEF IInv, Stamps, Range
    <3> QED BY Zenon, <1>1, <1>2, <1>5, <2>3, <3>1 DEF IInv, Stamps, Streaming, Waits
  <2> QED BY Zenon, <1>3, <2>4, <2>5, <2>6, <2>7, <2>8, <2>9, <2>10, <2>11 DEF IInv
<1> QED BY Zenon, <1>4, <1>5 DEF CreateStream

\* The blamed node is excluded and a new block is asked for.
LEMMA AbandonBlockStep == ASSUME IInv, AbandonBlock PROVE IInv'
<1>1. /\ pc = "abandon" /\ stage = "SETUP_CREATE" /\ ~sock /\ packets = <<>> /\ bytesAcked = 0
      /\ fed = 0 /\ bytesSent = 0 /\ retry \in Nat \ {0}
      /\ errorIndex \in 1..Len(nodes) /\ nodes \in Seq(DN) /\ nodes[errorIndex] \in DN
  BY DEF IInv, AbandonBlock, Place, Setting, TypePipe, TypeLocals
<1>2. /\ UNCHANGED <<stage, nodes, errorIndex, packets, bytesSent, bytesAcked, lastBlock, ret,
                     failover, recovery, retry, retryAlloc, gs, sock, conn, alive, replica, nn,
                     fed, packet>>
      /\ pc' \in {"locate", "failed"} /\ excludedNodes' \subseteq DN /\ faults' \in Nat
  BY <1>1 DEF AbandonBlock, IInv, TypeLocals, TypeExt, Fault, Fails, net, ext, caller
<1>3. TypePipe' /\ TypeNet' /\ TypeExt' /\ TypeCaller'
  BY Zenon, <1>2 DEF IInv, TypePipe, TypeNet, TypeExt, TypeCaller
<1>4. TypeLocals'
  BY Zenon, <1>2 DEF IInv, TypeLocals, PCs
<1>5. Place'
  BY ZenonT(30), <1>1, <1>2 DEF IInv, Place, Setting, Rebuilding, Streaming, Waits
<1>6. LastAlone' /\ Bytes' /\ Labels' /\ Delivered'
  BY <1>1, <1>2 DEF IInv, LastAlone, Bytes, Labels, Delivered
<1>7. Members'
  <2>1. \A i \in DOMAIN nodes : replica[nodes[i]].len >= 0
    BY DEF IInv, TypeExt, Replica, TypePipe
  <2> QED BY Zenon, <1>1, <1>2, <2>1
          DEF IInv, Members, AckedIsOnEveryNode, Joining, Rebuilding, Streaming, Waits
<1>8. Stamps'
  BY Zenon, <1>1, <1>2 DEF IInv, Stamps, Streaming, Waits
<1> QED BY Zenon, <1>3, <1>4, <1>5, <1>6, <1>7, <1>8 DEF IInv

\* The rebuilt pipeline is connected, or the attempt is repeated.
LEMMA RecoverStreamStep == ASSUME IInv, RecoverStream PROVE IInv'
<1>1. /\ pc = "setup"
      /\ UNCHANGED <<stage, nodes, packets, bytesSent, bytesAcked, lastBlock, ret, failover,
                     retryAlloc, excludedNodes, gs, alive, nn, fed, packet>>
  BY Zenon DEF RecoverStream, caller
<1>2. /\ nodes \in Seq(DN) /\ nodes # <<>> /\ Len(nodes) \in Nat /\ DOMAIN nodes = 1..Len(nodes)
      /\ ~sock /\ stage # "SETUP_CREATE" /\ faults \in Nat /\ gs \in Nat /\ bytesAcked \in Nat
      /\ lastBlock.numBytes = bytesAcked /\ gs = nn.issued /\ retry > 0
  BY <1>1 DEF IInv, TypePipe, TypeExt, TypeLocals, Place, Rebuilding, Bytes, Stamps
<1>3. /\ replica \in [DN -> Replica]
      /\ \A n \in DN : replica[n].gs < gs /\ replica[n].gs <= nn.issued
      /\ \A i \in DOMAIN nodes : replica[nodes[i]].len >= bytesAcked /\ replica[nodes[i]].st # "none"
  BY Zenon, <1>1 DEF IInv, TypeExt, Stamps, Members, AckedIsOnEveryNode, Joining, Rebuilding
<1>4. CASE NotConnected(gs) /\ TryAgain(errorIndex')
  <2>1. PICK k \in 0..Len(nodes) :
          SetUp(k, gs) /\ errorIndex' \in BlamedBy(k) /\ (UNCHANGED faults \/ Fault)
    BY Zenon, <1>4 DEF NotConnected
  <2>2. /\ sock' = FALSE /\ UNCHANGED conn /\ errorIndex' \in 0..Len(nodes) /\ faults' \in Nat
    BY <1>2, <1>4, <2>1 DEF NotConnected, BlamedBy, Fault
  <2>3. /\ replica' \in [DN -> Replica]
        /\ \A n \in DN : replica'[n].len <= bytesSent
        /\ \A i \in 1..Len(nodes) :
              \/ replica'[nodes[i]] = replica[nodes[i]]
              \/ /\ lastBlock.numBytes <= replica'[nodes[i]].len
                 /\ replica'[nodes[i]].st = IF stage = "CLOSE" THEN "final" ELSE "rbw"
        /\ \A n \in DN : replica'[n] = replica[n] \/ replica'[n].gs = gs
    BY Zenon, <1>2, <2>1, SetUpFacts
  <2>4. \A i \in 1..Len(nodes) : replica'[nodes[i]].len \in Nat
    BY <1>2, <2>3 DEF Replica
  <2>5. /\ \A n \in DN : replica'[n].gs <= nn.issued
        /\ \A i \in DOMAIN nodes : replica'[nodes[i]].len >= bytesAcked /\ replica'[nodes[i]].st # "none"
    BY SMTT(30), <1>2, <1>3, <2>3, <2>4
  <2>6. pc \in Rebuilding
    BY Zenon, <1>1 DEF Rebuilding
  <2> DEFINE e == errorIndex'
  <2>7. e \in 0..Len(nodes) /\ TryAgain(e)
    BY Zenon, <1>4, <2>2
  <2> HIDE DEF e
  <2> QED BY Zenon, <1>1, <2>2, <2>3, <2>5, <2>6, <2>7, TryAgainStep
<1>5. CASE Connected(gs) /\ pc' = "update" /\ errorIndex' = 0 /\ UNCHANGED <<recovery, retry>>
  <2>1. SetUp(Len(nodes), gs) /\ sock' = TRUE /\ faults' = faults
    BY Zenon, <1>5 DEF Connected
  <2>2. conn' = [gs |-> gs, nodes |-> nodes, pos |-> [i \in 1..Len(nodes) |-> 0],
                 read |-> 0, stream |-> <<>>]
    BY Zenon, <1>5 DEF Connected
  <2>3. Len(nodes) \in 0..Len(nodes)
    BY <1>2
  <2>4. /\ replica' \in [DN -> Replica]
        /\ \A n \in DN : replica'[n].len <= bytesSent
        /\ \A i \in 1..Len(nodes) : /\ lastBlock.numBytes <= replica'[nodes[i]].len
                                    /\ replica'[nodes[i]].gs = gs
                                    /\ replica'[nodes[i]].st = IF stage = "CLOSE" THEN "final" ELSE "rbw"
        /\ \A n \in DN : (\A i \in 1..Len(nodes) : nodes[i] # n) => replica'[n] = replica[n]
        /\ \A n \in DN : replica'[n] = replica[n] \/ replica'[n].gs = gs
    BY <1>2, <2>1, <2>3, SetUpFacts
  <2>5. TypePipe'
    BY <1>1, <1>5 DEF IInv, TypePipe
  <2>6. TypeLocals'
    BY Zenon, <1>1, <1>5 DEF IInv, TypeLocals, PCs
  <2>7. TypeNet'
    BY <1>2, <2>1, <2>2 DEF TypeNet
  <2>8. TypeExt' /\ TypeCaller'
    BY Zenon, <1>1, <2>1, <2>4 DEF IInv, TypeExt, TypeCaller
  <2>9. Place'
    BY <1>1, <1>2, <1>5, <2>1 DEF IInv, Place, Setting, Rebuilding, Streaming, Waits
  <2>10. LastAlone'
    BY Zenon, <1>1, <1>5 DEF IInv, LastAlone
  <2>11. /\ conn'.nodes = nodes /\ conn'.gs = gs /\ conn'.stream = <<>>
         /\ \A i \in 1..Len(nodes) : conn'.pos[i] = 0
    BY Zenon, <2>2
  <2>12. Bytes'
    BY <1>1, <2>4, <2>11 DEF IInv, Bytes
  <2>13. Labels'
    BY <1>1, <2>11 DEF IInv, Labels
  <2>14. Delivered'
    BY <1>1, <1>2, <2>4, <2>11 DEF Delivered
  <2>15. Members'
    <3>1. \A i \in 1..Len(nodes) : replica'[nodes[i]].len \in Nat
      BY <1>2, <2>4 DEF Replica
    <3>2. \A i \in DOMAIN nodes : replica'[nodes[i]].len >= bytesAcked /\ replica'[nodes[i]].st # "none"
      BY Zenon, <1>2, <2>4, <3>1
    <3> QED BY Zenon, <1>1, <1>5, <3>2 DEF IInv, Members, AckedIsOnEveryNode, Rebuilding
  <2>16. Stamps'
    <3>1. \A n \in DN \ Range(nodes) : replica'[n].gs < gs
      <4>1. \A n \in DN \ Range(nodes) : \A i \in 1..Len(nodes) : nodes[i] # n
        BY Zenon, <1>2 DEF Range
      <4> QED BY Zenon, <1>3, <2>4, <4>1
    <3>2. \A n \in DN : replica'[n].gs <= nn.issued
      BY <1>2, <1>3, <2>4
    <3>3. stage = "CLOSE" => \A i \in DOMAIN nodes : replica'[nodes[i]].st = "final"
      BY Zenon, <1>2, <2>4
    <3>4. gs <= nn.issued
      BY <1>2
    <3> QED BY Zenon, <1>1, <1>5, <2>11, <3>1, <3>2, <3>3, <3>4 DEF IInv, Stamps, Streaming, Waits
  <2> QED BY Zenon, <2>5, <2>6, <2>7, <2>8, <2>9, <2>10, <2>12, <2>13, <2>14, <2>15, <2>16 DEF IInv
<1> QED BY Zenon, <1>4, <1>5 DEF RecoverStream

-----------------------------------------------------------------------------
(* The constructor.                                                        *)

\* A pipeline starts in the invariant, for a new block and for an append.
LEMMA InitIInv == ASSUME Init PROVE IInv
<1>1. /\ errorIndex = 0 /\ packets = <<>> /\ ret = "idle" /\ failover = FALSE /\ recovery = FALSE
      /\ retry = BlockWriteRetry /\ retryAlloc = 0 /\ excludedNodes = {} /\ gs = 0
      /\ sock = FALSE /\ conn = NoConn /\ alive = DN /\ faults = 0
      /\ packet = [seqno |-> -1, off |-> fed, end |-> fed, last |-> FALSE]
  BY Zenon DEF Init, InitRest
<1>2. TypeNet
  <2>1. /\ conn \in [gs : Nat, nodes : Seq(DN), pos : Seq(Nat), read : Nat, stream : Seq(Packet)]
        /\ conn.pos = <<>> /\ conn.nodes = <<>>
    BY <1>1 DEF NoConn
  <2> QED BY Zenon, <1>1, <2>1 DEF TypeNet
<1>3. /\ conn.nodes = <<>> /\ conn.stream = <<>>
  BY Zenon, <1>1 DEF NoConn
<1>4. Labels /\ Delivered
  BY <1>1, <1>3 DEF Labels, Delivered
<1>5. CASE InitCreate
  <2>1. /\ stage = "SETUP_CREATE" /\ pc = "locate" /\ nodes = <<>>
        /\ bytesSent = 0 /\ bytesAcked = 0 /\ fed = 0
        /\ lastBlock = [gs |-> 0, numBytes |-> 0]
        /\ replica = [n \in DN |-> NoReplica]
        /\ nn = [issued |-> 0, gs |-> 0, nodes |-> {}]
    BY Zenon, <1>5 DEF InitCreate
  <2>2. TypePipe /\ TypeCaller
    BY <1>1, <2>1 DEF TypePipe, TypeCaller, Stages, Packet
  <2>3. TypeLocals
    BY Zenon, <1>1, <2>1, PipelineAssumption DEF TypeLocals, PCs
  <2>4. TypeExt
    BY Zenon, <1>1, <2>1 DEF TypeExt, NoReplica, Replica
  <2>5. Place
    BY <1>1, <2>1, PipelineAssumption DEF Place, Setting, Rebuilding, Streaming, Waits
  <2>6. LastAlone
    BY <1>1, <2>1 DEF LastAlone
  <2>7. Bytes
    BY <1>1, <1>3, <2>1 DEF Bytes, NoReplica
  <2>8. Members
    BY <2>1 DEF Members, AckedIsOnEveryNode, IsInjective
  <2>9. Stamps
    BY <2>1 DEF Stamps, NoReplica, Streaming, Waits
  <2> QED BY Zenon, <1>2, <1>4, <2>2, <2>3, <2>4, <2>5, <2>6, <2>7, <2>8, <2>9 DEF IInv
<1>6. CASE InitAppend
  <2>1. /\ stage = "SETUP_APPEND" /\ pc = "build"
        /\ bytesSent = AppendLen /\ bytesAcked = AppendLen /\ fed = AppendLen
        /\ lastBlock = [gs |-> 1, numBytes |-> AppendLen]
        /\ replica = [n \in DN |-> IF n \in Range(nodes)
                                   THEN [st |-> "final", len |-> AppendLen, gs |-> 1]
                                   ELSE NoReplica]
        /\ nn = [issued |-> 1, gs |-> 1, nodes |-> Range(nodes)]
    BY Zenon, <1>6 DEF InitAppend
  <2>2. PICK k \in 1..Replication : nodes \in Placements(DN, k)
    BY Zenon, <1>6 DEF InitAppend
  <2>3. nodes \in [1..k -> DN] /\ IsInjective(nodes) /\ k \in Nat \ {0}
    BY <2>2, PipelineAssumption DEF Placements
  <2>4. nodes \in Seq(DN) /\ Len(nodes) = k /\ DOMAIN nodes = 1..k /\ nodes # <<>> /\ Range(nodes) \subseteq DN
    BY <2>3 DEF Range
  <2>5. \A i \in DOMAIN nodes : replica[nodes[i]] = [st |-> "final", len |-> AppendLen, gs |-> 1]
    BY Zenon, <2>1, <2>3, <2>4 DEF Range
  <2>6. TypePipe /\ TypeCaller
    BY <1>1, <2>1, <2>4, PipelineAssumption DEF TypePipe, TypeCaller, Stages, Packet
  <2>7. TypeLocals
    BY Zenon, <1>1, <2>1, PipelineAssumption DEF TypeLocals, PCs
  <2>8. TypeExt
    BY Zenon, <1>1, <2>1, <2>4, PipelineAssumption DEF TypeExt, NoReplica, Replica
  <2>9. Place
    BY <1>1, <2>1, <2>4, PipelineAssumption DEF Place, Setting, Rebuilding, Streaming, Waits
  <2>10. LastAlone
    BY <1>1, <2>1 DEF LastAlone
  <2>11. Bytes
    BY <1>1, <1>3, <2>1, PipelineAssumption DEF Bytes, NoReplica
  <2>12. Members
    <3>1. \A i \in DOMAIN nodes : replica[nodes[i]].st = "final" /\ replica[nodes[i]].len >= bytesAcked
      BY <2>1, <2>5, PipelineAssumption
    <3> QED BY Zenon, <2>3, <3>1 DEF Members, AckedIsOnEveryNode
  <2>13. Stamps
    BY <1>1, <2>1 DEF Stamps, NoReplica, Streaming, Waits
  <2> QED BY Zenon, <1>2, <1>4, <2>6, <2>7, <2>8, <2>9, <2>10, <2>11, <2>12, <2>13 DEF IInv
<1> QED BY Zenon, <1>5, <1>6 DEF Init

=============================================================================
