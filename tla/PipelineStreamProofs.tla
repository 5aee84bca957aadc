------------------------ MODULE PipelineStreamProofs ------------------------
(***************************************************************************)
(* The steps of send, flush and close, of the thread that writes packets   *)
(* and reads acks, and of the datanodes keep IInv of Pipeline.             *)
(***************************************************************************)
EXTENDS Pipeline, TLAPS

-----------------------------------------------------------------------------
(* Facts about sequences.                                                  *)

\* A sequence that is not empty has a first and a last element.
LEMMA NonEmptyFacts ==
    ASSUME NEW S, NEW s \in Seq(S), s # <<>>
    PROVE  Len(s) \in Nat \ {0} /\ 1 \in DOMAIN s /\ Len(s) \in DOMAIN s /\ DOMAIN s = 1..Len(s)
OBVIOUS

\* What the concatenation of two sequences holds, and where.
LEMMA ConcatFacts ==
    ASSUME NEW S, NEW s \in Seq(S), NEW t \in Seq(S)
    PROVE  /\ s \o t \in Seq(S)
           /\ Len(s \o t) = Len(s) + Len(t)
           /\ \A k \in 1..Len(s) : (s \o t)[k] = s[k]
           /\ \A k \in 1..Len(t) : (s \o t)[Len(s) + k] = t[k]
           /\ \A k \in 1..Len(s \o t) : (s \o t)[k] \in {s[i] : i \in 1..Len(s)} \cup {t[i] : i \in 1..Len(t)}
<1>1. s \o t \in Seq(S) /\ Len(s \o t) = Len(s) + Len(t)
  OBVIOUS
<1>2. \A k \in 1..Len(s) : (s \o t)[k] = s[k]
  OBVIOUS
<1>3. \A k \in 1..Len(t) : (s \o t)[Len(s) + k] = t[k]
  OBVIOUS
<1>4. ASSUME NEW k \in 1..Len(s \o t)
      PROVE  (s \o t)[k] \in {s[i] : i \in 1..Len(s)} \cup {t[i] : i \in 1..Len(t)}
  <2>1. CASE k <= Len(s)
    BY <1>2, <2>1
  <2>2. CASE k > Len(s)
    <3>1. k - Len(s) \in 1..Len(t) /\ Len(s) + (k - Len(s)) = k
      BY <1>1, <2>2
    <3>2. (s \o t)[k] = t[k - Len(s)]
      BY Zenon, <1>3, <3>1
    <3> QED BY Zenon, <3>1, <3>2
  <2> QED BY <1>1, <2>1, <2>2
<1> QED BY Zenon, <1>1, <1>2, <1>3, <1>4

\* The fields of the packets that are pending or on the connection.
LEMMA PacketTypes ==
    ASSUME IInv
    PROVE  /\ \A i \in DOMAIN packets :
                /\ packets[i] \in Packet /\ packets[i].seqno \in Int
                /\ packets[i].end \in Nat /\ packets[i].last \in BOOLEAN
           /\ \A k \in DOMAIN conn.stream :
                /\ conn.stream[k] \in Packet /\ conn.stream[k].seqno \in Int
                /\ conn.stream[k].end \in Nat /\ conn.stream[k].last \in BOOLEAN
<1>1. \A p \in Packet : p.seqno \in Int /\ p.end \in Nat /\ p.last \in BOOLEAN
  BY Zenon DEF Packet
<1>2. packets \in Seq(Packet) /\ conn.stream \in Seq(Packet)
  BY Zenon DEF IInv, TypePipe, TypeNet
<1>3. /\ \A i \in DOMAIN packets : packets[i] \in Packet
      /\ \A k \in DOMAIN conn.stream : conn.stream[k] \in Packet
  BY <1>2
<1> QED BY Zenon, <1>1, <1>3

-----------------------------------------------------------------------------
(* Every operation of the caller keeps the invariant.                      *)

\* A packet that is handed over is the newest of the pending ones.
LEMMA HandoverFacts ==
    ASSUME IInv, NEW off \in Nat, NEW end \in Nat, NEW last \in BOOLEAN, Handover(off, end, last),
           off <= fed, end >= fed \/ (packets = <<>> /\ end = off)
    PROVE  /\ packet' \in Packet /\ packets' \in Seq(Packet) /\ fed' \in Nat
           /\ packet' = [seqno |-> packet.seqno + 1, off |-> off, end |-> end, last |-> last]
           /\ Len(packets') = Len(packets) + 1 /\ packets'[Len(packets')] = packet'
           /\ \A i \in 1..Len(packets) : packets'[i] = packets[i]
           /\ fed' >= fed /\ fed' >= end /\ fed' \in {fed, end}
<1>1. /\ packet.seqno \in Int /\ packets \in Seq(Packet) /\ fed \in Nat
  BY Zenon DEF IInv, TypeCaller, TypePipe, Packet
<1>2. /\ packet' = [seqno |-> packet.seqno + 1, off |-> off, end |-> end, last |-> last]
      /\ packets' = Append(packets, packet') /\ fed' = Max2(fed, end)
  BY Zenon DEF Handover
<1>3. packet' \in Packet
  BY <1>1, <1>2 DEF Packet
<1>4. fed' \in Nat /\ fed' >= fed /\ fed' >= end /\ fed' \in {fed, end}
  BY <1>1, <1>2 DEF Max2
<1> QED BY <1>1, <1>2, <1>3, <1>4

\* The numbers of the pending and the written packets stay labels of packets.
LEMMA HandoverLabels ==
    ASSUME IInv, packets' \in Seq(Packet), packet'.seqno = packet.seqno + 1,
           Len(packets') = Len(packets) + 1, packets'[Len(packets')] = packet',
           \A i \in 1..Len(packets) : packets'[i] = packets[i], UNCHANGED conn
    PROVE  Labels'
<1>1. /\ packet.seqno \in Int /\ packets \in Seq(Packet) /\ conn.stream \in Seq(Packet)
  BY Zenon DEF IInv, TypeCaller, TypePipe, TypeNet, Packet
<1>2. /\ \A i \in DOMAIN packets : packets[i].seqno \in Int
      /\ \A k \in DOMAIN conn.stream : conn.stream[k].seqno \in Int
  BY Zenon, PacketTypes
<1>3. \A i \in DOMAIN packets' : (i \in DOMAIN packets /\ packets'[i] = packets[i]) \/ packets'[i] = packet'
  BY <1>1
<1>4. /\ \A i \in DOMAIN packets' : packets'[i].seqno <= packet'.seqno
      /\ \A k \in DOMAIN conn.stream : conn.stream[k].seqno < packet'.seqno
      /\ \A i \in DOMAIN packets : packets[i].seqno < packet'.seqno
  BY SMTT(30), <1>1, <1>2, <1>3 DEF IInv, Labels
<1>5. /\ \A i \in DOMAIN packets' : packets'[i].seqno = packet'.seqno => packets'[i] = packet'
      /\ \A k \in DOMAIN conn.stream : conn.stream[k].seqno = packet'.seqno => conn.stream[k] = packet'
  BY <1>1, <1>2, <1>3, <1>4
<1>6. \A i, j \in DOMAIN packets' : packets'[i].seqno = packets'[j].seqno => packets'[i] = packets'[j]
  BY SMTT(30), <1>1, <1>2, <1>3, <1>4 DEF IInv, Labels
<1>7. \A i \in DOMAIN packets', k \in DOMAIN conn.stream :
          packets'[i].seqno = conn.stream[k].seqno => packets'[i] = conn.stream[k]
  BY SMTT(30), <1>1, <1>2, <1>3, <1>4 DEF IInv, Labels
<1>8. \A k \in DOMAIN conn.stream : conn.stream[k].seqno <= packet'.seqno
  BY <1>1, <1>2, <1>4
<1> QED BY Zenon, <1>4, <1>5, <1>6, <1>7, <1>8 DEF Labels

\* send takes a packet over.
LEMMA SendStep == ASSUME IInv, Send PROVE IInv'
<1>1. PICK off \in packet.off..fed, end \in fed..MaxBytes : Handover(off, end, FALSE)
  BY Zenon DEF Send
<1>2. /\ off \in Nat /\ end \in Nat /\ off <= fed /\ end >= fed /\ fed \in Nat
  BY PipelineAssumption DEF IInv, TypeCaller, Bytes, Packet
<1>3. /\ packet' \in Packet /\ packets' \in Seq(Packet) /\ fed' \in Nat
      /\ packet' = [seqno |-> packet.seqno + 1, off |-> off, end |-> end, last |-> FALSE]
      /\ Len(packets') = Len(packets) + 1 /\ packets'[Len(packets')] = packet'
      /\ \A i \in 1..Len(packets) : packets'[i] = packets[i]
      /\ fed' >= fed /\ fed' >= end /\ fed' \in {fed, end}
  BY Zenon, <1>1, <1>2, HandoverFacts
<1>4. /\ UNCHANGED <<stage, nodes, errorIndex, bytesSent, bytesAcked, lastBlock, ret, recovery,
                     retry, retryAlloc, excludedNodes, gs, sock, conn, alive, replica, nn, faults>>
      /\ pc = "idle" /\ pc' \in {"full", "write"} /\ failover' = FALSE
  BY Zenon DEF Send, Pushed, net, ext
<1>5. stage = "DATA_STREAMING" /\ sock /\ packets \in Seq(Packet)
  BY Zenon, <1>4 DEF IInv, Place, TypePipe, Streaming
<1>6. TypePipe' /\ TypeNet' /\ TypeExt' /\ TypeCaller'
  BY Zenon, <1>3, <1>4 DEF IInv, TypePipe, TypeNet, TypeExt, TypeCaller, Packet
<1>7. TypeLocals'
  BY Zenon, <1>4 DEF IInv, TypeLocals, PCs, Waits
<1>8. Place'
  BY Zenon, <1>4, <1>5 DEF IInv, Place, Setting, Rebuilding, Streaming, Waits
<1>9. \A i \in DOMAIN packets' : (i \in DOMAIN packets /\ packets'[i] = packets[i]) \/ packets'[i] = packet'
  BY <1>3, <1>5
<1>10. LastAlone'
  BY <1>3, <1>4, <1>5, <1>9 DEF IInv, LastAlone
<1>11. Bytes'
  <2>1. /\ bytesAcked <= fed' /\ bytesSent <= fed' /\ packet'.end <= fed' /\ packet'.off <= fed'
    BY <1>2, <1>3 DEF IInv, Bytes, TypePipe
  <2>2. \A i \in DOMAIN packets' : packets'[i].end <= fed'
    <3>1. \A i \in DOMAIN packets : packets[i].end \in Nat /\ packets[i].end <= fed
      BY Zenon, PacketTypes DEF IInv, Bytes
    <3> QED BY <1>2, <1>3, <1>9, <3>1
  <2>3. Len(packets') \in DOMAIN packets' /\ packets'[Len(packets')].end = fed'
    BY <1>2, <1>3, <1>5
  <2> QED BY Zenon, <1>4, <1>5, <2>1, <2>2, <2>3 DEF IInv, Bytes
<1>12. Labels'
  BY <1>3, <1>4, HandoverLabels
<1>13. Delivered' /\ Members' /\ Stamps'
  BY Zenon, <1>4, <1>5
  DEF IInv, Delivered, Members, Stamps, AckedIsOnEveryNode, Joining, Rebuilding, Streaming, Waits
<1> QED BY Zenon, <1>6, <1>7, <1>8, <1>10, <1>11, <1>12, <1>13 DEF IInv

\* flush and close start to wait.
LEMMA FlushCloseStep == ASSUME IInv, Flush \/ Close PROVE IInv'
<1>1. /\ pc = "idle" /\ pc' \in {"flush", "drain"} /\ failover' = FALSE
      /\ UNCHANGED <<stage, nodes, errorIndex, packets, bytesSent, bytesAcked, lastBlock, ret,
                     recovery, retry, retryAlloc, excludedNodes, gs, sock, conn, alive, replica,
                     nn, faults, fed, packet>>
  BY Zenon DEF Flush, Close, pipe, net, ext, caller
<1>2. TypePipe' /\ TypeNet' /\ TypeExt' /\ TypeCaller'
  BY Zenon, <1>1 DEF IInv, TypePipe, TypeNet, TypeExt, TypeCaller
<1>3. TypeLocals'
  BY Zenon, <1>1 DEF IInv, TypeLocals, PCs, Waits
<1>4. Place'
  BY Zenon, <1>1 DEF IInv, Place, Setting, Rebuilding, Streaming, Waits
<1>5. LastAlone' /\ Bytes' /\ Labels' /\ Delivered'
  BY <1>1 DEF IInv, LastAlone, Bytes, Labels, Delivered
<1>6. Members' /\ Stamps'
  BY Zenon, <1>1 DEF IInv, Members, Stamps, AckedIsOnEveryNode, Joining, Rebuilding, Streaming, Waits
<1> QED BY Zenon, <1>2, <1>3, <1>4, <1>5, <1>6 DEF IInv

-----------------------------------------------------------------------------
(* Every step of the thread that writes and reads keeps the invariant.     *)

\* Writing packets that are pending, or the packet at hand.
LEMMA PutFacts ==
    ASSUME IInv, NEW ps \in Seq(Packet), Put(ps), SentThrough(ps), UNCHANGED <<packets, packet, fed>>,
           \A i \in DOMAIN ps : ps[i] = packet \/ \E j \in DOMAIN packets : ps[i] = packets[j]
    PROVE  /\ TypeNet' <=> sock' \in BOOLEAN
           /\ bytesSent' \in Nat /\ bytesSent' >= bytesSent /\ bytesSent' <= fed
           /\ \A k \in DOMAIN conn'.stream : conn'.stream[k].end <= bytesSent'
           /\ Labels'
           /\ conn'.nodes = conn.nodes /\ conn'.pos = conn.pos /\ conn'.gs = conn.gs
           /\ conn'.read = conn.read
           /\ Len(conn'.stream) >= Len(conn.stream)
           /\ \A k \in 1..Len(conn.stream) : conn'.stream[k] = conn.stream[k]
<1>1. /\ conn \in [gs : Nat, nodes : Seq(DN), pos : Seq(Nat), read : Nat, stream : Seq(Packet)]
      /\ Len(conn.pos) = Len(conn.nodes) /\ bytesSent \in Nat /\ fed \in Nat
      /\ packet.seqno \in Int /\ packet.end \in Nat
  BY Zenon DEF IInv, TypeNet, TypePipe, TypeCaller, Packet
<1>2. conn' = [conn EXCEPT !.stream = conn.stream \o ps]
  BY Zenon DEF Put
<1>3. /\ conn'.stream = conn.stream \o ps
      /\ conn'.nodes = conn.nodes /\ conn'.pos = conn.pos /\ conn'.gs = conn.gs
      /\ conn'.read = conn.read
  BY Zenon, <1>1, <1>2
<1>4. conn.stream \in Seq(Packet)
  BY Zenon, <1>1
<1>5. /\ conn'.stream \in Seq(Packet) /\ Len(conn'.stream) = Len(conn.stream) + Len(ps)
      /\ \A k \in 1..Len(conn.stream) : conn'.stream[k] = conn.stream[k]
      /\ \A k \in 1..Len(conn'.stream) :
            conn'.stream[k] \in {conn.stream[i] : i \in 1..Len(conn.stream)} \cup {ps[i] : i \in 1..Len(ps)}
  <2>1. /\ conn.stream \o ps \in Seq(Packet) /\ Len(conn.stream \o ps) = Len(conn.stream) + Len(ps)
        /\ \A k \in 1..Len(conn.stream) : (conn.stream \o ps)[k] = conn.stream[k]
        /\ \A k \in 1..Len(conn.stream \o ps) :
              (conn.stream \o ps)[k] \in {conn.stream[i] : i \in 1..Len(conn.stream)} \cup {ps[i] : i \in 1..Len(ps)}
    BY <1>4, ConcatFacts
  <2> QED BY Zenon, <1>3, <2>1
<1>6. TypeNet' <=> sock' \in BOOLEAN
  BY Zenon, <1>1, <1>2, <1>3, <1>5 DEF TypeNet
<1>7. \A i \in DOMAIN ps : ps[i] \in Packet /\ ps[i].end \in Nat /\ ps[i].seqno \in Int
  <2>1. \A p \in Packet : p.seqno \in Int /\ p.end \in Nat
    BY Zenon DEF Packet
  <2>2. \A i \in DOMAIN ps : ps[i] \in Packet
    OBVIOUS
  <2> QED BY Zenon, <2>1, <2>2
<1>8. \A i \in DOMAIN ps : ps[i].end <= fed
  BY Zenon DEF IInv, Bytes
<1>9. /\ bytesSent' \in Nat /\ bytesSent' >= bytesSent /\ bytesSent' <= fed
      /\ \A i \in DOMAIN ps : bytesSent' >= ps[i].end
  <2>1. /\ bytesSent' \in {bytesSent} \cup {ps[i].end : i \in DOMAIN ps} /\ bytesSent' >= bytesSent
        /\ \A i \in DOMAIN ps : bytesSent' >= ps[i].end
    BY Zenon DEF SentThrough
  <2>2. bytesSent <= fed
    BY Zenon DEF IInv, Bytes
  <2> QED BY Zenon, <1>1, <1>7, <1>8, <2>1, <2>2
<1>10. ASSUME NEW k \in DOMAIN conn'.stream
       PROVE  \/ \E i \in DOMAIN conn.stream : conn'.stream[k] = conn.stream[i]
              \/ \E i \in DOMAIN ps : conn'.stream[k] = ps[i]
  <2>1. DOMAIN conn'.stream = 1..Len(conn'.stream)
    BY <1>5
  <2>2. \/ \E i \in 1..Len(conn.stream) : conn'.stream[k] = conn.stream[i]
        \/ \E i \in 1..Len(ps) : conn'.stream[k] = ps[i]
    BY ZenonT(30), <1>5, <2>1
  <2> QED BY <1>4, <2>2
<1>11. \A k \in DOMAIN conn'.stream : conn'.stream[k].end <= bytesSent'
  <2>1. \A k \in DOMAIN conn.stream : conn.stream[k].end \in Nat /\ conn.stream[k].end <= bytesSent
    BY Zenon, PacketTypes DEF IInv, Bytes
  <2> SUFFICES ASSUME NEW k \in DOMAIN conn'.stream PROVE conn'.stream[k].end <= bytesSent'
    BY Zenon
  <2>2. CASE \E i \in DOMAIN conn.stream : conn'.stream[k] = conn.stream[i]
    BY <1>1, <1>9, <2>1, <2>2
  <2>3. CASE \E i \in DOMAIN ps : conn'.stream[k] = ps[i]
    BY Zenon, <1>7, <1>9, <2>3
  <2> QED BY Zenon, <1>10, <2>2, <2>3
<1>12. Labels'
  <2>1. \A i \in DOMAIN packets : packets[i].seqno \in Int
    BY Zenon, PacketTypes
  <2>2. \A k \in DOMAIN conn'.stream :
          /\ conn'.stream[k].seqno <= packet.seqno
          /\ conn'.stream[k].seqno = packet.seqno => conn'.stream[k] = packet
          /\ \A i \in DOMAIN packets : packets[i].seqno = conn'.stream[k].seqno => packets[i] = conn'.stream[k]
    <3> SUFFICES ASSUME NEW k \in DOMAIN conn'.stream
                 PROVE  /\ conn'.stream[k].seqno <= packet.seqno
                        /\ conn'.stream[k].seqno = packet.seqno => conn'.stream[k] = packet
                        /\ \A i \in DOMAIN packets :
                             packets[i].seqno = conn'.stream[k].seqno => packets[i] = conn'.stream[k]
      BY Zenon
    <3>1. CASE \E i \in DOMAIN conn.stream : conn'.stream[k] = conn.stream[i]
      BY <3>1 DEF IInv, Labels
    <3>2. CASE conn'.stream[k] = packet
      BY <1>1, <3>2 DEF IInv, Labels
    <3>3. CASE \E j \in DOMAIN packets : conn'.stream[k] = packets[j]
      BY <3>3 DEF IInv, Labels
    <3> QED BY <1>10, <3>1, <3>2, <3>3
  <2> QED BY <2>2 DEF IInv, Labels
<1> QED BY <1>3, <1>4, <1>5, <1>6, <1>9, <1>11, <1>12

\* What the writing statement writes is pending or at hand, and so is a part of it.
LEMMA ToWriteFacts ==
    ASSUME IInv
    PROVE  /\ ToWrite \in Seq(Packet)
           /\ \A i \in DOMAIN ToWrite :
                 ToWrite[i] = packet \/ \E j \in DOMAIN packets : ToWrite[i] = packets[j]
           /\ \A n \in 0..Len(ToWrite) - 1 :
                 /\ SubSeq(ToWrite, 1, n) \in Seq(Packet)
                 /\ \A i \in DOMAIN SubSeq(ToWrite, 1, n) :
                      \/ SubSeq(ToWrite, 1, n)[i] = packet
                      \/ \E j \in DOMAIN packets : SubSeq(ToWrite, 1, n)[i] = packets[j]
<1>1. packets \in Seq(Packet) /\ packet \in Packet
  BY Zenon DEF IInv, TypePipe, TypeCaller
<1>2. ToWrite \in Seq(Packet)
  BY <1>1 DEF ToWrite
<1>3. \A i \in DOMAIN ToWrite : ToWrite[i] = packet \/ \E j \in DOMAIN packets : ToWrite[i] = packets[j]
  BY <1>1 DEF ToWrite
<1>4. ASSUME NEW n \in 0..Len(ToWrite) - 1
      PROVE  /\ SubSeq(ToWrite, 1, n) \in Seq(Packet) /\ DOMAIN SubSeq(ToWrite, 1, n) \subseteq DOMAIN ToWrite
             /\ \A i \in DOMAIN SubSeq(ToWrite, 1, n) : SubSeq(ToWrite, 1, n)[i] = ToWrite[i]
  BY <1>2
<1> QED BY Zenon, <1>2, <1>3, <1>4

\* The parts of the invariant that a longer stream of packets leaves alone.
LEMMA WrittenFacts ==
    ASSUME IInv, NEW ps \in Seq(Packet), Put(ps), SentThrough(ps),
           \A i \in DOMAIN ps : ps[i] = packet \/ \E j \in DOMAIN packets : ps[i] = packets[j],
           UNCHANGED <<packets, packet, fed, stage, nodes, bytesAcked, lastBlock, replica>>,
           sock' \in BOOLEAN, sock' => sock
    PROVE  TypeNet' /\ bytesSent' \in Nat /\ Bytes' /\ Labels' /\ Delivered'
<1>1. /\ TypeNet' <=> sock' \in BOOLEAN
      /\ bytesSent' \in Nat /\ bytesSent' >= bytesSent /\ bytesSent' <= fed
      /\ \A k \in DOMAIN conn'.stream : conn'.stream[k].end <= bytesSent'
      /\ Labels'
      /\ conn'.nodes = conn.nodes /\ conn'.pos = conn.pos /\ conn'.gs = conn.gs
      /\ Len(conn'.stream) >= Len(conn.stream)
      /\ \A k \in 1..Len(conn.stream) : conn'.stream[k] = conn.stream[k]
  BY Zenon, PutFacts
<1>2. /\ replica \in [DN -> Replica] /\ bytesSent \in Nat /\ conn.stream \in Seq(Packet)
      /\ conn.pos \in Seq(Nat) /\ Len(conn.pos) = Len(conn.nodes) /\ conn.nodes \in Seq(DN)
      /\ conn'.stream \in Seq(Packet)
  BY Zenon, <1>1 DEF IInv, TypeExt, TypePipe, TypeNet
<1>3. Bytes'
  <2>1. \A n \in DN : replica[n].len \in Nat /\ replica[n].len <= bytesSent
    BY Zenon, <1>2 DEF IInv, Bytes, Replica
  <2>2. \A n \in DN : replica'[n].len <= bytesSent'
    BY <1>1, <1>2, <2>1
  <2> QED BY Zenon, <1>1, <2>2 DEF IInv, Bytes
<1>4. Delivered'
  <2>1. \A i \in DOMAIN conn.nodes : conn.pos[i] \in Nat /\ conn.pos[i] <= Len(conn.stream)
    BY <1>2 DEF IInv, Delivered
  <2>2. \A i \in DOMAIN conn.nodes : conn.pos[i] <= Len(conn'.stream)
    BY <1>1, <1>2, <2>1
  <2>3. \A i \in DOMAIN conn.nodes : \A k \in 1..conn.pos[i] : k \in 1..Len(conn.stream)
    BY SMTT(30), <1>2, <2>1
  <2> QED BY <1>1, <2>2, <2>3 DEF IInv, Delivered
<1> QED BY Zenon, <1>1, <1>3, <1>4

\* A write keeps the invariant.
LEMMA WriteStep == ASSUME IInv, Write PROVE IInv'
<1>1. /\ Put(ToWrite) /\ SentThrough(ToWrite) /\ failover' = FALSE
      /\ pc \in Waits \cup {"write"} /\ pc' = IF pc = "write" THEN "poll" ELSE pc
      /\ UNCHANGED <<stage, nodes, errorIndex, packets, bytesAcked, lastBlock, ret, recovery,
                     retry, retryAlloc, excludedNodes, gs, sock, alive, replica, nn, faults,
                     fed, packet>>
  BY Zenon DEF Write, Writing, ext, caller
<1>2. /\ ToWrite \in Seq(Packet)
      /\ \A i \in DOMAIN ToWrite : ToWrite[i] = packet \/ \E j \in DOMAIN packets : ToWrite[i] = packets[j]
  BY Zenon, ToWriteFacts
<1>3. sock' \in BOOLEAN /\ (sock' => sock)
  BY Zenon, <1>1 DEF IInv, TypeNet
<1>4. TypeNet' /\ bytesSent' \in Nat /\ Bytes' /\ Labels' /\ Delivered'
  BY Zenon, <1>1, <1>2, <1>3, WrittenFacts
<1>5. TypePipe' /\ TypeExt' /\ TypeCaller'
  BY Zenon, <1>1, <1>4 DEF IInv, TypePipe, TypeExt, TypeCaller
<1>6. TypeLocals'
  BY Zenon, <1>1 DEF IInv, TypeLocals, PCs, Waits
<1>7. Place'
  BY Zenon, <1>1 DEF IInv, Place, Setting, Rebuilding, Streaming, Waits
<1>8. LastAlone'
  BY Zenon, <1>1 DEF IInv, LastAlone, Waits
<1>9. Members'
  BY Zenon, <1>1 DEF IInv, Members, AckedIsOnEveryNode, Joining, Rebuilding, Streaming, Waits
<1>10. Stamps'
  <2>1. conn'.gs = conn.gs
    BY Zenon, <1>1 DEF Put, IInv, TypeNet
  <2> QED BY Zenon, <1>1, <2>1 DEF IInv, Stamps, Streaming, Waits
<1> QED BY Zenon, <1>4, <1>5, <1>6, <1>7, <1>8, <1>9, <1>10 DEF IInv

\* The handlers of HdfsIOException keep the invariant.
LEMMA IOErrorStep ==
    ASSUME IInv, NEW i \in 0..Len(nodes), IOError(i),
           pc \in Waits \cup {"write", "poll"}, pc \in Waits => packets # <<>>,
           UNCHANGED <<stage, nodes, packets, bytesAcked, lastBlock, retryAlloc, gs, alive, replica,
                       nn, fed, packet>>,
           bytesSent' \in Nat, faults' \in Nat, TypeNet', Bytes', Labels', Delivered'
    PROVE  IInv'
<1>1. /\ errorIndex' = IF i = 0 THEN 1 ELSE i
      /\ sock' = FALSE /\ pc' = "build" /\ ret' = IF pc = "poll" THEN "write" ELSE pc
      /\ failover' = TRUE /\ recovery' = TRUE /\ retry' = BlockWriteRetry /\ excludedNodes' = {}
  BY Zenon DEF IOError, Blame
<1>2. /\ nodes # <<>> /\ nodes \in Seq(DN) /\ stage \in {"DATA_STREAMING", "CLOSE"}
      /\ pc \in {"full", "flush", "drain"} => stage = "DATA_STREAMING"
      /\ pc = "final" => stage = "CLOSE"
  BY Zenon DEF IInv, Place, TypePipe, Streaming, Waits
<1>3. errorIndex' \in 1..Len(nodes)
  BY <1>1, <1>2
<1>4. TypePipe'
  BY <1>2, <1>3 DEF IInv, TypePipe
<1>5. TypeExt' /\ TypeCaller'
  BY Zenon DEF IInv, TypeExt, TypeCaller
<1>6. TypeLocals'
  BY Zenon, <1>1, PipelineAssumption DEF IInv, TypeLocals, PCs, Waits
<1>7. Place'
  BY <1>1, <1>2, <1>3, PipelineAssumption DEF Place, Setting, Rebuilding, Streaming, Waits
<1>8. LastAlone'
  BY Zenon, <1>1, <1>2 DEF IInv, LastAlone, Waits
<1>9. Members'
  BY Zenon, <1>1, <1>2 DEF IInv, Members, AckedIsOnEveryNode, Joining, Rebuilding, Streaming, Waits
<1>10. Stamps'
  BY Zenon, <1>1 DEF IInv, Stamps, Streaming, Waits
<1> QED BY Zenon, <1>4, <1>5, <1>6, <1>7, <1>8, <1>9, <1>10 DEF IInv

\* A write that fails part of the way keeps the invariant.
LEMMA WriteFailsStep == ASSUME IInv, WriteFails PROVE IInv'
<1>1. PICK k \in 0..Len(ToWrite) - 1 : Put(SubSeq(ToWrite, 1, k)) /\ SentThrough(SubSeq(ToWrite, 1, k))
  BY Zenon DEF WriteFails
<1>2. /\ pc \in Waits \cup {"write"} /\ (pc \in Waits => packets # <<>>) /\ IOError(0)
      /\ UNCHANGED <<stage, nodes, packets, bytesAcked, lastBlock, retryAlloc, gs, alive, replica,
                     nn, fed, packet>>
      /\ faults' \in Nat
  BY DEF WriteFails, Writing, Waited, Waits, Explained, Fault, IInv, TypeExt, ext, caller
<1>3. /\ SubSeq(ToWrite, 1, k) \in Seq(Packet)
      /\ \A i \in DOMAIN SubSeq(ToWrite, 1, k) :
            \/ SubSeq(ToWrite, 1, k)[i] = packet
            \/ \E j \in DOMAIN packets : SubSeq(ToWrite, 1, k)[i] = packets[j]
  BY Zenon, ToWriteFacts
<1>4. sock' = FALSE
  BY Zenon, <1>2 DEF IOError
<1>5. TypeNet' /\ bytesSent' \in Nat /\ Bytes' /\ Labels' /\ Delivered'

  <2> QED BY Zenon, <1>1, <1>2, <1>3, <1>4, WrittenFacts
<1>6. 0 \in 0..Len(nodes)
  BY DEF IInv, TypePipe
<1> QED BY Zenon, <1>2, <1>5, <1>6, IOErrorStep

\* A timeout leaves everything as it is.
LEMMA TimeoutStep == ASSUME IInv, Timeout PROVE IInv'
<1>1. /\ pc \in Waits \cup {"write", "poll"} /\ pc' = "failed" /\ faults' \in Nat
      /\ UNCHANGED <<stage, nodes, errorIndex, packets, bytesSent, bytesAcked, lastBlock, ret,
                     failover, recovery, retry, retryAlloc, excludedNodes, gs, sock, conn, alive,
                     replica, nn, fed, packet>>
  BY DEF Timeout, Explained, Fault, Fails, IInv, TypeExt, pipe, locals, net, ext, caller
<1>2. TypePipe' /\ TypeNet' /\ TypeExt' /\ TypeCaller'
  BY Zenon, <1>1 DEF IInv, TypePipe, TypeNet, TypeExt, TypeCaller
<1>3. TypeLocals'
  BY Zenon, <1>1 DEF IInv, TypeLocals, PCs
<1>4. Place'
  BY ZenonT(30), <1>1 DEF IInv, Place, Setting, Rebuilding, Streaming, Waits
<1>5. LastAlone' /\ Bytes' /\ Labels' /\ Delivered'
  BY <1>1 DEF IInv, LastAlone, Bytes, Labels, Delivered
<1>6. Members' /\ Stamps'
  BY Zenon, <1>1 DEF IInv, Members, Stamps, AckedIsOnEveryNode, Joining, Rebuilding, Streaming, Waits
<1> QED BY Zenon, <1>2, <1>3, <1>4, <1>5, <1>6 DEF IInv

\* poll finds nothing: send returns, or close goes on to wait.
LEMMA NothingToReadStep == ASSUME IInv, NothingToRead PROVE IInv'
<1>1. /\ pc = "poll" /\ pc' = IF stage = "CLOSE" THEN "final" ELSE "idle"
      /\ UNCHANGED <<stage, nodes, errorIndex, packets, bytesSent, bytesAcked, lastBlock, ret,
                     failover, recovery, retry, retryAlloc, excludedNodes, gs, sock, conn, alive,
                     replica, nn, fed, packet, faults>>
  BY Zenon DEF NothingToRead, Returned, pipe, locals, net, ext, caller
<1>2. TypePipe' /\ TypeNet' /\ TypeExt' /\ TypeCaller'
  BY Zenon, <1>1 DEF IInv, TypePipe, TypeNet, TypeExt, TypeCaller
<1>3. TypeLocals'
  BY Zenon, <1>1 DEF IInv, TypeLocals, PCs, Waits
<1>4. Place'
  BY Zenon, <1>1 DEF IInv, Place, Setting, Rebuilding, Streaming, Waits
<1>5. LastAlone' /\ Bytes' /\ Labels' /\ Delivered'
  BY <1>1 DEF IInv, LastAlone, Bytes, Labels, Delivered
<1>6. Members'
  BY Zenon, <1>1 DEF IInv, Members, AckedIsOnEveryNode, Joining, Rebuilding, Streaming, Waits
<1>7. Stamps'
  BY Zenon, <1>1 DEF IInv, Stamps, LastAlone, Streaming, Waits
<1> QED BY Zenon, <1>2, <1>3, <1>4, <1>5, <1>6, <1>7 DEF IInv

\* A failed read, or an ack that reports a node.
LEMMA ReadFailsStep == ASSUME IInv, ReadFails PROVE IInv'
<1>1. /\ pc \in Waits \cup {"poll"} /\ (pc \in Waits => packets # <<>>)
      /\ UNCHANGED <<stage, nodes, packets, bytesSent, bytesAcked, lastBlock, retryAlloc, gs, conn,
                     alive, replica, nn, fed, packet>>
  BY Zenon DEF ReadFails, Reading, Waited, Waits, ext, caller
<1>2. nodes \in Seq(DN) /\ 0 \in 0..Len(nodes) /\ faults \in Nat /\ bytesSent \in Nat
  BY DEF IInv, TypePipe, TypeExt
<1>3. PICK i \in 0..Len(nodes) : IOError(i) /\ faults' \in Nat
  <2>1. CASE \E j \in DOMAIN nodes : Explained(<<nodes[j]>>) /\ IOError(j)
    <3>1. PICK j \in DOMAIN nodes : Explained(<<nodes[j]>>) /\ IOError(j)
      BY Zenon, <2>1
    <3>2. faults' = faults \/ faults' = faults + 1
      BY Zenon, <3>1 DEF Explained, Fault
    <3>3. j \in 0..Len(nodes) /\ faults' \in Nat
      BY <1>2, <3>2
    <3> QED BY Zenon, <3>1, <3>3
  <2>2. CASE Explained(nodes) /\ IOError(0)
    <3>1. faults' \in Nat
      BY <1>2, <2>2 DEF Explained, Fault
    <3> QED BY Zenon, <1>2, <2>2, <3>1
  <2>3. CASE IOError(0) /\ UNCHANGED faults
    BY Zenon, <1>2, <2>3
  <2> QED BY Zenon, <2>1, <2>2, <2>3 DEF ReadFails
<1>4. sock' = FALSE
  BY ZenonT(30), <1>3 DEF IOError
<1>5. TypeNet' /\ Bytes' /\ Labels' /\ Delivered'
  BY ZenonT(30), <1>1, <1>4 DEF IInv, TypeNet, Bytes, Labels, Delivered
<1> QED BY Zenon, <1>1, <1>2, <1>3, <1>5, IOErrorStep

\* The ack that is read answers a packet that every node of the pipeline has.
LEMMA AckedFacts ==
    ASSUME IInv, Reading, AckReady
    PROVE  /\ sock /\ conn.nodes = nodes
           /\ conn.read + 1 \in DOMAIN conn.stream
           /\ Acked = conn.stream[conn.read + 1]
           /\ \A i \in DOMAIN nodes :
                 /\ replica[nodes[i]].len >= Acked.end
                 /\ Acked.last => replica[nodes[i]].st = "final"
<1>1. /\ sock /\ conn.nodes = nodes /\ nodes \in Seq(DN)
      /\ conn.pos \in Seq(Nat) /\ Len(conn.pos) = Len(nodes) /\ conn.read \in Nat
      /\ conn.stream \in Seq(Packet)
      /\ conn.read < conn.pos[Len(nodes)]
  BY Zenon DEF AckReady, IInv, Delivered, TypeNet
<1>2. Acked = conn.stream[conn.read + 1]
  BY Zenon DEF Acked
<1>3. nodes # <<>>
  BY Zenon DEF IInv, Place, Reading, Waits
<1>4. Len(nodes) \in DOMAIN nodes /\ DOMAIN nodes = 1..Len(nodes)
  <2>1. nodes \in Seq(DN)
    BY Zenon, <1>1
  <2> QED BY Zenon, <1>3, <2>1, NonEmptyFacts
<1>5. /\ conn.pos[Len(nodes)] \in Nat /\ conn.pos[Len(nodes)] <= Len(conn.stream)
      /\ \A i \in DOMAIN nodes : conn.pos[i] \in Nat /\ conn.pos[Len(nodes)] <= conn.pos[i]
  BY <1>1, <1>4 DEF IInv, Delivered
<1>6. conn.read + 1 \in DOMAIN conn.stream
  BY <1>1, <1>5
<1>7. \A i \in DOMAIN nodes : conn.read + 1 \in 1..conn.pos[i]
  BY <1>1, <1>5
<1> QED BY Zenon, <1>1, <1>2, <1>6, <1>7 DEF IInv, Delivered

\* The packet that is acked leaves the front of the pending ones.
LEMMA PopAckedStep ==
    ASSUME IInv, Reading, AckReady, conn' = [conn EXCEPT !.read = @ + 1],
           packets # <<>>, AckMatches(packets[1], Acked.seqno), PopAcked,
           UNCHANGED <<stage, nodes, bytesSent, retryAlloc, gs, alive, replica, nn, faults, fed, packet>>
    PROVE  IInv'
<1>1. /\ sock /\ conn.nodes = nodes /\ conn.read + 1 \in DOMAIN conn.stream
      /\ Acked = conn.stream[conn.read + 1]
      /\ \A i \in DOMAIN nodes : /\ replica[nodes[i]].len >= Acked.end
                                 /\ Acked.last => replica[nodes[i]].st = "final"
  BY Zenon, AckedFacts
<1>2. /\ packets \in Seq(Packet) /\ 1 \in DOMAIN packets /\ packets[1].end \in Nat
      /\ packets[1].last \in BOOLEAN
      /\ conn.stream \in Seq(Packet) /\ bytesAcked \in Nat /\ bytesSent \in Nat /\ fed \in Nat
      /\ lastBlock \in [gs : Nat, numBytes : Nat]
  BY PacketTypes DEF IInv, TypePipe, TypeNet, TypeCaller
<1>3. packets[1] = Acked
  BY Zenon, <1>1, <1>2 DEF AckMatches, IInv, Labels
<1>4. /\ packets' = Tail(packets) /\ bytesAcked' = Max2(packets[1].end, bytesAcked)
      /\ lastBlock' = [lastBlock EXCEPT !.numBytes = bytesAcked']
      /\ sock' = (sock /\ ~packets[1].last) /\ pc' = AfterRead
      /\ UNCHANGED <<errorIndex, ret, failover, recovery, retry, excludedNodes>>
  BY Zenon DEF PopAcked, AckedThrough
<1>5. /\ pc \in Waits \cup {"poll"} /\ stage \in {"DATA_STREAMING", "CLOSE"}
      /\ pc \in {"full", "flush", "drain"} => stage = "DATA_STREAMING"
      /\ pc = "final" => stage = "CLOSE"
      /\ pc' = IF pc = "poll" THEN IF stage = "CLOSE" THEN "final" ELSE "idle" ELSE pc
  BY Zenon, <1>4 DEF Reading, IInv, Place, Streaming, Waits, AfterRead, Returned
<1>6. /\ bytesAcked' \in Nat /\ bytesAcked' >= bytesAcked /\ bytesAcked' >= packets[1].end
      /\ bytesAcked' \in {bytesAcked, packets[1].end}
  BY <1>2, <1>4 DEF Max2
<1>7. /\ packets' \in Seq(Packet) /\ Len(packets') = Len(packets) - 1
      /\ \A i \in DOMAIN packets' : i + 1 \in DOMAIN packets /\ packets'[i] = packets[i + 1]
      /\ \A i \in DOMAIN packets : i = 1 \/ (i - 1 \in DOMAIN packets' /\ packets'[i - 1] = packets[i])
  BY <1>2, <1>4
<1>8. /\ conn'.gs = conn.gs /\ conn'.nodes = conn.nodes /\ conn'.pos = conn.pos
      /\ conn'.stream = conn.stream /\ TypeNet'
  <2>1. /\ conn \in [gs : Nat, nodes : Seq(DN), pos : Seq(Nat), read : Nat, stream : Seq(Packet)]
        /\ sock \in BOOLEAN /\ Len(conn.pos) = Len(conn.nodes)
    BY Zenon DEF IInv, TypeNet
  <2>2. /\ conn'.gs = conn.gs /\ conn'.nodes = conn.nodes /\ conn'.pos = conn.pos
        /\ conn'.stream = conn.stream
        /\ conn' \in [gs : Nat, nodes : Seq(DN), pos : Seq(Nat), read : Nat, stream : Seq(Packet)]
    BY <2>1
  <2>3. sock' \in BOOLEAN
    BY Zenon, <1>4
  <2> QED BY Zenon, <2>1, <2>2, <2>3 DEF TypeNet
<1>9. lastBlock' \in [gs : Nat, numBytes : Nat] /\ lastBlock'.numBytes = bytesAcked' /\ lastBlock'.gs = lastBlock.gs
  BY Zenon, <1>2, <1>4, <1>6
<1>10. TypePipe' /\ TypeExt' /\ TypeCaller'
  BY Zenon, <1>4, <1>6, <1>7, <1>9 DEF IInv, TypePipe, TypeExt, TypeCaller
<1>11. TypeLocals'
  BY Zenon, <1>4, <1>5 DEF IInv, TypeLocals, PCs, Waits
<1>12. packets[1].last => stage = "CLOSE"
  BY Zenon, <1>2, <1>5 DEF IInv, LastAlone
<1>13. stage = "CLOSE" => packets' = <<>> /\ packets[1].last /\ pc' = "final"
  BY <1>2, <1>5, <1>7 DEF IInv, LastAlone, Waits
<1>14. Place'
  BY Zenon, <1>1, <1>4, <1>5, <1>12, <1>13 DEF IInv, Place, Setting, Rebuilding, Streaming, Waits
<1>15. LastAlone'
  BY <1>5, <1>7, <1>13 DEF IInv, LastAlone
<1>16. Bytes'
  <2>1. bytesAcked' <= fed /\ \A i \in DOMAIN packets' : packets'[i].end <= fed
    BY Zenon, <1>2, <1>6, <1>7 DEF IInv, Bytes
  <2>2. bytesAcked' = fed \/ \E i \in DOMAIN packets' : packets'[i].end = fed
    <3>1. CASE bytesAcked = fed
      BY <1>2, <1>6, <2>1, <3>1
    <3>2. ASSUME NEW i \in DOMAIN packets, packets[i].end = fed
          PROVE  bytesAcked' = fed \/ \E j \in DOMAIN packets' : packets'[j].end = fed
      <4>1. CASE i = 1
        BY <1>2, <1>6, <2>1, <3>2, <4>1
      <4>2. CASE i # 1
        BY Zenon, <1>7, <3>2, <4>2
      <4> QED BY Zenon, <4>1, <4>2
    <3> QED BY Zenon, <3>1, <3>2 DEF IInv, Bytes
  <2>3. stage = "CLOSE" => bytesAcked' = fed
    BY <1>2, <1>6, <2>1 DEF IInv, Bytes
  <2> QED BY Zenon, <1>8, <1>9, <2>1, <2>2, <2>3 DEF IInv, Bytes
<1>17. Labels'
  BY <1>7, <1>8 DEF IInv, Labels
<1>18. Delivered'
  BY Zenon, <1>1, <1>8 DEF IInv, Delivered
<1>19. Members'
  <2>1. \A i \in DOMAIN nodes : replica[nodes[i]].len >= bytesAcked'
    BY Zenon, <1>1, <1>3, <1>5, <1>6 DEF IInv, Members, AckedIsOnEveryNode, Joining, Waits
  <2> QED BY Zenon, <1>4, <1>5, <2>1
          DEF IInv, Members, AckedIsOnEveryNode, Joining, Rebuilding, Streaming, Waits
<1>20. Stamps'
  <2>1. \A i \in DOMAIN nodes : replica[nodes[i]].gs = conn.gs
    BY Zenon, <1>1 DEF IInv, Delivered
  <2>2. conn.gs = lastBlock.gs
    BY Zenon, <1>1, <1>5 DEF IInv, Stamps, Streaming
  <2>3. pc' = "final" => \A i \in DOMAIN nodes : replica[nodes[i]].st = "final"
    BY Zenon, <1>1, <1>3, <1>5, <1>13 DEF Waits
  <2> QED BY Zenon, <1>4, <1>5, <1>8, <1>9, <2>1, <2>2, <2>3 DEF IInv, Stamps, Streaming, Waits
<1> QED BY Zenon, <1>8, <1>10, <1>11, <1>14, <1>15, <1>16, <1>17, <1>18, <1>19, <1>20 DEF IInv

\* Reading an ack keeps the invariant.
LEMMA ReadAckStep == ASSUME IInv, ReadAck PROVE IInv'
<1>1. /\ Reading /\ AckReady /\ conn' = [conn EXCEPT !.read = @ + 1]
      /\ UNCHANGED <<stage, nodes, bytesSent, retryAlloc, gs, alive, replica, nn, faults, fed, packet>>
  BY Zenon DEF ReadAck, ext, caller
<1>2. pc \in Waits \cup {"poll"} /\ (pc \in Waits => packets # <<>>)
  BY Zenon, <1>1 DEF Reading, Waited, Waits
<1>3. /\ conn'.gs = conn.gs /\ conn'.nodes = conn.nodes /\ conn'.pos = conn.pos
      /\ conn'.stream = conn.stream
      /\ conn' \in [gs : Nat, nodes : Seq(DN), pos : Seq(Nat), read : Nat, stream : Seq(Packet)]
      /\ Len(conn'.pos) = Len(conn'.nodes)
  <2>1. /\ conn \in [gs : Nat, nodes : Seq(DN), pos : Seq(Nat), read : Nat, stream : Seq(Packet)]
        /\ Len(conn.pos) = Len(conn.nodes)
    BY Zenon DEF IInv, TypeNet
  <2>2. /\ conn'.gs = conn.gs /\ conn'.nodes = conn.nodes /\ conn'.pos = conn.pos
        /\ conn'.stream = conn.stream
    BY Zenon, <1>1, <2>1
  <2>3. conn' \in [gs : Nat, nodes : Seq(DN), pos : Seq(Nat), read : Nat, stream : Seq(Packet)]
    <3>1. conn' = [conn EXCEPT !.read = conn.read + 1]
      BY Zenon, <1>1
    <3> QED BY <2>1, <3>1
  <2> QED BY Zenon, <2>1, <2>2, <2>3
<1>4. CASE packets # <<>> /\ AckMatches(packets[1], Acked.seqno) /\ PopAcked
  BY Zenon, <1>1, <1>4, PopAckedStep
<1>5. CASE packets # <<>> /\ IOError(0) /\ UNCHANGED <<packets, bytesAcked, lastBlock>>
  <2>1. sock' = FALSE
    BY Zenon, <1>5 DEF IOError
  <2>2. TypeNet' /\ Bytes' /\ Labels' /\ Delivered'
    BY ZenonT(30), <1>1, <1>3, <1>5, <2>1 DEF IInv, TypeNet, Bytes, Labels, Delivered
  <2>3. bytesSent' \in Nat /\ faults' \in Nat /\ 0 \in 0..Len(nodes)
    BY <1>1 DEF IInv, TypePipe, TypeExt
  <2> QED BY Zenon, <1>1, <1>2, <1>5, <2>2, <2>3, IOErrorStep
<1>6. CASE /\ packets = <<>> /\ pc' = "abort"
           /\ UNCHANGED <<packets, bytesAcked, lastBlock, sock, errorIndex, ret, failover,
                          recovery, retry, excludedNodes>>
  <2>1. TypePipe' /\ TypeExt' /\ TypeCaller' /\ TypeNet'
    BY Zenon, <1>1, <1>3, <1>6 DEF IInv, TypePipe, TypeExt, TypeCaller, TypeNet
  <2>2. TypeLocals'
    BY Zenon, <1>1, <1>6 DEF IInv, TypeLocals, PCs
  <2>3. Place'
    BY Zenon, <1>1, <1>2, <1>6 DEF IInv, Place, Setting, Rebuilding, Streaming, Waits
  <2>4. LastAlone' /\ Bytes' /\ Labels' /\ Delivered'
    BY <1>1, <1>3, <1>6 DEF IInv, LastAlone, Bytes, Labels, Delivered
  <2>5. Members' /\ Stamps'
    BY Zenon, <1>1, <1>2, <1>6 DEF IInv, Members, Stamps, AckedIsOnEveryNode, Joining, Rebuilding, Streaming, Waits
  <2> QED BY Zenon, <2>1, <2>2, <2>3, <2>4, <2>5 DEF IInv
<1> QED BY Zenon, <1>4, <1>5, <1>6 DEF ReadAck

\* waitForAcks returns, and close puts its last packet in.
LEMMA WaitOverStep == ASSUME IInv, WaitOver PROVE IInv'
<1>1. /\ pc \in Waits /\ Waited
      /\ UNCHANGED <<nodes, errorIndex, bytesSent, bytesAcked, ret, recovery, retry, retryAlloc,
                     excludedNodes, gs, conn, alive, replica, nn, faults>>
  BY Zenon DEF WaitOver, ext
<1>2. TypeExt'
  BY Zenon, <1>1 DEF IInv, TypeExt
<1>3. CASE /\ pc \in {"full", "flush"} /\ pc' = IF pc = "full" THEN "write" ELSE "idle"
           /\ UNCHANGED <<stage, packets, lastBlock, failover, sock, caller>>
  <2>1. TypePipe' /\ TypeNet' /\ TypeCaller'
    BY Zenon, <1>1, <1>3 DEF IInv, TypePipe, TypeNet, TypeCaller, caller
  <2>2. TypeLocals'
    BY Zenon, <1>1, <1>3 DEF IInv, TypeLocals, PCs
  <2>3. Place'
    BY Zenon, <1>1, <1>3 DEF IInv, Place, Setting, Rebuilding, Streaming, Waits, caller
  <2>4. LastAlone' /\ Bytes' /\ Labels' /\ Delivered'
    BY <1>1, <1>3 DEF IInv, LastAlone, Bytes, Labels, Delivered, Place, caller
  <2>5. Members' /\ Stamps'
    BY Zenon, <1>1, <1>3 DEF IInv, Members, Stamps, AckedIsOnEveryNode, Joining, Rebuilding, Streaming, Waits
  <2> QED BY Zenon, <1>2, <2>1, <2>2, <2>3, <2>4, <2>5 DEF IInv
<1>4. CASE /\ pc = "drain" /\ stage' = "CLOSE"
           /\ \E off \in packet.off..fed : Handover(off, off, TRUE)
           /\ pc' = Pushed /\ failover' = FALSE /\ UNCHANGED <<lastBlock, sock>>
  <2>1. PICK off \in packet.off..fed : Handover(off, off, TRUE)
    BY Zenon, <1>4
  <2>2. packets = <<>> /\ sock /\ stage = "DATA_STREAMING"
    BY Zenon, <1>1, <1>4 DEF Waited, IInv, Place, Streaming, Waits
  <2>3. off \in Nat /\ off <= fed /\ fed \in Nat
    BY DEF IInv, TypeCaller, Bytes, Packet
  <2>4. /\ packet' \in Packet /\ packets' \in Seq(Packet) /\ fed' \in Nat
        /\ packet' = [seqno |-> packet.seqno + 1, off |-> off, end |-> off, last |-> TRUE]
        /\ Len(packets') = Len(packets) + 1 /\ packets'[Len(packets')] = packet'
        /\ \A i \in 1..Len(packets) : packets'[i] = packets[i]
        /\ fed' >= fed /\ fed' >= off /\ fed' \in {fed, off}
    BY Zenon, <2>1, <2>2, <2>3, HandoverFacts
  <2>5. Len(packets') = 1 /\ packets'[1] = packet' /\ DOMAIN packets' = {1} /\ fed' = fed /\ packet'.last
    BY <2>2, <2>3, <2>4
  <2>7. pc' = "write"
    BY <1>4, <2>5, PipelineAssumption DEF Pushed, TooManyPending
  <2>8. TypePipe' /\ TypeNet' /\ TypeCaller'
    BY Zenon, <1>1, <1>4, <2>4 DEF IInv, TypePipe, TypeNet, TypeCaller, Stages
  <2>9. TypeLocals'
    BY Zenon, <1>1, <1>4, <2>7 DEF IInv, TypeLocals, PCs
  <2>10. Place'
    BY Zenon, <1>1, <1>4, <2>2, <2>5, <2>7 DEF IInv, Place, Setting, Rebuilding, Streaming, Waits
  <2>11. LastAlone'
    BY <1>4, <2>5 DEF LastAlone
  <2>12. Bytes'
    <3>1. bytesAcked = fed
      BY <2>2 DEF IInv, Bytes
    <3>2. /\ packet'.end <= fed /\ packet'.off <= fed /\ packets'[1].end <= fed
      BY <2>3, <2>4, <2>5
    <3> QED BY Zenon, <1>1, <1>4, <2>5, <3>1, <3>2 DEF IInv, Bytes
  <2>13. Labels'
    BY <1>1, <2>4, HandoverLabels
  <2>14. Delivered'
    BY Zenon, <1>1, <1>4, <2>2 DEF IInv, Delivered
  <2>15. Members' /\ Stamps'
    BY Zenon, <1>1, <1>4, <2>2, <2>7 DEF IInv, Members, Stamps, AckedIsOnEveryNode, Joining, Rebuilding, Streaming, Waits
  <2> QED BY Zenon, <1>2, <2>8, <2>9, <2>10, <2>11, <2>12, <2>13, <2>14, <2>15 DEF IInv
<1>5. CASE /\ pc = "final" /\ pc' = "closed" /\ sock' = FALSE
           /\ lastBlock' = [lastBlock EXCEPT !.numBytes = bytesAcked]
           /\ UNCHANGED <<stage, packets, failover, caller>>
  <2>1. packets = <<>> /\ stage = "CLOSE"
    BY Zenon, <1>1, <1>5 DEF Waited, IInv, Place
  <2>2. /\ lastBlock \in [gs : Nat, numBytes : Nat] /\ bytesAcked \in Nat
        /\ lastBlock.numBytes = bytesAcked
    BY Zenon DEF IInv, TypePipe, Bytes
  <2>3. lastBlock' = lastBlock
    BY Zenon, <1>5, <2>2
  <2>4. TypePipe' /\ TypeNet' /\ TypeCaller'
    BY Zenon, <1>1, <1>5, <2>3 DEF IInv, TypePipe, TypeNet, TypeCaller, caller
  <2>5. TypeLocals'
    BY Zenon, <1>1, <1>5 DEF IInv, TypeLocals, PCs
  <2>6. Place'
    BY Zenon, <1>1, <1>5, <2>1 DEF IInv, Place, Setting, Rebuilding, Streaming, Waits, caller
  <2>7. LastAlone' /\ Bytes' /\ Labels' /\ Delivered'
    BY <1>1, <1>5, <2>3 DEF IInv, LastAlone, Bytes, Labels, Delivered, caller
  <2>8. Members' /\ Stamps'
    BY Zenon, <1>1, <1>5, <2>1, <2>3 DEF IInv, Members, Stamps, AckedIsOnEveryNode, Joining, Rebuilding, Streaming, Waits
  <2> QED BY <1>2, <2>4, <2>5, <2>6, <2>7, <2>8 DEF IInv
<1> QED BY Zenon, <1>3, <1>4, <1>5 DEF WaitOver

-----------------------------------------------------------------------------
(* Every step of a datanode keeps the invariant.                           *)

\* A datanode that takes a packet over keeps what it had, and gets the packet.
LEMMA ReceiveFacts ==
    ASSUME IInv, NEW i \in DOMAIN conn.nodes, Receive(i)
    PROVE  /\ TypeNet' <=> sock' \in BOOLEAN
           /\ conn'.gs = conn.gs /\ conn'.nodes = conn.nodes /\ conn'.stream = conn.stream
           /\ \A j \in DOMAIN conn.nodes : conn'.pos[j] = IF j = i THEN conn.pos[i] + 1 ELSE conn.pos[j]
           /\ conn.pos[i] + 1 \in DOMAIN conn.stream
           /\ \A j \in DOMAIN conn.nodes : j < i => conn.pos[i] + 1 <= conn.pos[j]
           /\ replica' \in [DN -> Replica]
           /\ \A n \in DN : /\ replica'[n].gs = replica[n].gs /\ replica'[n].len >= replica[n].len
                            /\ replica'[n].st \in {replica[n].st, "final"}
                            /\ replica'[n].len \in {replica[n].len, conn.stream[conn.pos[i] + 1].end}
           /\ replica'[conn.nodes[i]].len >= conn.stream[conn.pos[i] + 1].end
           /\ conn.stream[conn.pos[i] + 1].last => replica'[conn.nodes[i]].st = "final"
<1> DEFINE n == conn.nodes[i]
           p == conn.stream[conn.pos[i] + 1]
<1>1. /\ conn \in [gs : Nat, nodes : Seq(DN), pos : Seq(Nat), read : Nat, stream : Seq(Packet)]
      /\ Len(conn.pos) = Len(conn.nodes) /\ replica \in [DN -> Replica]
  BY Zenon DEF IInv, TypeNet, TypeExt
<1>2. /\ conn.pos \in Seq(Nat) /\ conn.nodes \in Seq(DN) /\ conn.stream \in Seq(Packet)
      /\ i \in 1..Len(conn.nodes) /\ n \in DN /\ conn.pos[i] \in Nat
      /\ DOMAIN conn.nodes = 1..Len(conn.nodes)
  BY <1>1
<1>3. /\ conn.pos[i] < IF i = 1 THEN Len(conn.stream) ELSE conn.pos[i - 1]
      /\ conn' = [conn EXCEPT !.pos[i] = @ + 1]
      /\ replica' = [replica EXCEPT ![n] =
            [st |-> IF p.last THEN "final" ELSE @.st, len |-> Max2(@.len, p.end), gs |-> @.gs]]
  BY Zenon DEF Receive
<1>4. \A j \in DOMAIN conn.nodes : j < i => conn.pos[i] + 1 <= conn.pos[j]
  <2> SUFFICES ASSUME NEW j \in DOMAIN conn.nodes, j < i PROVE conn.pos[i] + 1 <= conn.pos[j]
    BY Zenon
  <2>1. i # 1 /\ i - 1 \in DOMAIN conn.nodes /\ j <= i - 1
    BY <1>2
  <2>2. conn.pos[i - 1] <= conn.pos[j] /\ conn.pos[i - 1] \in Nat /\ conn.pos[j] \in Nat
    BY SMTT(30), <1>1, <1>2, <2>1 DEF IInv, Delivered
  <2>3. conn.pos[i] < conn.pos[i - 1]
    BY Zenon, <1>3, <2>1
  <2>4. conn.pos[i] \in Nat
    BY Zenon, <1>2
  <2> QED BY <2>2, <2>3, <2>4
<1>5. conn.pos[i] + 1 \in DOMAIN conn.stream
  <2>1. CASE i = 1
    BY <1>2, <1>3, <2>1
  <2>2. CASE i # 1
    <3>1. i - 1 \in DOMAIN conn.nodes
      BY <1>2, <2>2
    <3>2. conn.pos[i - 1] <= Len(conn.stream) /\ conn.pos[i - 1] \in Nat
      BY <1>1, <1>2, <3>1 DEF IInv, Delivered
    <3> QED BY SMTT(30), <1>2, <1>3, <2>2, <3>2
  <2> QED BY Zenon, <2>1, <2>2
<1>6. /\ conn' = [conn EXCEPT !.pos = [conn.pos EXCEPT ![i] = conn.pos[i] + 1]]
  BY Zenon, <1>1, <1>3
<1>7. /\ conn'.gs = conn.gs /\ conn'.nodes = conn.nodes /\ conn'.stream = conn.stream
      /\ conn'.pos = [conn.pos EXCEPT ![i] = conn.pos[i] + 1]
  BY Zenon, <1>1, <1>6
<1>8. conn'.pos \in Seq(Nat) /\ Len(conn'.pos) = Len(conn.pos)
  BY <1>1, <1>2, <1>7
<1>9. \A j \in DOMAIN conn.nodes : conn'.pos[j] = IF j = i THEN conn.pos[i] + 1 ELSE conn.pos[j]
  BY <1>1, <1>2, <1>7
<1>10. TypeNet' <=> sock' \in BOOLEAN
  <2>1. conn' \in [gs : Nat, nodes : Seq(DN), pos : Seq(Nat), read : Nat, stream : Seq(Packet)]
    BY Zenon, <1>1, <1>6, <1>7, <1>8
  <2> QED BY Zenon, <1>1, <1>7, <1>8, <2>1 DEF TypeNet
<1>11. p.end \in Nat /\ p.last \in BOOLEAN
  BY Zenon, <1>5, PacketTypes
<1> HIDE DEF p, n
<1>12. replica[n] \in Replica /\ replica[n].len \in Nat /\ n \in DN
  BY Zenon, <1>1, <1>2 DEF Replica
<1>13. replica' = [replica EXCEPT ![n] = [st |-> IF p.last THEN "final" ELSE replica[n].st,
                                          len |-> Max2(replica[n].len, p.end), gs |-> replica[n].gs]]
  BY Zenon, <1>1, <1>3, <1>12
<1>14. Max2(replica[n].len, p.end) \in {replica[n].len, p.end} /\ Max2(replica[n].len, p.end) \in Nat
       /\ Max2(replica[n].len, p.end) >= replica[n].len /\ Max2(replica[n].len, p.end) >= p.end
  BY <1>11, <1>12 DEF Max2
<1>15. replica' \in [DN -> Replica]
  BY Zenon, <1>1, <1>12, <1>13, <1>14 DEF Replica
<1>16. /\ \A m \in DN : /\ replica'[m].gs = replica[m].gs /\ replica'[m].len >= replica[m].len
                        /\ replica'[m].st \in {replica[m].st, "final"}
                        /\ replica'[m].len \in {replica[m].len, p.end}
       /\ replica'[n].len >= p.end
       /\ p.last => replica'[n].st = "final"
  <2>1. /\ replica'[n].gs = replica[n].gs /\ replica'[n].len = Max2(replica[n].len, p.end)
        /\ replica'[n].st = IF p.last THEN "final" ELSE replica[n].st
    BY Zenon, <1>1, <1>12, <1>13
  <2>2. \A m \in DN : m # n => replica'[m] = replica[m]
    BY Zenon, <1>1, <1>13
  <2>3. \A m \in DN : replica[m].len \in Nat
    BY Zenon, <1>1 DEF Replica
  <2> QED BY <1>12, <1>14, <2>1, <2>2, <2>3
<1> QED BY Zenon, <1>4, <1>5, <1>7, <1>9, <1>10, <1>15, <1>16 DEF p, n

\* A datanode receives a packet.
LEMMA DatanodeReceivesStep == ASSUME IInv, DatanodeReceives PROVE IInv'
<1>1. UNCHANGED <<stage, nodes, errorIndex, packets, bytesSent, bytesAcked, lastBlock, pc, ret, failover,
                  recovery, retry, retryAlloc, excludedNodes, gs, sock, alive, nn, faults, fed, packet>>
  BY Zenon DEF DatanodeReceives, pipe, locals, caller
<1>2. PICK i \in DOMAIN conn.nodes : Receive(i)
  BY Zenon DEF DatanodeReceives
<1>3. /\ TypeNet' <=> sock' \in BOOLEAN
      /\ conn'.gs = conn.gs /\ conn'.nodes = conn.nodes /\ conn'.stream = conn.stream
      /\ \A j \in DOMAIN conn.nodes : conn'.pos[j] = IF j = i THEN conn.pos[i] + 1 ELSE conn.pos[j]
      /\ conn.pos[i] + 1 \in DOMAIN conn.stream
      /\ \A j \in DOMAIN conn.nodes : j < i => conn.pos[i] + 1 <= conn.pos[j]
      /\ replica' \in [DN -> Replica]
      /\ \A n \in DN : /\ replica'[n].gs = replica[n].gs /\ replica'[n].len >= replica[n].len
                       /\ replica'[n].st \in {replica[n].st, "final"}
                       /\ replica'[n].len \in {replica[n].len, conn.stream[conn.pos[i] + 1].end}
      /\ replica'[conn.nodes[i]].len >= conn.stream[conn.pos[i] + 1].end
      /\ conn.stream[conn.pos[i] + 1].last => replica'[conn.nodes[i]].st = "final"
  BY Zenon, <1>2, ReceiveFacts
<1>4. /\ nodes \in Seq(DN) /\ replica \in [DN -> Replica] /\ bytesAcked \in Nat
      /\ \A n \in DN : replica[n].len \in Nat /\ replica'[n].len \in Nat
      /\ \A j \in DOMAIN nodes : nodes[j] \in DN
      /\ conn.stream \in Seq(Packet) /\ conn.pos \in Seq(Nat) /\ conn.nodes \in Seq(DN)
      /\ \A j \in DOMAIN conn.nodes : conn.pos[j] \in Nat
      /\ DOMAIN conn.nodes = 1..Len(conn.nodes)
  <2>1. /\ nodes \in Seq(DN) /\ replica \in [DN -> Replica] /\ bytesAcked \in Nat
        /\ conn.stream \in Seq(Packet) /\ conn.pos \in Seq(Nat) /\ conn.nodes \in Seq(DN)
        /\ Len(conn.pos) = Len(conn.nodes)
    BY Zenon DEF IInv, TypePipe, TypeExt, TypeNet
  <2>2. \A r \in Replica : r.len \in Nat
    BY Zenon DEF Replica
  <2>3. \A n \in DN : replica[n].len \in Nat /\ replica'[n].len \in Nat
    BY Zenon, <1>3, <2>1, <2>2
  <2>4. /\ \A j \in DOMAIN nodes : nodes[j] \in DN
        /\ \A j \in DOMAIN conn.nodes : conn.pos[j] \in Nat
        /\ DOMAIN conn.nodes = 1..Len(conn.nodes)
    BY SMTT(30), <2>1
  <2> QED BY Zenon, <2>1, <2>3, <2>4
<1>5. TypePipe' /\ TypeLocals' /\ TypeExt' /\ TypeCaller' /\ TypeNet'
  BY Zenon, <1>1, <1>3 DEF IInv, TypePipe, TypeLocals, TypeExt, TypeCaller, TypeNet
<1>6. Place' /\ LastAlone'
  BY <1>1 DEF IInv, Place, LastAlone
<1>7. Bytes'
  <2>1. conn.stream[conn.pos[i] + 1].end <= bytesSent
    BY Zenon, <1>3 DEF IInv, Bytes
  <2>2. \A n \in DN : replica'[n].len <= bytesSent
    BY Zenon, <1>3, <2>1 DEF IInv, Bytes
  <2> QED BY Zenon, <1>1, <1>3, <2>2 DEF IInv, Bytes
<1>8. Labels'
  <2>1. conn'.stream = conn.stream
    BY Zenon, <1>3
  <2> QED BY <1>1, <2>1 DEF IInv, Labels
<1>9. Delivered'
  <2>0. /\ \A j \in DOMAIN conn.nodes : conn'.pos[j] = IF j = i THEN conn.pos[i] + 1 ELSE conn.pos[j]
        /\ \A j \in DOMAIN conn.nodes : j < i => conn.pos[i] + 1 <= conn.pos[j]
        /\ conn.pos[i] + 1 <= Len(conn.stream)
    BY <1>3, <1>4
  <2>1. \A j \in DOMAIN conn.nodes : conn'.pos[j] <= Len(conn.stream)
    BY Zenon, <2>0 DEF IInv, Delivered
  <2>2. \A j, k \in DOMAIN conn.nodes : j <= k => conn'.pos[k] <= conn'.pos[j]
    <3> SUFFICES ASSUME NEW j \in DOMAIN conn.nodes, NEW k \in DOMAIN conn.nodes, j <= k
                 PROVE  conn'.pos[k] <= conn'.pos[j]
      BY Zenon
    <3>1. conn.pos[k] <= conn.pos[j]
      BY Zenon DEF IInv, Delivered
    <3>2. j < k \/ j = k
      BY <1>4
    <3>3. conn.pos[k] \in Nat /\ conn.pos[j] \in Nat /\ conn.pos[i] \in Nat
      BY Zenon, <1>4
    <3>4. CASE k = i
      BY <2>0, <3>2, <3>3, <3>4
    <3>5. CASE k # i
      BY <2>0, <3>1, <3>3, <3>5
    <3> QED BY Zenon, <3>4, <3>5
  <2>3. ASSUME sock, NEW j \in DOMAIN nodes, NEW k \in 1..conn'.pos[j]
        PROVE  /\ replica'[nodes[j]].len >= conn.stream[k].end
               /\ conn.stream[k].last => replica'[nodes[j]].st = "final"
    <3>1. conn.nodes = nodes /\ nodes[j] \in DN /\ j \in DOMAIN conn.nodes
      BY Zenon, <1>4, <2>3 DEF IInv, Delivered
    <3>2. CASE k \in 1..conn.pos[j]
      <4>1. /\ replica[nodes[j]].len >= conn.stream[k].end
            /\ conn.stream[k].last => replica[nodes[j]].st = "final"
        BY Zenon, <2>3, <3>2 DEF IInv, Delivered
      <4>2. k \in DOMAIN conn.stream
        BY <1>4, <3>1, <3>2 DEF IInv, Delivered
      <4>3. conn.stream[k].end \in Nat
        BY Zenon, <4>2, PacketTypes
      <4>4. /\ replica'[nodes[j]].len >= replica[nodes[j]].len
            /\ replica'[nodes[j]].st \in {replica[nodes[j]].st, "final"}
            /\ replica[nodes[j]].len \in Nat /\ replica'[nodes[j]].len \in Nat
        BY Zenon, <1>3, <1>4, <3>1
      <4> QED BY <4>1, <4>3, <4>4
    <3>3. CASE k \notin 1..conn.pos[j]
      <4>1. j = i /\ k = conn.pos[i] + 1
        BY SMTT(30), <1>3, <1>4, <3>1, <3>3
      <4> QED BY Zenon, <1>3, <3>1, <4>1
    <3> QED BY Zenon, <3>2, <3>3
  <2>4. sock => conn.nodes = nodes /\ \A j \in DOMAIN nodes : replica'[nodes[j]].gs = conn.gs
    BY Zenon, <1>3, <1>4 DEF IInv, Delivered
  <2> QED BY Zenon, <1>1, <1>3, <2>1, <2>2, <2>3, <2>4 DEF Delivered
<1>10. Members'
  <2>1. \A j \in DOMAIN nodes : replica[nodes[j]].len >= bytesAcked => replica'[nodes[j]].len >= bytesAcked
    <3>1. \A n \in DN : /\ replica'[n].len >= replica[n].len
                        /\ replica[n].len \in Nat /\ replica'[n].len \in Nat
      BY Zenon, <1>3, <1>4
    <3>2. bytesAcked \in Nat /\ \A j \in DOMAIN nodes : nodes[j] \in DN
      BY Zenon, <1>4
    <3> QED BY <3>1, <3>2
  <2>2. \A j \in DOMAIN nodes : replica'[nodes[j]].st \in {replica[nodes[j]].st, "final"}
    BY Zenon, <1>3, <1>4
  <2> QED BY Zenon, <1>1, <2>1, <2>2 DEF IInv, Members, AckedIsOnEveryNode, Joining
<1>11. Stamps'
  <2>1. \A n \in DN : replica'[n].gs = replica[n].gs
    BY Zenon, <1>3
  <2>2. \A j \in DOMAIN nodes : /\ replica'[nodes[j]].gs = replica[nodes[j]].gs
                                /\ replica'[nodes[j]].st \in {replica[nodes[j]].st, "final"}
    BY Zenon, <1>3, <1>4
  <2> QED BY ZenonT(30), <1>1, <1>3, <2>1, <2>2 DEF IInv, Stamps
<1> QED BY Zenon, <1>5, <1>6, <1>7, <1>8, <1>9, <1>10, <1>11 DEF IInv

\* A crash only takes a node out of alive.
LEMMA CrashStep == ASSUME IInv, Crash PROVE IInv'
<1>1. /\ UNCHANGED <<stage, nodes, errorIndex, packets, bytesSent, bytesAcked, lastBlock, pc, ret, failover,
                     recovery, retry, retryAlloc, excludedNodes, gs, sock, conn, replica, nn, fed, packet>>
      /\ alive' \subseteq DN /\ faults' \in Nat
  BY DEF Crash, Fault, IInv, TypeExt, pipe, locals, net, caller
<1>2. TypePipe' /\ TypeLocals' /\ TypeExt' /\ TypeCaller' /\ TypeNet'
  BY Zenon, <1>1 DEF IInv, TypePipe, TypeLocals, TypeExt, TypeCaller, TypeNet
<1>3. Place' /\ LastAlone' /\ Bytes'
  BY <1>1 DEF IInv, Place, LastAlone, Bytes
<1>5. Labels' /\ Delivered'
  BY Zenon, <1>1 DEF IInv, Labels, Delivered
<1>4. Members' /\ Stamps'
  BY Zenon, <1>1 DEF IInv, Members, Stamps, AckedIsOnEveryNode, Joining
<1> QED BY Zenon, <1>2, <1>3, <1>4, <1>5 DEF IInv

=============================================================================
