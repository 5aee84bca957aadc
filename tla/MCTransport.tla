----------------------------- MODULE MCTransport -----------------------------
(***************************************************************************)
(* The building blocks below the streams and the channels.  They share no  *)
(* state, so a behaviour runs one of them.                                 *)
(***************************************************************************)
EXTENDS Packet, Sockets, ThreadPool, FileWrappers, ByteBuffer, SaslHandshake, ChannelKeys

VARIABLE machine

MCTimeouts == {-1, 0, 2}
MCFrames == <<2, 5>>
MCOffers == {<<>>, <<"TOKEN", "KERBEROS">>, <<"KERBEROS">>, <<"TOKEN">>, <<"SIMPLE">>,
             <<"TOKEN", "SIMPLE">>, <<"TOKEN", "PLAIN">>}
MCRounds == [TOKEN |-> 2, KERBEROS |-> 3]

\* One file system, and others that differ from it in one respect each.
KeyToken(id, service) == [identifier |-> id, password |-> "pw", kind |-> "HDFS_DELEGATION_TOKEN", service |-> service]
BlockToken(id) == [identifier |-> id, password |-> id, kind |-> "HDFS_BLOCK_TOKEN", service |-> ""]
KeyUser(name, real, tokens) ==
    [realUser |-> real, effectiveUser |-> [name |-> name, host |-> "", realm |-> "R"], tokens |-> tokens]
KeyConf(timeout) ==
    [f \in {"rpcConnectTimeout", "rpcMaxIdleTime", "rpcMaxRetryOnConnect", "rpcPingTimeout", "rpcReadTimeout",
            "rpcWriteTimeout", "rpcSocketLingerTimeout", "rpcTimeout"} |-> timeout] @@ [rpcTcpNoDelay |-> TRUE]
Caller(method, user, port, conf) ==
    [method |-> method, user |-> user, conf |-> conf, block |-> <<>>,
     server |-> [tokenService |-> "ns", host |-> "h", port |-> port]]
MCCallers ==
    LET me == KeyUser("u", <<>>, {KeyToken("t1", "ns")})
    IN  {Caller("TOKEN", me, 1, KeyConf(0)), Caller("KERBEROS", me, 1, KeyConf(0)),
         Caller("TOKEN", me, 2, KeyConf(0)), Caller("TOKEN", me, 1, KeyConf(5)),
         Caller("TOKEN", KeyUser("u", <<>>, {KeyToken("t2", "ns")}), 1, KeyConf(0)),
         Caller("TOKEN", KeyUser("u", <<>>, {}), 1, KeyConf(0)),
         Caller("TOKEN", KeyUser("u", <<>>, {KeyToken("t1", "ns"), KeyToken("t3", "other")}), 1, KeyConf(0)),
         Caller("KERBEROS", KeyUser("u", <<"v", "", "R">>, {}), 1, KeyConf(0)),
         Caller("KERBEROS", KeyUser("v", <<>>, {}), 1, KeyConf(0))}
        \cup {[Caller("KERBEROS", me, 1, KeyConf(0)) EXCEPT !.block = <<BlockToken(id)>>] : id \in {"b1", "b2"}}

Init ==
    /\ machine \in {"packet", "sockets", "threads", "files", "buffers", "sasl", "keys"}
    /\ PacketInit /\ SocketInit /\ PoolInit /\ FileInit /\ BufferInit
    /\ SaslInit /\ KeyInit
    /\ machine # "sockets" =>
        conn.timeout = 0 /\ conn.lists = 1 /\ ~conn.domain /\ reader.capacity = 0
    /\ machine # "sasl" =>
        rpcKey.method = "SIMPLE" /\ ~rpcKey.hasToken

Next ==
    /\ UNCHANGED machine
    /\ \/ /\ machine = "packet" /\ PacketNext
          /\ UNCHANGED <<socketVars, poolVars, fileVars, bufferVars, saslVars, keyVars>>
       \/ /\ machine = "sockets" /\ SocketNext
          /\ UNCHANGED <<packetVars, poolVars, fileVars, bufferVars, saslVars, keyVars>>
       \/ /\ machine = "threads" /\ PoolNext
          /\ UNCHANGED <<packetVars, socketVars, fileVars, bufferVars, saslVars, keyVars>>
       \/ /\ machine = "files" /\ FileNext
          /\ UNCHANGED <<packetVars, socketVars, poolVars, bufferVars, saslVars, keyVars>>
       \/ /\ machine = "buffers" /\ BufferNext
          /\ UNCHANGED <<packetVars, socketVars, poolVars, fileVars, saslVars, keyVars>>
       \/ /\ machine = "sasl" /\ SaslNext
          /\ UNCHANGED <<packetVars, socketVars, poolVars, fileVars, bufferVars, keyVars>>
       \/ /\ machine = "keys" /\ KeyNext
          /\ UNCHANGED <<packetVars, socketVars, poolVars, fileVars, bufferVars, saslVars>>

Spec == Init /\ [][Next]_<<machine, packetVars, socketVars, poolVars, fileVars, bufferVars, saslVars, keyVars>>

-----------------------------------------------------------------------------
(* What the streams and the channels rely on.  The parts are stated in the *)
(* module of each building block.                                          *)

\* What is put on the wire is the packet, whatever was reserved for its header
\* and checksums (Packet::getBuffer), and what is taken off it are the frames
\* that were sent: none torn by a short read or a signal, and no byte beyond the
\* frame taken from a socket that is handed on (BufferedSocketReaderImpl,
\* Socket::readFully).
WireIsExact == WireIsWholePacket /\ FramesAreExact /\ NoReadAhead

\* A wait comes to its end: one on a socket by its deadline, which each signal
\* that interrupts poll sets again (TcpSocketImpl::connect, Socket::readFully),
\* one on the pool because a task that was accepted runs, once, even when the
\* pool is stopped, and no worker sleeps while a task waits (ThreadPool).
WaitsEnd == WaitIsBounded /\ TaskRunsOnce /\ NoLostWakeup

\* Those who share a resource do not disturb each other: the cells sliced out of
\* one buffer do not overlap and lie in memory (ByteBuffer::slice), readers of
\* one cached descriptor each read the file from its start, and every descriptor
\* has one owner who closes it (CFileWrapper, MappedFileWrapper,
\* TcpSocketImpl::connect).
ReadersGetTheirOwn ==
    CellsAreSeparate /\ BuffersInMemory /\ ReadsInSequence /\ DescriptorsAreOwned /\ ConnectLeavesNoSocket

\* A call goes out in the name of its caller: its channel is authenticated on
\* both sides, denied only for a cause, speaks for that caller alone
\* and is shared by the callers that look alike (RpcChannelImpl::setupSaslConnection,
\* SaslClient, RpcChannelKey, RpcClientImpl::getChannel).
CallsAreAuthenticated ==
    BothSidesAuthenticated /\ DeniedForCause /\ ChannelSpeaksForCaller /\ ChannelsAreShared

=============================================================================
