---------------------------- MODULE ChannelKeys ----------------------------
(***************************************************************************)
(* Which calls share a connection.  The file systems of a process have one *)
(* map of channels (RpcClientImpl), a hash map by RpcChannelKey: the way   *)
(* to authenticate, the protocol, the server, the timeouts, and the token  *)
(* that the user has for the server.  An equality is what operator == of   *)
(* the class compares; a hash is the tuple of what its hash_value combines.*)
(***************************************************************************)
EXTENDS Integers, Sequences, FiniteSets

CONSTANTS
    Callers,     \* who calls: each [method, user, server, conf, block], a call of a
                 \* namenode, or of a datanode about a block with its token
    MaxCalls     \* bound on the calls

VARIABLES
    shared,      \* the channels of the map, each [key, for]: the caller it was made for
    handed       \* the last answer of getChannel, [caller, channel], or <<>>

keyVars == <<shared, handed>>

-----------------------------------------------------------------------------
(* The parts of a key.                                                     *)

KerberosNameSame(a, b) == a.name = b.name /\ a.host = b.host /\ a.realm = b.realm
KerberosNameHash(a) == <<a.name, a.host, a.realm>>

\* The tokens of a user are not compared: the key holds the one that counts.
UserInfoSame(a, b) == a.realUser = b.realUser /\ KerberosNameSame(a.effectiveUser, b.effectiveUser)
UserInfoHash(a) == <<a.realUser, KerberosNameHash(a.effectiveUser)>>

TokenSame(a, b) ==
    a.identifier = b.identifier /\ a.password = b.password /\ a.kind = b.kind /\ a.service = b.service
TokenHash(a) == <<a.identifier, a.password, a.kind, a.service>>

RpcAuth(user, method) == [user |-> user, method |-> method]
RpcAuthSame(a, b) == a.method = b.method /\ UserInfoSame(a.user, b.user)
RpcAuthHash(a) == <<a.method, UserInfoHash(a.user)>>

RpcProtocolInfo(version, protocol, tokenKind) ==
    [version |-> version, protocol |-> protocol, tokenKind |-> tokenKind]
RpcProtocolInfoSame(a, b) == a.version = b.version /\ a.protocol = b.protocol /\ a.tokenKind = b.tokenKind
RpcProtocolInfoHash(a) == <<a.version, a.protocol, a.tokenKind>>

RpcServerInfo(tokenService, host, port) == [host |-> host, port |-> port, tokenService |-> tokenService]
RpcServerInfoOf(host, port) == RpcServerInfo("", host, port)
RpcServerInfoSame(a, b) == a.host = b.host /\ a.port = b.port /\ a.tokenService = b.tokenService
RpcServerInfoHash(a) == <<a.host, a.port, a.tokenService>>

RpcConfig(conf) ==
    [connectTimeout    |-> conf.rpcConnectTimeout,
     maxIdleTime       |-> conf.rpcMaxIdleTime,
     maxRetryOnConnect |-> conf.rpcMaxRetryOnConnect,
     pingTimeout       |-> conf.rpcPingTimeout,
     readTimeout       |-> conf.rpcReadTimeout,
     writeTimeout      |-> conf.rpcWriteTimeout,
     tcpNoDelay        |-> conf.rpcTcpNoDelay,
     lingerTimeout     |-> conf.rpcSocketLingerTimeout,
     rpcTimeout        |-> conf.rpcTimeout]
RpcConfigSame(a, b) ==
    \A f \in {"maxIdleTime", "pingTimeout", "connectTimeout", "readTimeout", "writeTimeout",
              "maxRetryOnConnect", "tcpNoDelay", "lingerTimeout", "rpcTimeout"} : a[f] = b[f]
RpcConfigHash(a) ==
    <<a.maxIdleTime, a.pingTimeout, a.connectTimeout, a.readTimeout, a.writeTimeout,
      a.maxRetryOnConnect, a.lingerTimeout, a.rpcTimeout, a.tcpNoDelay>>

-----------------------------------------------------------------------------
(* The key, and the map.                                                   *)

\* The token is copied from the user when the key is made, <<>> when there is none.
RpcChannelKeyNoToken(auth, protocol, server, conf) ==
    [auth |-> auth, protocol |-> protocol, server |-> server, conf |-> conf, token |-> <<>>]
RpcChannelKey(auth, protocol, server, conf) ==
    LET own == {t \in auth.user.tokens : t.kind = protocol.tokenKind /\ t.service = server.tokenService}
    IN  [auth |-> auth, protocol |-> protocol, server |-> server, conf |-> conf,
         token |-> IF own = {} THEN <<>> ELSE <<CHOOSE t \in own : TRUE>>]

RpcChannelKeySame(a, b) ==
    /\ RpcAuthSame(a.auth, b.auth) /\ RpcProtocolInfoSame(a.protocol, b.protocol)
    /\ RpcServerInfoSame(a.server, b.server) /\ RpcConfigSame(a.conf, b.conf)
    /\ \/ a.token = <<>> /\ b.token = <<>>
       \/ a.token # <<>> /\ b.token # <<>> /\ TokenSame(a.token[1], b.token[1])

RpcChannelKeyHash(a) ==
    <<RpcAuthHash(a.auth), RpcProtocolInfoHash(a.protocol), RpcServerInfoHash(a.server),
      RpcConfigHash(a.conf), IF a.token = <<>> THEN <<>> ELSE TokenHash(a.token[1])>>

\* UserInfo::addToken: one token of a kind and a service.
addToken(user, token) ==
    [user EXCEPT !.tokens = {t \in @ : t.kind # token.kind \/ t.service # token.service} \cup {token}]

\* NamenodeImpl: what its calls ask a channel with.
NamenodeImpl(c) ==
    RpcChannelKey(RpcAuth(c.user, c.method), RpcProtocolInfo(1, "ClientProtocol", "HDFS_DELEGATION_TOKEN"),
                  RpcServerInfo(c.server.tokenService, c.server.host, c.server.port), RpcConfig(c.conf))

\* DatanodeImpl, made by readBlockLength and getBlockLocalPathInfo for one block: the
\* user gets the token of the block, which has no service.
DatanodeImpl(c, auth) ==
    RpcChannelKey(auth, RpcProtocolInfo(1, "ClientDatanodeProtocol", "HDFS_BLOCK_TOKEN"),
                  RpcServerInfoOf(c.server.host, c.server.port), RpcConfig(c.conf))
readBlockLength(c) == DatanodeImpl(c, RpcAuth(addToken(c.user, c.block[1]), c.method))

KeyOf(c) == IF c.block = <<>> THEN NamenodeImpl(c) ELSE readBlockLength(c)

\* unordered_map::find: the bucket of the hash, and the equal key in it.
Find(key) == {ch \in shared : /\ RpcChannelKeyHash(ch.key) = RpcChannelKeyHash(key)
                            /\ RpcChannelKeySame(ch.key, key)}

\* RpcClientImpl::getChannel, as far as the map goes.
lookUp(c) ==
    /\ Cardinality(shared) < MaxCalls
    /\ LET found == Find(KeyOf(c))
           new   == [key |-> KeyOf(c), for |-> c]
       IN  /\ shared' = IF found = {} THEN shared \cup {new} ELSE shared
           /\ handed' = <<[caller |-> c, channel |-> IF found = {} THEN new ELSE CHOOSE ch \in found : TRUE]>>

\* The cleaner drops an idle channel.
dropIdle ==
    \E ch \in shared : shared' = shared \ {ch} /\ handed' = <<>>

KeyInit == shared = {} /\ handed = <<>>
KeyNext == (\E c \in Callers : lookUp(c)) \/ dropIdle

-----------------------------------------------------------------------------
(* What a channel tells the server of its user, and how it goes about it.  *)

getProtocol(auth) == IF auth.method = "SIMPLE" THEN "NONE" ELSE "SASL"

getPrincipal(name) == <<name.name, name.host, name.realm>>

\* buildConnectionContext: the user, unless the token names them; the real user
\* only where the server can check them.  A principal is its parts.
buildConnectionContext(key) ==
    LET euser == getPrincipal(key.auth.user.effectiveUser)
        ruser == key.auth.user.realUser
        method == key.auth.method
    IN  [protocol |-> key.protocol.protocol,
         effective |-> IF method = "TOKEN" THEN <<>> ELSE euser,
         real |-> IF method \notin {"TOKEN", "SIMPLE"} /\ ruser # euser THEN ruser ELSE <<>>]

Conduct(c) ==
    LET key == KeyOf(c)
    IN  [sasl |-> getProtocol(key.auth), context |-> buildConnectionContext(key), method |-> c.method,
         token |-> IF c.block # <<>> THEN {c.block[1]}
                   ELSE {t \in c.user.tokens : /\ t.kind = "HDFS_DELEGATION_TOKEN"
                                                /\ t.service = c.server.tokenService},
         to |-> <<c.server.host, c.server.port>>, conf |-> c.conf]

\* A call goes out on a channel that speaks for the caller: made with the user,
\* the token and the method it would authenticate with itself, to its server, and
\* with its timeouts, whoever asked for the channel first; for a datanode the token is
\* the one of the very block (RpcClientImpl::getChannel, RpcChannelKey::operator ==).
ChannelSpeaksForCaller ==
    handed # <<>> => Conduct(handed[1].channel.for) = Conduct(handed[1].caller)

\* Callers that would say the same share a channel: there are never two of them in
\* the map (the hash_value of every part of the key agrees with its operator ==).
ChannelsAreShared ==
    \A a, b \in shared : a # b => Conduct(a.for) # Conduct(b.for)
=============================================================================
