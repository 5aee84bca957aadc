------------------------------ MODULE Session ------------------------------
(***************************************************************************)
(* How a program becomes a client of a file system: the connection builder *)
(* of the C interface (hdfsNewBuilder ... hdfsBuilderConnect), the         *)
(* FileSystem object behind it, the key it is identified by                *)
(* (FileSystemKey) and the namenodes and the user the session ends up with *)
(* (FileSystemImpl::connect).                                              *)
(*                                                                         *)
(* One builder and one session, which FileSystem objects hold, the one     *)
(* that connected and a copy of it, and the streams opened with them.      *)
(* "asked" remembers what the builder held when the session was opened.    *)
(***************************************************************************)
EXTENDS Configuration, Names

CONSTANTS
    Files,          \* what LIBHDFS3_CONF may name, each [readable, root, doc]
    DefaultFile,    \* hdfs-client.xml in the working directory
    NameNodes,      \* the texts set as namenode: URIs and "default"
    UriOf,          \* what xmlParseURI makes of a text, <<>> for a bad one
    Settings,       \* the <<key, text>> pairs set on a builder
    UserNames, Principals, Tokens,   \* texts
    TokenOf,        \* what Token::fromString and its identifier hold, <<>> for a bad one
    Port,           \* the port number set on a builder
    LocalUser,      \* the name of the user of the process
    TicketCache,    \* the principal of the ticket cache, <<>> without one
    HaKey,          \* the key dfs.ha.namenodes.<service> of each host that may be a nameservice
    HaAddresses,    \* the addresses of the namenodes, by service and name
    BlockSizes,     \* the block sizes files are created with, 0 for the session's
    Directories,    \* the paths set as working directory, as in Names
    MaxSets         \* bound on the calls that set something on a builder

VARIABLES bld, fs, holders, asked, result, sets
sessionVars == <<bld, fs, holders, asked, result, sets>>

None == <<>>

-----------------------------------------------------------------------------
(* The default configuration and the builder *)

\* DefaultConfig: a file that LIBHDFS3_CONF names must be read, hdfs-client.xml
\* only if it is there.
DefaultConfig(env) ==
    IF env # None THEN ConfigUpdate(env[1])
    ELSE IF DefaultFile.readable THEN ConfigUpdate(DefaultFile) ELSE Value(<<>>)

NewHdfsBuilder(kv) ==
    [conf |-> kv, token |-> <<>>, nn |-> <<>>, userName |-> <<>>, principal |-> <<>>, port |-> 0]

SessionInit == bld = None /\ fs = None /\ holders = {} /\ asked = None /\ result = "none" /\ sets = 0

hdfsNewBuilder(env) ==
    /\ bld = None /\ sets < MaxSets
    /\ LET conf == DefaultConfig(env)
       IN  IF conf.ok THEN bld' = <<NewHdfsBuilder(conf.value)>> /\ result' = "ok"
           ELSE bld' = None /\ result' = "failed"
    /\ sets' = sets + 1
    /\ UNCHANGED <<fs, holders, asked>>

hdfsFreeBuilder == bld # None /\ bld' = None /\ result' = "ok" /\ UNCHANGED <<fs, holders, asked, sets>>

\* Every setter is one assignment to the builder (hdfsBuilderSetForceNewInstance
\* is none).
Set(field, value) ==
    /\ bld # None /\ sets < MaxSets
    /\ bld' = <<[bld[1] EXCEPT ![field] = value]>> /\ sets' = sets + 1 /\ result' = "ok"
    /\ UNCHANGED <<fs, holders, asked>>

hdfsBuilderSetNameNode(nn)         == Set("nn", nn)
hdfsBuilderSetNameNodePort         == Set("port", Port)
hdfsBuilderSetUserName(user)       == Set("userName", user)
hdfsBuilderSetPrincipal(principal) == Set("principal", principal)
\* (asserted: a user name has not been set)
hdfsBuilderSetToken(token) == bld # None /\ bld[1].userName = <<>> /\ Set("token", token)

\* hdfsBuilderConfSetStr and, for the path of the ticket cache,
\* hdfsBuilderSetKerbTicketCachePath; the empty text is refused.
hdfsBuilderConfSetStr(key, val) ==
    /\ bld # None
    /\ IF val = <<>> THEN result' = "failed" /\ UNCHANGED <<bld, fs, holders, asked, sets>>
       ELSE Set("conf", (key :> val) @@ bld[1].conf)

-----------------------------------------------------------------------------
(* Who connects *)

ParseMethod(text) ==
    CASE text = <<"simple">>   -> Value("SIMPLE")
      [] text = <<"kerberos">> -> Value("KERBEROS")
      [] text = <<"token">>    -> Value("TOKEN")
      [] OTHER -> Throws("InvalidParameter")

ExtractPrincipalFromTicketCache == IF TicketCache = <<>> THEN Throws("HdfsIOException") ELSE Value(TicketCache)

\* The user a token stands for: its real user, or its owner without one.
ExtractPrincipalFromToken(token) ==
    IF token.version # 0 THEN Throws("HdfsIOException")
    ELSE Value(IF token.realUser = <<>> THEN token.owner ELSE token.realUser)

Credentials(auth, username, token) ==
    IF token # <<>> /\ auth # "SIMPLE"
    THEN IF TokenOf[token] = None THEN Throws("HdfsInvalidBlockToken")
         ELSE LET p == ExtractPrincipalFromToken(TokenOf[token][1])
              IN  IF p.ok THEN Value([principal |-> p.value, token |-> TokenOf[token]]) ELSE p
    ELSE IF auth = "KERBEROS" /\ username = <<>>
    THEN LET p == ExtractPrincipalFromTicketCache
         IN  IF p.ok THEN Value([principal |-> p.value, token |-> None]) ELSE p
    ELSE Value([principal |-> username, token |-> None])

\* UserInfo: the effective user is the name of a Kerberos principal, the tokens
\* are kept by kind and service.
UserInfo(text) == [effectiveUser |-> parse(text), tokens |-> <<>>]
addToken(user, token) == [user EXCEPT !.tokens = (<<token.kind, token.service>> :> token) @@ @]
selectToken(user, kind, service) ==
    IF <<kind, service>> \in DOMAIN user.tokens THEN <<user.tokens[<<kind, service>>]>> ELSE None

LocalUserInfo == UserInfo(LocalUser)

\* (the name of a user is one component)
getHomeDirectory(user) == <<"", "user">> \o user.effectiveUser.name

\* RpcChannelKey: the token a channel authenticates with, if there is one for the
\* protocol and the service.
TOKEN_KIND == "HDFS_DELEGATION_TOKEN"
RpcChannelKeyToken(session) == selectToken(session.user, TOKEN_KIND, session.tokenService)

\* FileSystemKey: whose session on which server.
FileSystemKey(uri, principal) ==
    IF uri.server = <<>> \/ uri.scheme \notin {"", "hdfs"} THEN Throws("InvalidParameter")
    ELSE Value([host |-> uri.server, port |-> uri.port,
                user |-> CASE principal # <<>> -> UserInfo(principal)
                           [] principal = <<>> /\ uri.user = <<>> -> LocalUserInfo
                           [] OTHER -> UserInfo(uri.user)])

-----------------------------------------------------------------------------
(* Connecting *)

\* FileSystemImpl::connect up to its first call: a host without a port is a
\* nameservice; NamenodeProxy takes no namenode without an address.
Namenodes(kv, key) ==
    IF key.port # 0
    THEN Value([servers |-> <<<<key.host, key.port>>>>, tokenService |-> <<"", key.host, key.port>>])
    ELSE LET entry == getStringRequired(kv, HaKey[key.host])
             infos == GetHANamenodeInfo(key.host, entry.value, HaAddresses)
         IN  IF ~ entry.ok \/ \E i \in DOMAIN infos : infos[i].rpc = <<>>
             THEN Throws("InvalidParameter")
             ELSE IF infos = <<>> THEN Throws("HdfsFileSystemClosed")
             ELSE Value([servers |-> [i \in DOMAIN infos |-> infos[i].rpc],
                         tokenService |-> <<"ha-hdfs", key.host, 0>>])

\* ConnectInternal and FileSystemImpl::connect with the credentials of the user.
ConnectInternal(kv, uri, session, auth, cred) ==
    LET key  == FileSystemKey(uri, cred.principal)
        nns  == Namenodes(kv, key.value)
        user == IF cred.token = None THEN key.value.user ELSE addToken(key.value.user, cred.token[1])
    IN  IF key.ok /\ nns.ok
        THEN <<[conf |-> kv, auth |-> auth, user |-> user, servers |-> nns.value.servers,
                tokenService |-> nns.value.tokenService, session |-> session,
                workingDir |-> getHomeDirectory(user), out |-> None]>>
        ELSE None

\* FileSystem::connect(uri, username, token) of an object that is not connected;
\* up says whether the first call, getFsStats, succeeds.  Any failure deletes what
\* was built.
Connect(kv, uri, username, token, up) ==
    LET session == SessionConfig(kv)
        auth    == ParseMethod(session.value.str["hadoop.security.authentication"])
        cred    == Credentials(auth.value, username, token)
    IN  IF session.ok /\ auth.ok /\ cred.ok /\ up
        THEN ConnectInternal(kv, uri, session.value, auth.value, cred.value)
        ELSE None

\* hdfsBuilderConnect: the URI of the namenode with the builder's port and user.
\* Two ports or two users are an error, not a choice.
BuilderUri(b, defaultUri) ==
    LET parsed == UriOf[IF b.nn = <<"default">> THEN defaultUri ELSE b.nn]
    IN  IF \/ parsed = None
           \/ parsed[1].port # 0 /\ b.port # 0
           \/ parsed[1].user # <<>> /\ b.userName # <<>>
        THEN Throws("InvalidParameter")
        ELSE Value([parsed[1] EXCEPT !.user = IF @ # <<>> THEN @ ELSE b.userName,
                                     !.port = IF @ # 0 THEN @ ELSE b.port])

\* What a builder's connection ends in: a session, NULL, or an exception that
\* leaves the function (the SessionConfig is built outside of its try blocks).
Outcome(opened) == [result |-> IF opened = None THEN "failed" ELSE "ok", opened |-> opened]
BuilderConnect(b, up) ==
    LET session == SessionConfig(b.conf)
        uri     == BuilderUri(b, session.value.str["dfs.default.uri"])
    IN  CASE b.nn = <<>> -> Outcome(None)
          [] b.nn # <<>> /\ ~ session.ok -> [result |-> "thrown", opened |-> None]
          [] b.nn # <<>> /\ session.ok /\ ~ uri.ok -> Outcome(None)
          [] OTHER -> Outcome(Connect(b.conf, uri.value, IF b.token = <<>> THEN b.principal ELSE <<>>,
                                      b.token, up))

\* The function returns what outcome says, for the settings of the builder b.
Returns(outcome, b) ==
    /\ result' = outcome.result /\ fs' = outcome.opened
    /\ asked' = IF outcome.opened = None THEN None ELSE <<b>>
    /\ holders' = IF outcome.opened = None THEN {} ELSE {"first"}
    /\ UNCHANGED <<bld, sets>>

hdfsBuilderConnect(up) ==
    /\ bld # None /\ fs = None
    /\ \E outcome \in {BuilderConnect(bld[1], up)} : Returns(outcome, bld[1])

\* hdfsConnect and its variants: a builder of their own, freed at the end.
hdfsConnect(env, host, user, up) ==
    /\ fs = None /\ bld = None
    /\ \E conf \in {DefaultConfig(env)} :
        IF conf.ok
        THEN \E b \in {[NewHdfsBuilder(conf.value) EXCEPT !.nn = host, !.port = Port, !.userName = user]} :
                \E outcome \in {BuilderConnect(b, up)} : Returns(outcome, b)
        ELSE Returns(Outcome(None), None)

\* FileSystem::connect of an object that is connected is refused before its try
\* block, and the session goes on.
Objects == {"first", "copy"}
Connected == holders \cap Objects
connectAgain == Connected # {} /\ result' = "failed" /\ UNCHANGED <<bld, fs, holders, asked, sets>>

\* Another holder of the session; what it costs counts as a call.
Hold(h) ==
    /\ h \notin holders /\ sets < MaxSets
    /\ holders' = holders \cup {h} /\ sets' = sets + 1 /\ result' = "ok"
    /\ UNCHANGED <<bld, fs, asked>>

\* The copy constructor and the assignment of FileSystem share the session.
copyFileSystem == Connected # {} /\ Hold("copy")

\* InputStream::open and OutputStream::open: an object that is not connected is
\* refused; a stream shares the session of the object it was opened with.
NotConnected(o) == o \notin holders /\ result' = "failed" /\ UNCHANGED <<bld, fs, holders, asked, sets>>
InputStreamOpen(o)  == fs # None /\ (NotConnected(o) \/ (o \in holders /\ Hold("in")))

\* The sizes hdfsOpenFile works out and looks at before it creates the file, and
\* OutputStreamImpl::openInternal again once it is created.
ConfiguredSizes(blockSize) ==
    [block |-> IF blockSize = 0 THEN fs[1].session.i64["dfs.default.blocksize"] ELSE blockSize,
     chunk |-> fs[1].session.i32["output.default.chunksize"],
     packet |-> fs[1].session.i32["output.default.packetsize"]]
Accepted(sizes) == sizes.packet >= sizes.chunk /\ sizes.block % sizes.chunk = 0
hdfsOpenFile(sizes) == Accepted(sizes)
openInternal(sizes) == Accepted(ConfiguredSizes(sizes.block))

OutputStreamOpen(o, blockSize) ==
    /\ fs # None
    /\ \/ NotConnected(o)
       \/ /\ o \in holders /\ "out" \notin holders /\ sets < MaxSets
          /\ \E sizes \in {ConfiguredSizes(blockSize)} :
               IF hdfsOpenFile(sizes) /\ openInternal(sizes)
               THEN /\ fs' = <<[fs[1] EXCEPT !.out = <<sizes>>]>>
                    /\ holders' = holders \cup {"out"} /\ result' = "ok"
               ELSE /\ result' = IF hdfsOpenFile(sizes) THEN "created, then refused" ELSE "failed"
                    /\ UNCHANGED <<fs, holders>>
          /\ sets' = sets + 1
          /\ UNCHANGED <<bld, asked>>

\* FileSystem::disconnect of one object, hdfsDisconnect, and the close of a stream:
\* the session ends with the last that holds it.
Release(h) ==
    /\ h \in holders
    /\ holders' = holders \ {h} /\ result' = "ok"
    /\ IF holders = {h} THEN fs' = None /\ asked' = None
       ELSE fs' = (IF h = "out" THEN <<[fs[1] EXCEPT !.out = None]>> ELSE fs) /\ UNCHANGED asked
    /\ UNCHANGED <<bld, sets>>
hdfsDisconnect(o) == o \in Objects /\ Release(o)
InputStreamClose  == Release("in")
OutputStreamClose == Release("out")

\* FileSystemImpl::setWorkingDirectory: only an absolute path, kept as it is given.
hdfsSetWorkingDirectory(path) ==
    /\ Connected # {} /\ sets < MaxSets
    /\ IF path # <<>> /\ path[1] = ""
       THEN fs' = <<[fs[1] EXCEPT !.workingDir = path]>> /\ sets' = sets + 1 /\ result' = "ok"
       ELSE result' = "failed" /\ UNCHANGED <<fs, sets>>
    /\ UNCHANGED <<bld, holders, asked>>

\* Queries, which share nothing with a builder or a session: they are asked while
\* there is neither.
Query == bld = None /\ fs = None /\ UNCHANGED <<bld, fs, holders, asked, sets>>

\* hdfsGetHANamenodes and hdfsGetHANamenodesWithConfig: no namenodes is NULL too.
hdfsGetHANamenodes(env, service) ==
    /\ Query
    /\ LET conf  == DefaultConfig(env)
           entry == getStringRequired(conf.value, HaKey[service])
           found == hdfsGetConfiguredNamenodesInternal(service, entry.value, HaAddresses)
       IN  result' = IF conf.ok /\ entry.ok /\ found # <<>> THEN "ok" ELSE "failed"

\* hdfsConfGetStr and hdfsConfGetInt read the default configuration anew.
hdfsConfGetStr(env, key) ==
    /\ Query
    /\ LET conf == DefaultConfig(env)
       IN  result' = IF conf.ok /\ getStringRequired(conf.value, key).ok THEN "ok" ELSE "failed"
hdfsConfGetInt(env, key) ==
    /\ Query
    /\ LET conf == DefaultConfig(env)
       IN  result' = IF conf.ok /\ getInt32Required(conf.value, key).ok THEN "ok" ELSE "failed"

Envs == {None} \cup {<<f>> : f \in Files}

SessionNext ==
    \/ \E env \in Envs : hdfsNewBuilder(env)
    \/ hdfsFreeBuilder
    \/ \E nn \in NameNodes : hdfsBuilderSetNameNode(nn)
    \/ hdfsBuilderSetNameNodePort
    \/ \E user \in UserNames : hdfsBuilderSetUserName(user)
    \/ \E principal \in Principals : hdfsBuilderSetPrincipal(principal)
    \/ \E token \in Tokens : hdfsBuilderSetToken(token)
    \/ \E s \in Settings : hdfsBuilderConfSetStr(s[1], s[2])
    \/ \E up \in BOOLEAN : hdfsBuilderConnect(up)
    \/ \E env \in Envs, host \in NameNodes, user \in UserNames \cup {<<>>}, up \in BOOLEAN :
            hdfsConnect(env, host, user, up)
    \/ connectAgain
    \/ copyFileSystem
    \/ \E o \in Objects : hdfsDisconnect(o) \/ InputStreamOpen(o)
    \/ \E o \in Objects, size \in BlockSizes : OutputStreamOpen(o, size)
    \/ InputStreamClose \/ OutputStreamClose
    \/ \E path \in Directories : hdfsSetWorkingDirectory(path)
    \/ \E env \in Envs, service \in DOMAIN HaKey : hdfsGetHANamenodes(env, service)
    \/ \E env \in Envs, s \in Settings : hdfsConfGetStr(env, s[1]) \/ hdfsConfGetInt(env, s[1])

-----------------------------------------------------------------------------

AskedUri == LET b == asked[1]
            IN  UriOf[IF b.nn = <<"default">> THEN fs[1].session.str["dfs.default.uri"] ELSE b.nn][1]

AskedPorts == {AskedUri.port, asked[1].port} \ {0}

\* A session talks to the server and the port that were asked for, on the builder
\* or in the URI but never one of two (hdfsBuilderConnect), and without a port to
\* every namenode of that nameservice, and of no other, in the order of the
\* configuration.
ServersAreAsked ==
    fs # None =>
        /\ AskedUri.port = 0 \/ asked[1].port = 0
        /\ IF AskedPorts # {}
           THEN fs[1].servers = <<<<AskedUri.server, CHOOSE p \in AskedPorts : TRUE>>>>
           ELSE LET names == SelectSeq(asked[1].conf[HaKey[AskedUri.server]], LAMBDA w : w \notin {" ", ","})
                IN  fs[1].servers = [i \in DOMAIN names |->
                                        StringTrim(HaAddresses[<<"rpc", AskedUri.server, <<names[i]>>>>])]

\* With Kerberos a session acts for the token's user, the principal given or the
\* owner of the ticket cache, never for a name that was only put in the URI or is
\* the process's own (FileSystem::connect decides before FileSystemKey falls back).
KerberosUserIsProven ==
    fs # None /\ fs[1].auth = "KERBEROS" =>
        LET b == asked[1]
        IN  fs[1].user.effectiveUser \in
                IF b.token # <<>>
                THEN {parse(TokenOf[b.token][1].realUser), parse(TokenOf[b.token][1].owner)}
                ELSE {parse(IF b.principal # <<>> THEN b.principal ELSE TicketCache)}

\* A session that was opened with a delegation token of its own service finds it
\* again when it connects to a namenode: the service is named the same way for
\* every namenode of a nameservice (FileSystemImpl::connect, RpcChannelKey).
TokenIsFound ==
    fs # None /\ fs[1].auth # "SIMPLE" /\ asked[1].token # <<>> =>
        LET token == TokenOf[asked[1].token][1]
            own   == IF AskedPorts = {} THEN <<"ha-hdfs", AskedUri.server, 0>>
                     ELSE <<"", AskedUri.server, CHOOSE p \in AskedPorts : TRUE>>
        IN  token.kind = TOKEN_KIND /\ token.service = own => RpcChannelKeyToken(fs[1]) = <<token>>

\* A path that does not start at the root is looked for below the working directory
\* that was set last, at first the home directory of the session's user, and that
\* always starts at the root: a walk along both ends where the path resolves to
\* (FileSystemImpl::setWorkingDirectory, getStandardPath).
PathsResolveFromRoot ==
    fs # None => /\ Head(fs[1].workingDir) = ""
                 /\ \A path \in Directories : PathIsWalked(fs[1].workingDir, path)

\* A file that is written has blocks of whole chunks and packets that hold a chunk
\* at least, whatever chunk, packet and block size the files, the builder and the
\* caller ask for between them, and no file is created whose sizes the stream then
\* refuses (hdfsOpenFile, OutputStreamImpl::openInternal).
WritesWholeChunks ==
    /\ fs # None /\ fs[1].out # None =>
          LET sizes == fs[1].out[1]
          IN  sizes.chunk > 0 /\ sizes.block % sizes.chunk = 0 /\ sizes.packet >= sizes.chunk
    /\ result # "created, then refused"

=============================================================================
