------------------------------ MODULE MCCodecs ------------------------------
(***************************************************************************)
(* The pure computations of the client over their bounded inputs, the      *)
(* erasure coder with a decoder that is used several times, and the life   *)
(* of a session.  "part" selects one of the three; an input is checked in  *)
(* the one state that holds it.                                            *)
(***************************************************************************)
EXTENDS ErasureCoder, Checksums, WireFormat, Session, Conversions

VARIABLES part, input

mcVars == <<part, input, vars, sessionVars>>

-----------------------------------------------------------------------------
(* The world of a session *)

MCNumberOf == (<<"0">> :> 0) @@ (<<"1">> :> 1) @@ (<<"512">> :> 512) @@ (<<"513">> :> 513)
              @@ (<<"-1">> :> -1) @@ (<<"1024">> :> 1024) @@ (<<"5000000">> :> 5000000)

Element(tag, text) == [tag |-> tag, text |-> text]
Property(key, value) == [tag |-> "property", items |-> <<Element("name", <<key>>), Element("value", value)>>]
File(doc) == [readable |-> TRUE, root |-> "configuration", doc |-> doc]

HaEntry == Property("dfs.ha.namenodes.ns", <<"n1", ",", " ", "n2">>)
OtherHaEntry == Property("dfs.ha.namenodes.other", <<"n2">>)
MCFiles == {[File(<<>>) EXCEPT !.readable = FALSE],
            File(<<HaEntry, Property("hadoop.security.authentication", <<"kerberos">>)>>),
            File(<<HaEntry, [tag |-> "property", items |-> <<Element("value", <<"1">>)>>]>>)}
MCDefaultFile == File(<<Property("dfs.default.uri", <<"ns">>), HaEntry, OtherHaEntry>>)

Uri(scheme, user, server, port) == <<[scheme |-> scheme, user |-> user, server |-> server, port |-> port]>>
MCUriOf == (<<"ns">> :> Uri("hdfs", <<>>, <<"ns">>, 0)) @@ (<<"other">> :> Uri("hdfs", <<>>, <<"other">>, 0))
           @@ (<<"h:1">> :> Uri("hdfs", <<>>, <<"h">>, 1))
           @@ (<<"u@h">> :> Uri("hdfs", <<"u">>, <<"h">>, 0)) @@ (<<"http://h:1">> :> Uri("http", <<>>, <<"h">>, 1))
           @@ (<<"%">> :> <<>>)
           @@ (<<"hdfs://localhost:9000">> :> Uri("hdfs", <<>>, <<"localhost">>, 9000))
MCNameNodes == {<<"default">>} \cup (DOMAIN MCUriOf \ {<<"hdfs://localhost:9000">>})

MCSettings == {<<"hadoop.security.authentication", <<"kerberos">>>>,
               <<"hadoop.security.authentication", <<"ldap">>>>,
               <<"dfs.ha.namenodes.ns", <<"n1", ",", "n3">>>>,
               <<"input.read.max.retry", <<"0">>>>, <<"output.default.chunksize", <<"513">>>>,
               <<"output.default.chunksize", <<"1024">>>>, <<"output.default.packetsize", <<"512">>>>,
               <<"dfs.prefetchsize", <<"5000000">>>>, <<"dfs.prefetchsize", <<>>>>}

TokenRecord(version, owner, realUser, service) ==
    <<[version |-> version, owner |-> owner, realUser |-> realUser,
       kind |-> "HDFS_DELEGATION_TOKEN", service |-> service]>>
MCTokenOf == (<<"t1">> :> TokenRecord(0, <<"o">>, <<>>, <<"ha-hdfs", <<"ns">>, 0>>))
             @@ (<<"t2">> :> TokenRecord(0, <<"o">>, <<"r", "@", "R">>, <<"", <<"h">>, 1>>))
             @@ (<<"t3">> :> TokenRecord(1, <<"o">>, <<>>, <<"", <<"h">>, 1>>)) @@ (<<"t4">> :> <<>>)
MCTokens == DOMAIN MCTokenOf

MCDirectories == {<<"", "d", "..", "e">>, <<"", "">>, <<"d", "e">>, <<"..", "x">>}
MCUserNames == {<<"v">>}
MCPrincipals == {<<"p", "/", "h", "@", "R">>}
MCLocalUser == <<"me">>
MCTicketCache == <<"k", "@", "R">>
MCHaKey == (<<"ns">> :> "dfs.ha.namenodes.ns") @@ (<<"other">> :> "dfs.ha.namenodes.other")
           @@ (<<"h">> :> "dfs.ha.namenodes.h")
MCHaAddresses == [k \in {"rpc", "http"} \X {<<"ns">>, <<"other">>} \X {<<"n1">>, <<"n2">>} |->
                     <<" ", k[1], k[2][1], k[3][1]>>]
MCBlockSizes == {0, 512, 513, 1024}

-----------------------------------------------------------------------------
(* The inputs *)

Components == {"a", "b", "", ".", ".."}
PathInputs == {[kind |-> "path", dir |-> <<"">> \o dir, path |-> path] :
                    dir \in SeqOf(Components, 2), path \in SeqOf(Components, 3)}
PrincipalInputs == {[kind |-> "principal", text |-> text] : text \in SeqOf({"u", "v", "/", "@"}, 5)}
NamenodeInputs == {[kind |-> "namenodes", text |-> text] : text \in SeqOf({"n1", "n2", " ", ","}, 5)}

Properties == {Property(key, value) : key \in {"k", "l"}, value \in {<<>>, <<"1">>, <<"2">>}}
              \cup {[tag |-> "property", items |-> <<>>], [tag |-> "comment", items |-> <<>>]}
DocumentInputs == {[kind |-> "document", doc |-> doc] : doc \in SeqOf(Properties, 3)}

\* Around every length the encodings change at.
Numbers == UNION {{-n - 2, -n - 1, -n, n - 1, n, n + 1} : n \in {1, 112, 127, 128, 256, 65536}}
NumberInputs == {[kind |-> "number", value |-> n] : n \in Numbers}
Some(n) == [i \in 1 .. n |-> (251 + 62 * i) % 256]
TokenInputs == {[kind |-> "token", token |-> [identifier |-> Some(i), password |-> Some(p),
                                              kind |-> Some(k), service |-> <<255, 191>>]] :
                    i \in 0 .. 4, p \in 0 .. 2, k \in {0, 1, 130}}
Lengths == {0, 1, 3, 10, 127, 128}
CallInputs == {[kind |-> "call", header |-> Some(h), msg |-> msg] :
                    h \in Lengths, msg \in {<<>>} \cup {<<Some(n)>> : n \in Lengths}}
ChecksumInputs == {[kind |-> "checksum", first |-> Some(n), rest |-> Some(k)] : n \in 0 .. 4, k \in {0, 1, 4}}
PieceInputs == {[kind |-> "pieces", address |-> a, len |-> n] : a \in 0 .. 7, n \in 0 .. 24}

ProductInputs == {[kind |-> "product", coefficient |-> c] : c \in Byte}

DatanodeProto(n) ==
    [id |-> [hostname |-> <<"host", n>>, infoport |-> n, ipaddr |-> <<"ip", n>>, ipcport |-> n + 10,
             datanodeuuid |-> <<"id", n>>, xferport |-> n + 20], location |-> "rack"]
TokenProto(n) == [identifier |-> <<"i", n>>, kind |-> "k", password |-> <<"p", n>>, service |-> "s"]
BlockProto(offset, nodes, striped) ==
    [b |-> [blockid |-> offset, generationstamp |-> 1, numbytes |-> 4, poolid |-> "pool"],
     offset |-> offset, corrupt |-> FALSE, locs |-> [i \in 1 .. nodes |-> DatanodeProto(i)],
     storagetypes |-> [i \in 1 .. nodes |-> "DISK"], storageids |-> [i \in 1 .. nodes |-> <<"storage", i>>],
     blocktoken |-> TokenProto(0), blockindices |-> IF striped THEN <<[i \in 1 .. nodes |-> i - 1]>> ELSE <<>>,
     blocktokens |-> IF striped THEN [i \in 1 .. nodes |-> TokenProto(i)] ELSE <<>>]
BlockInputs == {[kind |-> "blocks", blocks |-> [i \in DOMAIN s |-> BlockProto(s[i], 1 + (s[i] % 3), s[i] = 4)]] :
                    s \in SeqOf({0, 4, 8}, 3)}
ModeInputs == {[kind |-> "mode", status |->
                    [path |-> "f", length |-> 1, filetype |-> "IS_FILE", block_replication |-> 3, blocksize |-> 4,
                     access_time |-> 1999, modification_time |-> 0, owner |-> "o", group |-> "g",
                     perm |-> mode, fileid |-> 7]] : mode \in 0 .. 2047}
PolicyProto(id, data) == [id |-> id, cellsize |-> 1024 * data, dataunits |-> data, parityunits |-> 1, codecname |-> "rs"]
PolicyInputs == {[kind |-> "policies", protos |-> protos] :
                    protos \in SeqOf({PolicyProto(id, data) : id \in {64, 65, 128, 255}, data \in {2, 3}}, 3)}

SystemPolicies == [id \in 0 .. 5 |-> NewECPolicy(id, 1024 * 1024, 6, 3, "RS")]

Inputs == PathInputs \cup PrincipalInputs \cup NamenodeInputs \cup DocumentInputs \cup NumberInputs
          \cup TokenInputs \cup CallInputs \cup ChecksumInputs \cup PieceInputs \cup ProductInputs
          \cup BlockInputs \cup ModeInputs \cup PolicyInputs

NoInput == [kind |-> "none"]

-----------------------------------------------------------------------------

Idle == coder = <<>> /\ units = <<>> /\ decoder = <<>> /\ last = "none"

MCInit ==
    \/ part = "input" /\ input \in Inputs /\ Idle /\ SessionInit
    \/ part = "coder" /\ input = NoInput /\ Init /\ SessionInit
    \/ part = "session" /\ input = NoInput /\ Idle /\ SessionInit

MCNext ==
    \/ part = "coder" /\ Next /\ UNCHANGED <<part, input, sessionVars>>
    \/ part = "session" /\ SessionNext /\ UNCHANGED <<part, input, vars>>

MCSpec == MCInit /\ [][MCNext]_mcVars

-----------------------------------------------------------------------------
(* What holds of every input, each stated in the module of the computation *)

Is(kind) == input.kind = kind

\* Paths are resolved as a walk from the root resolves them
\* (FileSystemImpl::getStandardPath).
PathsAreWalked == Is("path") => PathIsWalked(input.dir, input.path)

\* Kerberos principals survive being written out and read again (KerberosName).
PrincipalsAreKept == Is("principal") => PrincipalIsKept(input.text)

\* The namenodes of a nameservice are found in their order (NamenodeInfo).
NamenodesAreFound == Is("namenodes") => NamenodesAreListed(<<"ns">>, input.text, HaAddresses)

\* Of several properties of one name in a file the last counts, and a file with
\* an element that is no named property gives no configuration at all
\* (Config::update).
LastPropertyCounts ==
    Is("document") =>
        LET kv    == ConfigUpdate(File(input.doc))
            named == {i \in DOMAIN input.doc : input.doc[i].items # <<>>}
            key(i) == input.doc[i].items[1].text[1]
        IN  /\ kv.ok <=> named = DOMAIN input.doc
            /\ kv.ok => \A i \in named :
                   (\A j \in named : j > i => key(j) # key(i)) => kv.value[key(i)] = input.doc[i].items[2].text

\* Integers of Hadoop's variable length survive (WritableUtils).
NumbersSurvive == Is("number") => NumberSurvives(input.value)

\* Tokens survive their text form (Token::toString and fromString).
TokensSurvive == Is("token") => TokenSurvives(input.token)

\* Frames are read as they were written (RpcRemoteCall, RpcContentWrapper, WriteBuffer,
\* DataTransferProtocolSender).
FramesAreReadable ==
    Is("call") => /\ CallIsReadable(input.header, input.msg)
                  /\ \A method \in {"SIMPLE", "KERBEROS", "TOKEN"} : PreambleIsReadable(method)
                  /\ \A op \in {80, 81, 86, 87} : OperationIsReadable(op, input.header)

\* Checksums are those of CRC-32C (SWCrc32c).
ChecksumsAreCrc32c == Is("checksum") => TableIsCrc32c(input.first, input.rest)

\* The instruction is applied to every byte (HWCrc32c).
EveryByteIsSummed == Is("pieces") => PiecesCover(input.address, input.len)

\* Products of the erasure coder are those of its field (GF256, RSUtil).
ProductsAreExact == Is("product") => ProductIsExact(input.coefficient)

\* Located blocks come out sorted, and are sent back as they came (RpcHelper.h).
LocatedBlocksAreKept ==
    Is("blocks") => /\ BlocksAreSorted(input.blocks)
                    /\ \A i \in DOMAIN input.blocks : SentBackUnchanged(input.blocks[i])

\* The mode of a file reaches the user (Permission, ConstructHdfsFileInfo).
ModesAreKept == Is("mode") => ModeIsKept(input.status)

\* A file keeps its own erasure coding policy (SystemECPolicies).
PoliciesAreTheFiles == Is("policies") => PolicyIsTheFiles(SystemPolicies, input.protos)

\* Whatever was lost and decoded before, a decoder returns what was lost
\* (RawErasureDecoder::decode, NativeRSRawDecoder::decodeImpl).
CoderDecodedIsOriginal == part = "coder" => DecodedIsOriginal


\* What is encoded is what the other side decodes: numbers, tokens and frames on
\* the wire, checksums and the products of the coder, and the located blocks, modes
\* and policies of the namenode's answers (WritableUtils, Token, WriteBuffer,
\* SWCrc32c, HWCrc32c, GF256, RpcHelper.h).
MessagesSurvive ==
    /\ NumbersSurvive /\ TokensSurvive /\ FramesAreReadable /\ ChecksumsAreCrc32c /\ EveryByteIsSummed
    /\ ProductsAreExact /\ LocatedBlocksAreKept /\ ModesAreKept /\ PoliciesAreTheFiles

\* A name leads to what it names: a path where walking it from the root leads, a
\* principal to its parts and back, a nameservice to its namenodes in their order,
\* a setting to its last value in the file (FileSystemImpl::getStandardPath,
\* KerberosName, NamenodeInfo, Config::update).
NamesAreResolved == PathsAreWalked /\ PrincipalsAreKept /\ NamenodesAreFound /\ LastPropertyCounts

=============================================================================
