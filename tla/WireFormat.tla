----------------------------- MODULE WireFormat -----------------------------
(***************************************************************************)
(* What the client puts on the wire or in a string, byte by byte where the *)
(* layout is its own: WriteBuffer, the frames of the RPC and of the data   *)
(* transfer protocol, Hadoop's variable length integers (WritableUtils)    *)
(* and the text form of a token.  Protobuf messages are opaque bytes.      *)
(*                                                                         *)
(* Bytes are 0 .. 255.  A read gives [ok, value, pos]: not ok is the       *)
(* exception of the code.  The 32 bit range of WritableUtils::ReadInt32 is *)
(* Int32Bound, so that values past it stay within TLC's integers.          *)
(***************************************************************************)
EXTENDS Integers, Sequences, FiniteSets, SequencesExt

CONSTANTS Int32Bound, WRITEBUFFER_INIT_SIZE, TokenBufferSize

-----------------------------------------------------------------------------
(* WriteBuffer: the bytes written so far and the size of the vector. *)

NewWriteBuffer == [data |-> <<>>, cap |-> WRITEBUFFER_INIT_SIZE]

\* WriteBuffer::alloc at the end of the data, and the caller's copy into it.
alloc(b, bytes) ==
    LET target == Len(b.data) + Len(bytes)
    IN  [data |-> b.data \o bytes,
         cap  |-> IF target >= b.cap THEN (IF target > 2 * b.cap THEN target ELSE 2 * b.cap)
                  ELSE b.cap]

\* WriteBuffer::write with a position: the position is only asserted, the bytes
\* go to the end.
writeAt(b, bytes, pos) == alloc(b, bytes)

BigEndian(value, n) == [i \in 1 .. n |-> (value \div 256 ^ (n - i)) % 256]

writeBigEndian16(b, value) == writeAt(b, BigEndian(value, 2), Len(b.data))
writeBigEndian32(b, value) == writeAt(b, BigEndian(value, 4), Len(b.data))

\* ReadBigEndian16FromArray: a signed 16 bit value.
ReadBigEndian16(bytes) ==
    LET u == 256 * bytes[1] + bytes[2] IN IF u >= 32768 THEN u - 65536 ELSE u

\* Protobuf's varint: seven bits at a time, the lowest first.
Varint(value) ==
    LET size == CHOOSE n \in 1 .. 4 : value < 128 ^ n /\ (n > 1 => value >= 128 ^ (n - 1))
    IN  [i \in 1 .. size |-> ((value \div 128 ^ (i - 1)) % 128) + IF i < size THEN 128 ELSE 0]

writeVarint32(b, value) == writeAt(b, Varint(value), Len(b.data))

\* RpcContentWrapper: the header and the request, each behind its length; a
\* missing request is <<>>.
getLength(header, msg) ==
    Len(header) + Len(Varint(Len(header)))
        + IF msg = <<>> THEN 0 ELSE Len(msg[1]) + Len(Varint(Len(msg[1])))

writeTo(b, header, msg) ==
    LET h == alloc(writeVarint32(b, Len(header)), header)
    IN  IF msg = <<>> THEN h ELSE alloc(writeVarint32(h, Len(msg[1])), msg[1])

\* RpcChannelImpl::sendConnectionContent: the length, the header and the context.
sendConnectionContent(header, msg) ==
    writeTo(writeBigEndian32(NewWriteBuffer, getLength(header, msg)), header, msg)

\* RpcRemoteCall::GetPingRequest: a header alone.
GetPingRequest(header) ==
    alloc(writeVarint32(writeBigEndian32(NewWriteBuffer, Len(Varint(Len(header))) + Len(header)),
                        Len(header)), header)

\* RpcRemoteCall::serialize: a call is its length, the header of the RPC, and the
\* header and the parameter of the method.
serialize(rpcHeader, header, msg) ==
    LET size == Len(Varint(Len(rpcHeader))) + Len(rpcHeader) + getLength(header, msg)
        b    == writeVarint32(writeBigEndian32(NewWriteBuffer, size), Len(rpcHeader))
    IN  writeTo(alloc(b, rpcHeader), header, msg)

\* RpcChannelImpl::sendConnectionHeader: "hrpc", the version, the service class, and
\* the protocol of the authentication, -33 in a byte for SASL.
RPC_HEADER_MAGIC == <<104, 114, 112, 99>>
RPC_HEADER_VERSION == 9
sendConnectionHeader(method) ==
    LET protocol == IF method = "SIMPLE" THEN 0 ELSE -33
        b == writeAt(NewWriteBuffer, RPC_HEADER_MAGIC, 0)
    IN  alloc(alloc(alloc(b, <<RPC_HEADER_VERSION>>), <<0>>), <<protocol % 256>>)

\* DataTransferProtocolSender Send: version, operation, length, message.
DATA_TRANSFER_VERSION == 28

Send(op, msg) ==
    LET b == writeBigEndian16(NewWriteBuffer, DATA_TRANSFER_VERSION)
    IN  alloc(writeVarint32(writeAt(b, <<op>>, Len(b.data)), Len(msg)), msg)

-----------------------------------------------------------------------------
(* WritableUtils: Hadoop's variable length integers and texts. *)

\* The one byte range, then a byte with the sign and the length, then the
\* magnitude (the complement of a negative value), highest byte first.
WriteInt64(value) ==
    IF value \in -112 .. 127 THEN <<value % 256>>
    ELSE LET magnitude == IF value < 0 THEN -1 - value ELSE value
             n == CHOOSE n \in 1 .. 3 : magnitude < 256 ^ n /\ (n > 1 => magnitude >= 256 ^ (n - 1))
         IN  <<((IF value < 0 THEN -120 ELSE -112) - n) % 256>> \o BigEndian(magnitude, n)

decodeWritableUtilsSize(first) ==
    IF first >= -112 THEN 1 ELSE IF first < -120 THEN -119 - first ELSE -111 - first

isNegativeWritableUtils(first) == first < -120 \/ (first >= -112 /\ first < 0)

Failed == [ok |-> FALSE, value |-> 0, pos |-> 0]

ReadInt64(bytes, pos) ==
    LET first == IF bytes[pos] >= 128 THEN bytes[pos] - 256 ELSE bytes[pos]
        n     == decodeWritableUtilsSize(first)
        magnitude[i \in 0 .. n - 1] ==
            IF i = 0 THEN 0 ELSE 256 * magnitude[i - 1] + bytes[pos + i]
    IN  IF pos > Len(bytes) THEN Failed
        ELSE IF n = 1 THEN [ok |-> TRUE, value |-> first, pos |-> pos + 1]
        ELSE IF pos + n - 1 > Len(bytes) THEN Failed
        ELSE [ok |-> TRUE, pos |-> pos + n,
              value |-> IF isNegativeWritableUtils(first) THEN -1 - magnitude[n - 1]
                        ELSE magnitude[n - 1]]

ReadInt32(bytes, pos) ==
    LET r == ReadInt64(bytes, pos)
    IN  IF r.ok /\ r.value \in -Int32Bound .. Int32Bound - 1 THEN r ELSE Failed

\* ReadRaw: n bytes; a negative n is a size_t no buffer has.
ReadRaw(bytes, pos, n) ==
    IF n < 0 \/ pos + n - 1 > Len(bytes) THEN Failed
    ELSE [ok |-> TRUE, value |-> SubSeq(bytes, pos, pos + n - 1), pos |-> pos + n]

ReadText(bytes, pos) ==
    LET n == ReadInt32(bytes, pos)
    IN  IF n.ok THEN ReadRaw(bytes, n.pos, n.value) ELSE Failed

WriteText(bytes) == WriteInt64(Len(bytes)) \o bytes

-----------------------------------------------------------------------------
(* Token::toString and fromString. *)

\* The alphabet of gsasl's base64 is 0 .. 63, of which the last two are "+" and
\* "/"; the client's has "-" and "_" instead and no padding.
Plus == 62
Slash == 63
Minus == 64
Underscore == 65
Pad == 66

\* gsasl_base64_to and gsasl_base64_from (external).
gsasl_base64_to(bytes) ==
    LET n == Len(bytes)
        at(i) == IF i <= n THEN bytes[i] ELSE 0
        group(g) == (65536 * at(3 * g + 1)) + (256 * at(3 * g + 2)) + at(3 * g + 3)
    IN  [c \in 1 .. 4 * ((n + 2) \div 3) |->
            LET g == (c - 1) \div 4
                k == (c - 1) % 4
            IN  IF 3 * g + k > n THEN Pad ELSE (group(g) \div 64 ^ (3 - k)) % 64]

gsasl_base64_from(chars) ==
    LET n    == Len(chars)
        pads == Cardinality({i \in 1 .. n : chars[i] = Pad})
        at(i) == IF chars[i] = Pad THEN 0 ELSE chars[i]
        group(g) == (262144 * at(4 * g + 1)) + (4096 * at(4 * g + 2)) + (64 * at(4 * g + 3)) + at(4 * g + 4)
    IN  IF \/ n % 4 # 0 \/ pads > 2
           \/ \E i \in 1 .. n : chars[i] \in {Minus, Underscore} \/ (chars[i] = Pad /\ i <= n - pads)
        THEN Failed
        ELSE [ok |-> TRUE, pos |-> 0,
              value |-> [b \in 1 .. 3 * (n \div 4) - pads |->
                            (group((b - 1) \div 3) \div 256 ^ (2 - ((b - 1) % 3))) % 256]]

Base64Encode(bytes) ==
    LET out == gsasl_base64_to(bytes)
        end == Cardinality({i \in DOMAIN out : out[i] # Pad})
    IN  [i \in 1 .. end |-> CASE out[i] = Plus -> Minus
                              [] out[i] = Slash -> Underscore
                              [] OTHER -> out[i]]

\* The padding is found by trying: none, one, then two "=".
Base64DecodeOnePad(chars) ==
    LET in == [i \in DOMAIN chars |-> CASE chars[i] = Minus -> Plus
                                        [] chars[i] = Underscore -> Slash
                                        [] OTHER -> chars[i]]
        plain == gsasl_base64_from(in)
    IN  IF plain.ok THEN plain ELSE gsasl_base64_from(in \o <<Pad>>)
Base64Decode(chars) ==
    LET in == [i \in DOMAIN chars |-> CASE chars[i] = Minus -> Plus
                                        [] chars[i] = Underscore -> Slash
                                        [] OTHER -> chars[i]]
        plain == gsasl_base64_from(in)
        one   == gsasl_base64_from(in \o <<Pad>>)
    IN  IF plain.ok THEN plain ELSE IF one.ok THEN one ELSE gsasl_base64_from(in \o <<Pad, Pad>>)

\* The four fields go through a buffer of fixed size.
toString(token) ==
    LET bytes == WriteText(token.identifier) \o WriteText(token.password)
                     \o WriteText(token.kind) \o WriteText(token.service)
    IN  IF Len(bytes) > TokenBufferSize THEN Failed
        ELSE [ok |-> TRUE, value |-> Base64Encode(bytes), pos |-> 0]

fromString(chars) ==
    LET bytes == Base64Decode(chars)
        id    == ReadText(bytes.value, 1)
        pw    == ReadText(bytes.value, id.pos)
        kind  == ReadText(bytes.value, pw.pos)
        service == ReadText(bytes.value, kind.pos)
    IN  IF bytes.ok /\ id.ok /\ pw.ok /\ kind.ok /\ service.ok
        THEN [ok |-> TRUE, pos |-> 0,
              value |-> [identifier |-> id.value, password |-> pw.value,
                         kind |-> kind.value, service |-> service.value]]
        ELSE Failed

-----------------------------------------------------------------------------

\* What a peer reads: a varint and as many bytes as it says, from a position.
ReadVarint(bytes, pos) ==
    LET last == CHOOSE i \in pos .. Len(bytes) : bytes[i] < 128 /\ \A j \in pos .. i - 1 : bytes[j] >= 128
        value[i \in pos .. last + 1] == IF i > last THEN 0 ELSE (bytes[i] % 128) + 128 * value[i + 1]
    IN  [value |-> value[pos], pos |-> last + 1]
Delimited(bytes, pos) ==
    LET n == ReadVarint(bytes, pos)
    IN  [value |-> SubSeq(bytes, n.pos, n.pos + n.value - 1), pos |-> n.pos + n.value]

\* A call is read by the server as it was written: the length in front is the
\* number of bytes that follow, the header and the request are found behind their
\* own lengths, and the buffer was never written past its end
\* (RpcContentWrapper::getLength against writeTo, WriteBuffer::alloc).
Framed(b, parts) ==
    LET at[i \in 1 .. Len(parts) + 1] == IF i = 1 THEN 5 ELSE Delimited(b.data, at[i - 1]).pos
    IN  /\ Len(b.data) <= b.cap
        /\ SubSeq(b.data, 1, 4) = BigEndian(Len(b.data) - 4, 4)
        /\ \A i \in DOMAIN parts : Delimited(b.data, at[i]).value = parts[i]
        /\ at[Len(parts) + 1] = Len(b.data) + 1
CallIsReadable(header, msg) ==
    /\ Framed(sendConnectionContent(header, msg), <<header>> \o msg)
    /\ Framed(serialize(<<1>> \o header, header, msg), <<<<1>> \o header, header>> \o msg)
    /\ Framed(GetPingRequest(header), <<header>>)

\* A connection opens with seven bytes from which the server reads the version and
\* whether a SASL handshake follows.
PreambleIsReadable(method) ==
    LET b == sendConnectionHeader(method).data
    IN  Len(b) = 7 /\ b[5] = RPC_HEADER_VERSION /\ (b[7] = 223 <=> method \in {"KERBEROS", "TOKEN"})

\* An operation sent to a datanode is read back: the version, the operation and
\* the whole message.
OperationIsReadable(op, msg) ==
    LET b == Send(op, msg)
    IN  /\ ReadBigEndian16(b.data) = DATA_TRANSFER_VERSION /\ b.data[3] = op
        /\ Delimited(b.data, 4) = [value |-> msg, pos |-> Len(b.data) + 1]

\* A number is read back as it was written, up to its last byte, and from any
\* shorter piece it is not read at all (WritableUtils::WriteInt64 and ReadInt64).
NumberSurvives(value) ==
    LET bytes == WriteInt64(value)
    IN  /\ ReadInt64(bytes, 1) = [ok |-> TRUE, value |-> value, pos |-> Len(bytes) + 1]
        /\ \A n \in 1 .. Len(bytes) - 1 : ~ ReadInt64(SubSeq(bytes, 1, n), 1).ok

\* The text of a token, without padding and with its own two characters for "+"
\* and "/", gives the token back, and no shorter text does.
TokenSurvives(token) ==
    LET text == toString(token)
    IN  text.ok => /\ fromString(text.value).ok /\ fromString(text.value).value = token
                   /\ ~ fromString(Front(text.value)).ok \/ fromString(Front(text.value)).value # token

=============================================================================
