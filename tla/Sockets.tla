------------------------------- MODULE Sockets -------------------------------
(***************************************************************************)
(* A socket is connected to one of the addresses of a host                 *)
(* (TcpSocketImpl::connect, DomainSocketImpl::connect), and frames (a      *)
(* varint length and a body) are read from it through                      *)
(* BufferedSocketReaderImpl while the bytes arrive in pieces, late or not  *)
(* at all, and signals interrupt the system calls.                         *)
(*                                                                         *)
(* A byte of the stream is known by its position in Stream; the values of  *)
(* the length bytes are what the parser of the varint sees.                *)
(***************************************************************************)
EXTENDS Integers, Sequences, SequencesExt

CONSTANTS
    Addresses,      \* how many addresses getaddrinfo may return
    Timeouts,       \* the timeouts asked for: negative is for ever
    Capacities,     \* the sizes of the reader's buffer, 0 for "disable buffer"
    VarintBase,     \* 128 in the wire format
    Frames,         \* the lengths of the bodies the peer sends
    MaxWait,        \* bound: ticks the clock advances
    MaxSignals      \* bound: signals that interrupt one call

VARIABLES
    conn,     \* connect: [phase, domain, addr, sock, timeout, deadline, spent, result, lists]
    clock,    \* ticks spent in the current call
    signals,  \* how often a signal interrupted it
    net,      \* [arrived, closed, taken]: bytes received by the host, taken by the socket
    reader,   \* BufferedSocketReaderImpl: [capacity, buffer, cursor]
    call,     \* the call in progress on the reader
    frames    \* the bodies handed to the caller, as sequences of positions

socketVars == <<conn, clock, signals, net, reader, call, frames>>

\* What is left of a timeout after d ticks of waiting.
deadlineAfter(timeout, deadline, d) == IF timeout > 0 THEN deadline - d ELSE deadline

-----------------------------------------------------------------------------
(* connect *)

\* What one attempt on one address can end with.
Attempts == {"connected", "refused", "timedout", "nosocket", "nooption", "nomode"}

\* The socket's descriptor after an attempt: created, and closed by the catch
\* around everything that follows the socket options.
connectAttempt(r) == CASE r \in {"connected", "nooption"} -> "open" [] OTHER -> "none"

\* The loop of connect(host, port) after an attempt that took d ticks, and
\* conn.spent before its poll was interrupted.
connectAddress(r, d) ==
    LET deadline == deadlineAfter(conn.timeout, conn.deadline, conn.spent + d)
        last == conn.domain \/ conn.addr = conn.lists
        done(result) == [conn EXCEPT !.phase = "done", !.sock = connectAttempt(r),
                                     !.result = result, !.deadline = deadline, !.spent = 0]
    IN  CASE r = "connected" -> done("connected")
          [] r \in {"nosocket", "nooption", "nomode"} -> done("network")
          [] last -> done(IF r = "refused" THEN "connect" ELSE "timeout")
          [] conn.timeout >= 0 /\ deadline <= 0 -> done("timeout")
          [] OTHER -> [conn EXCEPT !.sock = connectAttempt(r), !.addr = @ + 1,
                                   !.deadline = deadline, !.spent = 0]

\* How long poll waits: at most its timeout, to the end when nothing comes.
pollWaits(deadline, ready) ==
    IF deadline < 0 THEN IF ready THEN 0 .. MaxWait ELSE {}
    ELSE IF ready THEN 0 .. deadline ELSE {deadline}

\* A domain socket blocks in connect(2), whatever timeout was asked for.
connect ==
    /\ conn.phase = "connecting"
    /\ \E r \in Attempts, d \in 0 .. MaxWait :
        /\ conn.domain => r \in {"connected", "refused", "nosocket", "nomode"}
        /\ conn.domain \/ d \in pollWaits(conn.deadline, r # "timedout")
        /\ clock + d <= MaxWait
        /\ conn' = connectAddress(r, d)
        /\ clock' = clock + d
    /\ UNCHANGED <<signals, net, reader, call, frames>>

-----------------------------------------------------------------------------
(* The stream of the peer *)

\* The varint of a body of n bytes, shortest form.
Varint(n) == IF n < VarintBase THEN <<n>>
             ELSE <<(n % VarintBase) + VarintBase, n \div VarintBase>>

\* Bodies are written as bytes a varint parser would take for a last byte.
Stream == FoldLeft(LAMBDA s, n : s \o Varint(n) \o [i \in 1 .. n |-> 0], <<>>, Frames)

arrive ==
    /\ conn.phase = "reading" /\ ~net.closed
    /\ \E k \in net.arrived + 1 .. Len(Stream) : net' = [net EXCEPT !.arrived = k]
    /\ UNCHANGED <<conn, clock, signals, reader, call, frames>>

peerCloses ==
    /\ conn.phase = "reading" /\ ~net.closed
    /\ net' = [net EXCEPT !.closed = TRUE]
    /\ UNCHANGED <<conn, clock, signals, reader, call, frames>>

Readable == net.taken < net.arrived \/ net.closed

\* The positions TcpSocketImpl::read may return for a buffer of n bytes.
recv(n) == {[i \in 1 .. k |-> net.taken + i] :
                k \in 1 .. (IF n < net.arrived - net.taken THEN n ELSE net.arrived - net.taken)}

-----------------------------------------------------------------------------
(* BufferedSocketReaderImpl *)

Buffered == Len(reader.buffer) - reader.cursor

\* ReadVarint32 on the bytes from cursor: its value and length, length 0 when
\* they are not a whole varint.
ReadVarint32(bytes) ==
    LET v == [i \in DOMAIN bytes |-> Stream[bytes[i]]]
    IN  IF Len(v) >= 1 /\ v[1] < VarintBase THEN [value |-> v[1], len |-> 1]
        ELSE IF Len(v) >= 2
        THEN [value |-> (v[1] - VarintBase) + VarintBase * v[2], len |-> 2]
        ELSE [value |-> 0, len |-> 0]

\* The size of the buffer while a varint is read, and how much one read asks for.
VarintCapacity == IF reader.capacity = 0 THEN 8 ELSE reader.capacity
Step == IF reader.capacity = 0 THEN 1 ELSE VarintCapacity

\* readVarint32 begins: what is left in the buffer moves to its start.
readVarint32 ==
    /\ conn.phase = "reading" /\ call.op = "none"
    /\ clock' = 0
    /\ reader' = [reader EXCEPT !.buffer = SubSeq(@, reader.cursor + 1, Len(@)), !.cursor = 0]
    /\ \E t \in Timeouts : call' = [op |-> "varint", timeout |-> t, deadline |-> t,
                                     spent |-> 0, value |-> 0, got |-> <<>>]
    /\ signals' = 0
    /\ UNCHANGED <<conn, net, frames>>

\* The caller gives up: the connection is of no more use.
Fail(why) == /\ call' = [call EXCEPT !.op = "none"]
             /\ conn' = [conn EXCEPT !.phase = "failed", !.result = why]

\* One turn of the loop of readVarint32.
readVarint32Parse ==
    LET v == ReadVarint32(reader.buffer)
    IN  /\ call.op = "varint"
        /\ v.len > 0
        /\ reader' = [reader EXCEPT !.cursor = v.len]
        /\ call' = [call EXCEPT !.op = "framed", !.value = v.value]
        /\ UNCHANGED <<conn, clock, signals, net, frames>>

readVarint32Wait ==
    LET after(d) == deadlineAfter(call.timeout, call.deadline, call.spent + d)
        late(d) == call.timeout >= 0 /\ after(d) <= 0
        room == VarintCapacity - Len(reader.buffer)
    IN  /\ call.op = "varint"
        /\ ReadVarint32(reader.buffer).len = 0
        /\ \/ /\ room = 0
              /\ Fail("network")
              /\ UNCHANGED <<clock, net, reader>>
           \/ /\ room > 0 /\ Readable /\ net.taken = net.arrived
              /\ Fail("eof")
              /\ UNCHANGED <<clock, net, reader>>
           \/ /\ room > 0
              /\ \E d \in pollWaits(call.deadline, TRUE), got \in recv(IF room < Step THEN room ELSE Step) :
                    /\ clock + d <= MaxWait
                    /\ clock' = clock + d
                    /\ net' = [net EXCEPT !.taken = @ + Len(got)]
                    /\ reader' = [reader EXCEPT !.buffer = @ \o got]
                    /\ IF ~late(d)
                       THEN call' = [call EXCEPT !.deadline = after(d), !.spent = 0] /\ UNCHANGED conn
                       ELSE IF reader.capacity = 0 THEN Fail("timeout")
                       ELSE call' = [call EXCEPT !.op = "none"] /\ UNCHANGED conn
           \/ /\ room > 0 /\ ~Readable
              /\ \E d \in pollWaits(call.deadline, FALSE) :
                    /\ clock + d <= MaxWait
                    /\ clock' = clock + d
                    /\ IF reader.capacity = 0 THEN Fail("timeout")
                       ELSE call' = [call EXCEPT !.op = "none"] /\ UNCHANGED conn
              /\ UNCHANGED <<net, reader>>
        /\ UNCHANGED <<signals, frames>>

\* readFully of the body: the buffer first.
readFullyBuffer(s) ==
    LET done == IF s < Buffered THEN s ELSE Buffered
        got == SubSeq(reader.buffer, reader.cursor + 1, reader.cursor + done)
    IN  IF done < s THEN [got |-> got, buffer |-> <<>>, cursor |-> 0]
        ELSE [got |-> got, buffer |-> reader.buffer, cursor |-> reader.cursor + done]

readFully ==
    /\ call.op = "framed"
    /\ clock' = 0
    /\ LET r == readFullyBuffer(call.value)
       IN  /\ reader' = [reader EXCEPT !.buffer = r.buffer, !.cursor = r.cursor]
           /\ \E t \in Timeouts :
                call' = [call EXCEPT !.op = "body", !.timeout = t, !.deadline = t, !.spent = 0, !.got = r.got]
    /\ signals' = 0
    /\ UNCHANGED <<conn, net, frames>>

\* TcpSocketImpl::readFully: one turn of its loop, or the end of the call.
readFullyLoop ==
    LET todo == call.value - Len(call.got)
        after(d) == deadlineAfter(call.timeout, call.deadline, call.spent + d)
        late(d) == call.timeout >= 0 /\ after(d) <= 0
    IN  /\ call.op = "body"
        /\ \/ /\ todo = 0
              /\ frames' = Append(frames, call.got)
              /\ call' = [call EXCEPT !.op = "none"]
              /\ UNCHANGED <<conn, clock, net>>
           \/ /\ todo > 0 /\ Readable /\ net.taken = net.arrived
              /\ Fail("eof")
              /\ UNCHANGED <<clock, net, frames>>
           \/ /\ todo > 0
              /\ \E d \in pollWaits(call.deadline, TRUE), got \in recv(todo) :
                    /\ clock + d <= MaxWait
                    /\ clock' = clock + d
                    /\ net' = [net EXCEPT !.taken = @ + Len(got)]
                    /\ IF Len(got) < todo /\ late(d) THEN Fail("timeout")
                       ELSE /\ call' = [call EXCEPT !.deadline = after(d), !.spent = 0, !.got = @ \o got]
                            /\ UNCHANGED conn
              /\ UNCHANGED frames
           \/ /\ todo > 0 /\ ~Readable
              /\ \E d \in pollWaits(call.deadline, FALSE) :
                    clock + d <= MaxWait /\ clock' = clock + d
              /\ Fail("timeout")
              /\ UNCHANGED <<net, frames>>
        /\ UNCHANGED <<signals, reader>>

Polling == \/ conn.phase = "connecting" /\ ~conn.domain
           \/ call.op = "varint" /\ ReadVarint32(reader.buffer).len = 0
           \/ call.op = "body" /\ Len(call.got) < call.value

\* A signal interrupts the poll of a call: it starts again with the timeout it
\* had, and the time it waited comes off the deadline when it ends.
pollInterrupted ==
    /\ signals < MaxSignals
    /\ Polling /\ ~Readable
    /\ LET deadline == IF conn.phase = "connecting" THEN conn.deadline ELSE call.deadline
       IN  \E d \in 1 .. MaxWait :
            /\ deadline >= 0 => d <= deadline
            /\ clock + d <= MaxWait
            /\ clock' = clock + d
            /\ IF conn.phase = "connecting"
               THEN conn' = [conn EXCEPT !.spent = @ + d] /\ UNCHANGED call
               ELSE call' = [call EXCEPT !.spent = @ + d] /\ UNCHANGED conn
    /\ signals' = signals + 1
    /\ UNCHANGED <<net, reader, frames>>

\* CheckOperationCanceled, asked on every turn of a loop and when a signal
\* interrupts: the user's callback says that the operation is canceled.
canceled ==
    /\ Polling
    /\ IF conn.phase = "connecting"
       THEN conn' = [conn EXCEPT !.phase = "done", !.result = "canceled"] /\ UNCHANGED call
       ELSE Fail("canceled")
    /\ UNCHANGED <<clock, signals, net, reader, frames>>

-----------------------------------------------------------------------------

NoCall == [op |-> "none", timeout |-> 0, deadline |-> 0, spent |-> 0, value |-> 0, got |-> <<>>]

SocketInit ==
    /\ \E domain \in BOOLEAN, t \in Timeouts, n \in 1 .. Addresses :
        conn = [phase |-> "connecting", domain |-> domain, addr |-> 1, lists |-> n,
                sock |-> "none", timeout |-> t, deadline |-> t, spent |-> 0, result |-> "none"]
    /\ \E c \in Capacities : reader = [capacity |-> c, buffer |-> <<>>, cursor |-> 0]
    /\ net = [arrived |-> 0, closed |-> FALSE, taken |-> 0]
    /\ clock = 0 /\ signals = 0 /\ call = NoCall /\ frames = <<>>

\* The connected socket is given to a reader.
startReading ==
    /\ conn.phase = "done" /\ conn.result = "connected"
    /\ conn' = [conn EXCEPT !.phase = "reading", !.domain = FALSE, !.addr = 1, !.lists = 1,
                            !.timeout = 0, !.deadline = 0]
    /\ clock' = 0 /\ signals' = 0
    /\ UNCHANGED <<net, reader, call, frames>>

SocketNext ==
    \/ connect \/ startReading \/ arrive \/ peerCloses \/ pollInterrupted \/ canceled
    \/ readVarint32 \/ readVarint32Parse \/ readVarint32Wait \/ readFully \/ readFullyLoop

-----------------------------------------------------------------------------

\* A connect that is refused or times out leaves no descriptor behind, between
\* two addresses as well (the assert of TcpSocketImpl::connect), and one that
\* succeeds leaves the socket open.
ConnectLeavesNoSocket ==
    /\ conn.phase = "connecting" => conn.sock = "none"
    /\ conn.phase = "done" /\ conn.result \in {"connect", "timeout", "canceled"} => conn.sock = "none"
    /\ conn.phase = "reading" => conn.sock = "open"

\* Where body i begins in the stream.
BodyStart(i) ==
    FoldLeft(LAMBDA at, n : at + Len(Varint(n)) + n, 0, SubSeq(Frames, 1, i - 1))
        + Len(Varint(Frames[i]))

\* The bodies handed to the caller are the peer's, in order and byte for byte,
\* however the stream was cut into reads and however often readVarint32 timed
\* out in the middle of a length and was called again.
FramesAreExact ==
    \A i \in DOMAIN frames :
        /\ i <= Len(Frames)
        /\ frames[i] = [k \in 1 .. Frames[i] |-> BodyStart(i) + k]

\* With its buffer disabled the reader takes nothing from the socket beyond the
\* frame it was asked for, so the message that carries file descriptors is
\* still there for recvmsg (ReadShortCircuitInfoBuilder::receiveReadShortCircuitFDs).
NoReadAhead ==
    reader.capacity = 0 /\ conn.phase = "reading" /\ call.op \in {"none", "framed"} =>
        Buffered = 0

\* A call with a timeout lasts no longer than it, and as long again for each
\* signal that made its poll start anew.  Connecting a domain socket has no limit.
WaitIsBounded ==
    LET connecting == conn.phase \in {"connecting", "done"}
        t == IF connecting THEN conn.timeout ELSE call.timeout
    IN  t >= 0 /\ ~(connecting /\ conn.domain) => clock <= t * (signals + 1)

=============================================================================
