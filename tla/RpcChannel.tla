----------------------------- MODULE RpcChannel -----------------------------
(***************************************************************************)
(* One RPC channel (rpc/RpcChannel.cpp, rpc/RpcRemoteCall.h): threads that *)
(* share a socket to a server.  Requests are written under writeMut; one   *)
(* of the waiting threads, the holder of readMut, reads the responses of   *)
(* all of them.                                                            *)
(*                                                                         *)
(* A response is its call id, its status and its connection.  It is read   *)
(* in three steps, because the code takes writeMut between the header and  *)
(* the body, and another thread may close and reopen the socket there.     *)
(* The reader's 8-byte buffer survives a reconnect: prefix is the          *)
(* connection whose next response has its first bytes in it, 0 if none,    *)
(* and Torn if the next bytes are the middle of a response.                *)
(* Sections under writeMut are single steps, except connect.  The wait of  *)
(* a caller ends after 500 ms at the latest, and so a thread in the loop   *)
(* of invokeInternal may look again at any time.                           *)
(***************************************************************************)
EXTENDS Integers, Sequences, FiniteSets

CONSTANTS
    Threads,          \* the callers
    Sasl,             \* connections are set up with SASL
    MayClose,         \* the client is destroyed at some point
    MaxConnects,      \* conf.getMaxRetryOnConnect()
    MaxCalls,         \* bound: calls of invoke
    MaxFaults         \* bound: broken connections, timeouts, failed operations

ASSUME RpcChannelAssumption ==
    /\ IsFiniteSet(Threads) /\ "none" \notin Threads /\ Sasl \in BOOLEAN /\ MayClose \in BOOLEAN
    /\ MaxConnects \in Nat \ {0} /\ MaxCalls \in Nat /\ MaxFaults \in Nat

VARIABLES
    \* the fields of RpcChannelImpl and RpcClientImpl::running
    running, available, pendingCalls, reader, writer, sock, prefix,
    \* the invocation of every thread: its place, the remote call, its locals
    pc, id, idempotent, retry, result, lastError, tries, header,
    \* the connection: responses on the way, requests at the server, server alive
    wire, inbox, alive,
    \* counters: connections, call ids, calls of invoke, faults
    conns, count, calls, faults,
    \* ghosts: calls the server has executed and answered; writes of an invocation;
    \* calls completed by bytes of another connection
    executed, sent, crossed

locals == <<idempotent, retry, tries, sent>>
net == <<wire, inbox, alive, conns, executed>>
vars == <<running, available, pendingCalls, reader, writer, sock, prefix, pc, id, locals,
          result, lastError, header, net, count, calls, faults, crossed>>

None == "none"
SaslId == 0                      \* AuthProtocol::SASL (-33), the id of no call
Torn == -1
NoHeader == [id |-> -1, status |-> None, conn |-> 0]

Init ==
    /\ running = TRUE /\ available = FALSE /\ pendingCalls = {}
    /\ reader = None /\ writer = None /\ sock = 0 /\ prefix = 0
    /\ pc = [t \in Threads |-> "idle"] /\ id = [t \in Threads |-> 0]
    /\ idempotent = [t \in Threads |-> FALSE] /\ retry = [t \in Threads |-> FALSE]
    /\ tries = [t \in Threads |-> 0] /\ sent = [t \in Threads |-> 0]
    /\ result = [t \in Threads |-> None] /\ lastError = [t \in Threads |-> None]
    /\ header = [t \in Threads |-> NoHeader]
    /\ wire = <<>> /\ inbox = {} /\ alive = FALSE /\ conns = 0
    /\ executed = {} /\ crossed = {}
    /\ count = 0 /\ calls = 0 /\ faults = 0

Fault == faults < MaxFaults /\ faults' = faults + 1
Goes(t, place) == pc' = [pc EXCEPT ![t] = place]
Forgets(t) == header' = [header EXCEPT ![t] = NoHeader]

\* The threads whose current call is i.
Callers(i) == {t \in Threads : pc[t] # "idle" /\ id[t] = i}

\* The next bytes to read are the start of a response of this connection.
Framed == prefix \in {0, sock}

\* lock_guard on writeMut, for a section that is one step.
WriteLock(t) == writer \in {None, t}

-----------------------------------------------------------------------------
(* invoke and the end of a call.                                           *)

\* client.getCallId and a new RpcRemoteCall, which is not complete.
NewCall(t) ==
    /\ count' = count + 1
    /\ id' = [id EXCEPT ![t] = count + 1]

\* A thread with a reference to the channel calls invoke.
Invoke(t) ==
    /\ pc[t] = "idle" /\ running /\ calls < MaxCalls
    /\ calls' = calls + 1
    /\ NewCall(t)
    /\ \E b \in BOOLEAN : idempotent' = [idempotent EXCEPT ![t] = b]
    /\ Goes(t, "send")
    /\ UNCHANGED <<running, available, pendingCalls, reader, writer, sock, prefix, retry, tries,
                   sent, result, lastError, header, net, faults, crossed>>

\* cleanupPendingCalls: the results once every pending call is cancelled.
Cancelled(reason) ==
    [t \in Threads |-> IF pc[t] # "idle" /\ id[t] \in pendingCalls THEN reason ELSE result[t]]

CancelsAll == pendingCalls' = {}

\* sock->close(): what was on the way is lost.
ClosesSocket == sock' = 0 /\ wire' = <<>> /\ inbox' = {} /\ alive' = FALSE

\* shutdown(reason)
Shutdown(reason) ==
    /\ available' = FALSE
    /\ result' = Cancelled(reason) /\ CancelsAll
    /\ ClosesSocket

MayRetryAlways(t) == ~retry[t]
MayRetry(t) == ~retry[t] /\ idempotent[t]

\* invoke after invokeInternal returned an error: the channel is shut down, and an
\* idempotent call is tried once more.
Failed(t) ==
    /\ pc[t] = "failed" /\ WriteLock(t)
    /\ available' = FALSE /\ CancelsAll /\ ClosesSocket
    /\ IF MayRetry(t)
       THEN /\ NewCall(t)
            /\ retry' = [retry EXCEPT ![t] = TRUE] /\ tries' = [tries EXCEPT ![t] = 0]
            /\ result' = [Cancelled(lastError[t]) EXCEPT ![t] = None]
            /\ lastError' = [lastError EXCEPT ![t] = None]
            /\ Goes(t, "send")
       ELSE /\ result' = Cancelled(lastError[t])
            /\ Goes(t, "caught")
            /\ UNCHANGED <<id, count, retry, tries, lastError>>
    /\ UNCHANGED <<running, reader, writer, prefix, idempotent, sent, header, conns,
                   executed, calls, faults, crossed>>

\* The handler of HdfsException in invoke, entered with writeMut released: the channel
\* is shut down, again.  (An HdfsRpcServerException does not leave invokeInternal.)
Caught(t) ==
    /\ pc[t] = "caught" /\ WriteLock(t)
    /\ Shutdown(lastError[t])
    /\ Goes(t, "final")
    /\ UNCHANGED <<running, reader, writer, prefix, id, locals, lastError, header, conns, executed,
                   count, calls, faults, crossed>>

\* The end of invoke: it shuts the channel down if the call is not complete or the
\* client is closing, and throws; otherwise check() throws or the call succeeds.
\* The locals go, and the caller gives its reference back (close(false)).
Final(t) ==
    /\ pc[t] = "final"
    /\ LET reason == IF lastError[t] = None THEN "rpc" ELSE lastError[t]
           fatal == result[t] = None \/ ~running
       IN  /\ IF fatal
              THEN WriteLock(t) /\ available' = FALSE /\ CancelsAll /\ ClosesSocket
              ELSE UNCHANGED <<available, pendingCalls, sock, wire, inbox, alive>>
           /\ result' = [IF fatal THEN Cancelled(reason) ELSE result EXCEPT ![t] = None]
    /\ Goes(t, "idle")
    /\ id' = [id EXCEPT ![t] = 0] /\ lastError' = [lastError EXCEPT ![t] = None]
    /\ idempotent' = [idempotent EXCEPT ![t] = FALSE] /\ retry' = [retry EXCEPT ![t] = FALSE]
    /\ tries' = [tries EXCEPT ![t] = 0] /\ sent' = [sent EXCEPT ![t] = 0]
    /\ executed' = executed \ {id[t]} /\ crossed' = crossed \ {id[t]}
    /\ UNCHANGED <<running, reader, writer, prefix, header, conns, count, calls, faults>>

-----------------------------------------------------------------------------
(* Sending.                                                                *)

\* invokeInternal with an error e: locks are released on the way out.
Throws(t, e) ==
    /\ lastError' = [lastError EXCEPT ![t] = e]
    /\ Goes(t, "failed")
    /\ reader' = IF reader = t THEN None ELSE reader
    /\ writer' = IF writer = t THEN None ELSE writer

\* Errors that invokeInternal does not catch (AccessControlException, SaslException).
Escapes(t) ==
    /\ lastError' = [lastError EXCEPT ![t] = "access"]
    /\ Goes(t, "caught")
    /\ reader' = IF reader = t THEN None ELSE reader
    /\ writer' = IF writer = t THEN None ELSE writer

\* The client is closing: nothing is sent.
SendNothing(t) ==
    /\ pc[t] = "send" /\ ~running /\ writer # t
    /\ Goes(t, "loop")
    /\ UNCHANGED <<running, available, pendingCalls, reader, writer, sock, prefix, id, locals,
                   result, lastError, header, net, count, calls, faults, crossed>>

\* writeMut is taken and there is no connection.
StartConnect(t) ==
    /\ pc[t] = "send" /\ running /\ WriteLock(t) /\ ~available
    /\ writer' = t /\ Goes(t, "connect")
    /\ UNCHANGED <<running, available, pendingCalls, reader, sock, prefix, id, locals,
                   result, lastError, header, net, count, calls, faults, crossed>>

\* sendRequest; the server gets the request if it is still there.
SendRequest(t) ==
    /\ pc[t] = "send" /\ (running \/ writer = t) /\ WriteLock(t) /\ available
    /\ pendingCalls' = pendingCalls \cup {id[t]}
    /\ inbox' = IF alive THEN inbox \cup {id[t]} ELSE inbox
    /\ sent' = [sent EXCEPT ![t] = @ + 1]
    /\ writer' = None /\ Goes(t, "loop")
    /\ UNCHANGED <<running, available, reader, sock, prefix, id, idempotent, retry, tries,
                   result, lastError, header, wire, alive, conns, executed, count, calls,
                   faults, crossed>>

\* The write fails or times out, with part of the request written.
SendFails(t) ==
    /\ pc[t] = "send" /\ (running \/ writer = t) /\ WriteLock(t) /\ available /\ Fault
    /\ \E e \in {"rpc", "failover"} : Throws(t, e)
    /\ UNCHANGED <<running, available, pendingCalls, sock, prefix, id, locals, result, header,
                   net, count, calls, crossed>>

-----------------------------------------------------------------------------
(* connect, with writeMut held.                                            *)

\* sock->connect and the connection header; with SASL the negotiation is requested
\* (sendSaslMessage), and the server (external) answers it.
Connect(t) ==
    /\ pc[t] = "connect"
    /\ tries' = [tries EXCEPT ![t] = @ + 1]
    /\ conns' = conns + 1 /\ sock' = conns + 1 /\ alive' = TRUE /\ inbox' = {}
    /\ IF Sasl
       THEN /\ pendingCalls' = pendingCalls \cup {SaslId}
            /\ wire' = <<[id |-> SaslId, status |-> "success", conn |-> conns + 1]>>
            /\ Goes(t, "sasl") /\ UNCHANGED available
       ELSE /\ wire' = <<>> /\ available' = TRUE
            /\ Goes(t, "send") /\ UNCHANGED pendingCalls
    /\ prefix' \in IF prefix = Torn THEN {0, Torn} ELSE {prefix}   \* in the socket or the buffer
    /\ UNCHANGED <<running, reader, writer, id, idempotent, retry, sent, result,
                   lastError, header, executed, count, calls, faults, crossed>>

MoreTries(n) == n < MaxConnects

\* connect tries again after a failed attempt, on a closed socket.
TriesAgain(t) ==
    /\ Goes(t, "connect") /\ UNCHANGED <<reader, writer, lastError>>

\* The n-th attempt failed: connect tries again or throws the last error.
AttemptFails(t, n) ==
    /\ ClosesSocket
    /\ IF MoreTries(n) THEN TriesAgain(t) ELSE \E e \in {"rpc", "failover"} : Throws(t, e)

ConnectFails(t) ==
    /\ pc[t] = "connect" /\ Fault
    /\ AttemptFails(t, tries[t] + 1)
    /\ tries' = [tries EXCEPT ![t] = @ + 1]
    /\ UNCHANGED <<running, available, pendingCalls, prefix, id, idempotent, retry, sent,
                   result, header, conns, executed, count, calls, crossed>>

\* readOneResponse(false): the answer to the handshake, read without readMut.
SaslRead(t) ==
    /\ pc[t] = "sasl" /\ Framed /\ wire # <<>>
    /\ Head(wire).id = SaslId
    /\ pendingCalls' = pendingCalls \ {SaslId}
    /\ wire' = Tail(wire) /\ prefix' = 0
    /\ available' = TRUE
    /\ Goes(t, "send")
    /\ UNCHANGED <<running, reader, writer, sock, id, locals, result, lastError, header, inbox,
                   alive, conns, executed, count, calls, faults, crossed>>

\* The server refuses the handshake with an error that connect does not retry.
SaslEscapes(t) ==
    /\ pc[t] = "sasl" /\ wire # <<>> /\ Fault /\ Escapes(t)
    /\ UNCHANGED <<running, available, pendingCalls, sock, prefix, id, locals, result, header,
                   net, count, calls, crossed>>

\* The buffer holds bytes of an older connection, or those that the holder of readMut
\* is about to read: the answer is not understood.
SaslMismatch(t) ==
    /\ pc[t] = "sasl"
    /\ ~Framed \/ \E u \in Threads : pc[u] \in {"lookup", "body"}
    /\ prefix' = 0 /\ Throws(t, "rpc")
    /\ UNCHANGED <<running, available, pendingCalls, sock, id, locals, result, header, net,
                   count, calls, faults, crossed>>

\* The answer does not come in time: the server is gone, or another thread, the
\* holder of readMut, has read it.
SaslFails(t) ==
    /\ pc[t] = "sasl" /\ wire = <<>> /\ Framed
    /\ AttemptFails(t, tries[t])
    /\ UNCHANGED <<running, available, pendingCalls, prefix, id, locals, result, header, conns,
                   executed, count, calls, faults, crossed>>

\* The server reports a SaslException, which may mean that it took the connection for
\* a replay: connect tries again, and invokeInternal does not catch the last one.
SaslRefused(t) ==
    /\ pc[t] = "sasl" /\ wire # <<>> /\ Fault
    /\ ClosesSocket
    /\ IF MoreTries(tries[t]) THEN TriesAgain(t) ELSE Escapes(t)
    /\ UNCHANGED <<running, available, pendingCalls, prefix, id, locals, result, header, conns,
                   executed, count, calls, crossed>>

-----------------------------------------------------------------------------
(* The loop of invokeInternal, and reading.                                *)

Leaves == ~running               \* while (client.isRunning())

\* The call is complete: another caller is woken up (under writeMut), and may read.
LoopDone(t) ==
    /\ pc[t] = "loop"
    /\ Leaves \/ (result[t] # None /\ WriteLock(t))
    /\ Goes(t, "final")
    /\ UNCHANGED <<running, available, pendingCalls, reader, writer, sock, prefix, id, locals,
                   result, lastError, header, net, count, calls, faults, crossed>>

\* try_lock on readMut.
TakesReadLock(t) ==
    /\ pc[t] = "loop" /\ ~Leaves /\ result[t] = None /\ reader = None
    /\ reader' = t /\ Goes(t, "read")
    /\ UNCHANGED <<running, available, pendingCalls, writer, sock, prefix, id, locals,
                   result, lastError, header, net, count, calls, faults, crossed>>

\* checkOneResponse returns without a response when the client is closing.
ReadStops(t) ==
    /\ pc[t] = "read" /\ ~running
    /\ reader' = None /\ Goes(t, "loop")
    /\ UNCHANGED <<running, available, pendingCalls, writer, sock, prefix, id, locals,
                   result, lastError, header, net, count, calls, faults, crossed>>

\* getResponse sees no response in its interval: the loop of checkOneResponse goes on.
Polls(t) ==
    /\ pc[t] = "read" /\ running /\ wire = <<>> /\ Framed
    /\ UNCHANGED vars

\* readOneResponse up to the status in the header.
ReadHeader(t) ==
    /\ pc[t] = "read" /\ running /\ wire # <<>> /\ Framed
    /\ wire' = Tail(wire) /\ prefix' = 0
    /\ \/ /\ Head(wire).status # "fatal"
          /\ header' = [header EXCEPT ![t] = Head(wire)]
          /\ Goes(t, "lookup") /\ UNCHANGED <<lastError, reader, writer>>
       \/ /\ Head(wire).status = "fatal"
          /\ Throws(t, "rpc") \/ Escapes(t)
          /\ UNCHANGED header
    /\ UNCHANGED <<running, available, pendingCalls, sock, id, locals, result, inbox, alive,
                   conns, executed, count, calls, faults, crossed>>

\* The response cannot be read: the connection has ended, the buffer begins with
\* bytes of an older connection, or a read or a ping fails.
ReadFails(t) ==
    /\ pc[t] = "read" /\ running
    /\ \/ ~Framed /\ prefix' = 0 /\ Throws(t, "rpc") /\ UNCHANGED faults
       \/ sock # 0 /\ ~alive /\ wire = <<>> /\ Throws(t, "rpc") /\ UNCHANGED <<prefix, faults>>
       \/ Fault /\ prefix' \in {prefix, Torn} /\ \E e \in {"rpc", "failover"} : Throws(t, e)
    /\ UNCHANGED <<running, available, pendingCalls, sock, id, locals, result, header, net,
                   count, calls, crossed>>

TimesOutNever == FALSE
TimesOut == inbox = {} /\ wire = <<>> /\ (alive \/ sock = 0)

\* The RPC timeout, when no response is to come.
RpcTimeout(t) ==
    /\ pc[t] = "read" /\ running /\ TimesOut /\ Framed
    /\ Throws(t, "rpc")
    /\ UNCHANGED <<running, available, pendingCalls, sock, prefix, id, locals, result, header,
                   net, count, calls, faults, crossed>>

\* The bytes that readVarint32 read ahead may belong to the next response.
ReadAhead == prefix' \in {0} \cup (IF wire = <<>> THEN {} ELSE {sock})

KeepsPending(i) == pendingCalls' = pendingCalls
ErasesPending(i) == pendingCalls' = pendingCalls \ {i}

SucceededAny(r) == TRUE
Succeeded(r) == r.status = "success"

\* getPendingCall, under writeMut.  An error response cancels the call.
Lookup(t) ==
    /\ pc[t] = "lookup" /\ WriteLock(t)
    /\ header[t].id \in pendingCalls
    /\ ErasesPending(header[t].id)
    /\ IF Succeeded(header[t])
       THEN Goes(t, "body") /\ UNCHANGED <<result, reader, prefix, header>>
       ELSE /\ result' = [u \in Threads |->
                            IF u \in Callers(header[t].id) THEN "server" ELSE result[u]]
            /\ reader' = None /\ Goes(t, "loop") /\ ReadAhead /\ Forgets(t)
    /\ UNCHANGED <<running, available, writer, sock, id, locals, lastError, net, count,
                   calls, faults, crossed>>

\* No pending call has this id: the connection was shut down in between.
LookupFails(t) ==
    /\ pc[t] = "lookup" /\ WriteLock(t)
    /\ header[t].id \notin pendingCalls
    /\ Throws(t, "rpc") /\ prefix' \in {prefix, Torn}
    /\ Forgets(t)
    /\ UNCHANGED <<running, available, pendingCalls, sock, id, locals, result,
                   net, count, calls, faults, crossed>>

\* rc->done()
Dones(t) == [u \in Threads |-> IF u \in Callers(header[t].id) THEN "ok" ELSE result[u]]

\* The body is read and parsed into the response of the call: from the connection
\* of its header, or from the buffer.
ReadBody(t) ==
    /\ pc[t] = "body"
    /\ result' = Dones(t)
    /\ IF header[t].conn = sock THEN ReadAhead ELSE prefix' = 0
    /\ reader' = None /\ Goes(t, "loop")
    /\ Forgets(t)
    /\ UNCHANGED <<running, available, pendingCalls, writer, sock, id, locals, lastError,
                   net, count, calls, faults, crossed>>

\* The socket was reconnected: the first byte of the next response, the high byte of
\* its length, is taken for a body of size 0, and the call is done without a response.
ReadWrongBody(t) ==
    /\ pc[t] = "body" /\ sock \notin {0, header[t].conn} /\ wire # <<>>
    /\ result' = Dones(t)
    /\ crossed' = crossed \cup {header[t].id}
    /\ wire' = Tail(wire) /\ prefix' = Torn
    /\ reader' = None /\ Goes(t, "loop")
    /\ Forgets(t)
    /\ UNCHANGED <<running, available, pendingCalls, writer, sock, id, locals, lastError,
                   inbox, alive, conns, executed, count, calls, faults>>

\* The body cannot be read: the call it belongs to is no longer pending.
BodyFails(t) ==
    /\ pc[t] = "body"
    /\ \/ sock = 0 /\ Throws(t, "rpc") /\ UNCHANGED <<prefix, faults>>
       \/ Fault /\ prefix' = Torn /\ \E e \in {"rpc", "failover"} : Throws(t, e)
    /\ Forgets(t)
    /\ UNCHANGED <<running, available, pendingCalls, sock, id, locals, result,
                   net, count, calls, crossed>>

-----------------------------------------------------------------------------
(* The client and the server.                                              *)

\* checkIdle by RpcClientImpl::clean: a channel without references that is idle is
\* closed and removed, and the next call creates another one.
CheckIdle ==
    /\ \A t \in Threads : pc[t] = "idle"
    /\ pendingCalls = {} /\ running /\ sock # 0
    /\ ClosesSocket /\ available' = FALSE /\ prefix' = 0
    /\ UNCHANGED <<running, pendingCalls, reader, writer, pc, id, locals, result, lastError,
                   header, conns, executed, count, calls, faults, crossed>>

\* ~RpcClientImpl: running is cleared; close then waits until no thread has a
\* reference (waitForExit).
CloseClient ==
    /\ MayClose /\ running /\ running' = FALSE
    /\ UNCHANGED <<available, pendingCalls, reader, writer, sock, prefix, pc, id, locals,
                   result, lastError, header, net, count, calls, faults, crossed>>

\* The server (external) executes a request and answers it.
Answer(i) ==
    /\ i \in inbox /\ alive
    /\ inbox' = inbox \ {i}
    /\ \/ /\ wire' = Append(wire, [id |-> i, status |-> "success", conn |-> sock])
          /\ executed' = executed \cup {i} /\ UNCHANGED faults
       \/ /\ wire' = Append(wire, [id |-> i, status |-> "error", conn |-> sock])
          /\ UNCHANGED <<executed, faults>>
       \/ /\ wire' = Append(wire, [id |-> i, status |-> "fatal", conn |-> sock])
          /\ Fault /\ UNCHANGED executed
    /\ UNCHANGED <<running, available, pendingCalls, reader, writer, sock, prefix, pc, id,
                   locals, result, lastError, header, alive, conns, count, calls, crossed>>

\* The server or the network drops the connection.
Break ==
    /\ alive /\ Fault
    /\ alive' = FALSE /\ inbox' = {}
    /\ UNCHANGED <<running, available, pendingCalls, reader, writer, sock, prefix, pc, id,
                   locals, result, lastError, header, wire, conns, executed,
                   count, calls, crossed>>

-----------------------------------------------------------------------------
Step(t) ==
    \/ Failed(t) \/ Caught(t) \/ Final(t)
    \/ SendNothing(t) \/ StartConnect(t) \/ SendRequest(t) \/ SendFails(t)
    \/ Connect(t) \/ ConnectFails(t) \/ SaslRead(t) \/ SaslEscapes(t)
    \/ SaslMismatch(t) \/ SaslFails(t) \/ SaslRefused(t)
    \/ LoopDone(t) \/ TakesReadLock(t) \/ ReadStops(t) \/ ReadHeader(t) \/ ReadFails(t)
    \/ RpcTimeout(t) \/ Lookup(t) \/ LookupFails(t) \/ ReadBody(t) \/ ReadWrongBody(t)
    \/ BodyFails(t)

Server == \E i \in inbox : Answer(i)

\* Nothing is left to do: all calls have returned.
Quiet == /\ \A t \in Threads : pc[t] = "idle"
         /\ calls = MaxCalls \/ ~running
         /\ UNCHANGED vars

Next ==
    \/ \E t \in Threads : Invoke(t) \/ Step(t) \/ Polls(t)
    \/ Server \/ Break \/ CheckIdle \/ CloseClient \/ Quiet

Spec == Init /\ [][Next]_vars

\* Threads inside invoke run, and a server that is alive answers.  RpcTimeout and the
\* timeouts of the socket are part of Step.
FairSpec ==
    /\ Spec /\ WF_vars(Server)
    /\ \A t \in Threads : WF_vars(Step(t))

-----------------------------------------------------------------------------
(* Properties.                                                             *)

\* Every pending call is the unfinished call of a thread that is still in invoke: a
\* response is parsed into memory of its caller, which must be there.  And when no
\* thread has a reference no call is pending, the handshake included, as close,
\* waitForExit and the destructor assert (assert(pendingCalls.empty())).
PendingIsCurrent ==
    /\ \A i \in pendingCalls \ {SaslId} : \E t \in Callers(i) : result[t] = None
    /\ (\A t \in Threads : pc[t] = "idle") => pendingCalls = {}

\* A call that is not idempotent is written to the server at most once by one
\* invoke, whatever fails, and an idempotent one at most twice.
SentOnce == \A t \in Threads : sent[t] <= IF idempotent[t] THEN 2 ELSE 1

\* A call succeeds only when the server has executed it, unless its body was read
\* from a later connection.
SuccessIsExecuted ==
    \A t \in Threads : pc[t] # "idle" /\ result[t] = "ok" => id[t] \in executed \cup crossed

\* Every call of invoke returns, however the connections break.
CallReturns == \A t \in Threads : (pc[t] # "idle") ~> (pc[t] = "idle")

=============================================================================
