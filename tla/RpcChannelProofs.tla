-------------------------- MODULE RpcChannelProofs --------------------------
(***************************************************************************)
(* Proofs about RpcChannel, for every number of threads, calls, attempts   *)
(* and faults: which calls are pending, what a success means, how often a  *)
(* request is written, and that the two locks exclude.                     *)
(*                                                                         *)
(* Two of the invariants are inductive by themselves.  SentInv counts the  *)
(* writes of an invocation; LockInv ties the locks to the places of the    *)
(* threads.  IdInv relates the call ids: those of the threads differ, one  *)
(* that was not sent yet is found nowhere, and a response in a reader's    *)
(* hands is no longer pending.                                             *)
(***************************************************************************)
EXTENDS RpcChannel, TLAPS

Places == {"idle", "send", "connect", "sasl", "loop", "read", "lookup", "body", "failed",
           "caught", "final"}
Errors == {None, "rpc", "failover", "access"}
Results == Errors \cup {"ok", "server"}
Responses == [id : Int, status : {None, "success", "error", "fatal"}, conn : Nat]

ThreadTypes ==
    /\ pc \in [Threads -> Places] /\ id \in [Threads -> Nat] /\ count \in Nat
    /\ result \in [Threads -> Results] /\ lastError \in [Threads -> Errors]

ChannelTypes ==
    /\ header \in [Threads -> Responses] /\ wire \in Seq(Responses)
    /\ pendingCalls \in SUBSET Nat /\ inbox \in SUBSET Nat
    /\ conns \in Nat /\ sock \in Nat

TypeOK == ThreadTypes /\ ChannelTypes

-----------------------------------------------------------------------------
(* The invariants of the writes and of the locks.                          *)

\* Where a thread is before its request is written.
Early == {"send", "connect", "sasl"}

\* A request is written once for every call id of an invocation, and there are two only
\* for a call that is idempotent.
SentInv ==
    /\ idempotent \in [Threads -> BOOLEAN] /\ retry \in [Threads -> BOOLEAN]
    /\ sent \in [Threads -> 0 .. 2]
    /\ \A t \in Threads :
          /\ retry[t] => idempotent[t]
          /\ sent[t] = 2 => retry[t]
          /\ pc[t] \in Early => sent[t] = 0 \/ (sent[t] = 1 /\ retry[t])
          /\ pc[t] = "idle" => sent[t] = 0 /\ ~retry[t]

Reading == {"read", "lookup", "body"}
Connecting == {"connect", "sasl"}

\* A thread that reads has readMut, and one that connects has writeMut.
LockInv ==
    \A t \in Threads :
       /\ pc[t] \in Reading <=> reader = t
       /\ pc[t] \in Connecting => writer = t
       /\ writer = t => pc[t] \in Early

-----------------------------------------------------------------------------
(* Types.                                                                  *)

\* The responses of the model.
LEMMA ResponseTypes ==
    /\ NoHeader \in Responses
    /\ \A i \in Int, c \in Nat, s \in {"success", "error", "fatal"} :
          [id |-> i, status |-> s, conn |-> c] \in Responses
  BY DEF NoHeader, Responses, None

\* A step of the reader leaves the rest of what is on the way.
LEMMA WireTypes ==
    ASSUME NEW w \in Seq(Responses), w # <<>>
    PROVE  Head(w) \in Responses /\ Tail(w) \in Seq(Responses)
  OBVIOUS

LEMMA TypeInit == Init => TypeOK
  BY ResponseTypes DEF Init, TypeOK, ThreadTypes, ChannelTypes, Places, Errors, Results, None

LEMMA TypeNext == ASSUME TypeOK, [Next]_vars PROVE TypeOK'
<1> USE DEF TypeOK, Goes, net, locals, SaslId, Errors, Results, None, ThreadTypes
<1>1. ASSUME NEW t \in Threads, Invoke(t) PROVE TypeOK'
  BY <1>1 DEF Invoke, NewCall, ChannelTypes, Places
<1>2. ASSUME NEW t \in Threads, Failed(t) PROVE TypeOK'
  <2>1. Cancelled(lastError[t]) \in [Threads -> Results]
    BY Zenon DEF Cancelled
  <2>2. ThreadTypes'
    <3>1. CASE MayRetry(t)
      <4>1. pc' \in [Threads -> Places] /\ id' \in [Threads -> Nat] /\ count' \in Nat
        BY <1>2, <3>1 DEF Failed, NewCall, Places
      <4>2. result' \in [Threads -> Results] /\ lastError' \in [Threads -> Errors]
        BY <1>2, <2>1, <3>1, Zenon DEF Failed
      <4> QED
        BY <4>1, <4>2, Zenon
    <3>2. CASE ~MayRetry(t)
      BY <1>2, <2>1, <3>2, Zenon DEF Failed, Places
    <3> QED
      BY <3>1, <3>2, Zenon
  <2>3. ChannelTypes'
    BY <1>2 DEF Failed, CancelsAll, ClosesSocket, ChannelTypes
  <2> QED
    BY <2>2, <2>3, Zenon
<1>3. ASSUME NEW t \in Threads, Caught(t) PROVE TypeOK'
  BY <1>3 DEF Caught, Shutdown, Cancelled, CancelsAll, ClosesSocket, ChannelTypes, Places
<1>4. ASSUME NEW t \in Threads, Final(t) PROVE TypeOK'
  <2>1. ThreadTypes'
    BY <1>4, Zenon DEF Final, Cancelled, Places
  <2>2. header' = header /\ conns' = conns
    BY <1>4, Zenon DEF Final
  <2>3. \/ pendingCalls' = {} /\ inbox' = {} /\ wire' = <<>> /\ sock' = 0
        \/ pendingCalls' = pendingCalls /\ inbox' = inbox /\ wire' = wire /\ sock' = sock
    BY <1>4, Zenon DEF Final, CancelsAll, ClosesSocket
  <2>4. ChannelTypes'
    <3>1. CASE pendingCalls' = {} /\ inbox' = {} /\ wire' = <<>> /\ sock' = 0
      BY <2>2, <3>1 DEF ChannelTypes
    <3>2. CASE pendingCalls' = pendingCalls /\ inbox' = inbox /\ wire' = wire /\ sock' = sock
      BY <2>2, <3>2, Zenon DEF ChannelTypes
    <3> QED
      BY <2>3, <3>1, <3>2, Zenon
  <2> QED
    BY <2>1, <2>4
<1>5. ASSUME NEW t \in Threads, SendNothing(t) PROVE TypeOK'
  BY <1>5, Zenon DEF SendNothing, ChannelTypes, Places
<1>6. ASSUME NEW t \in Threads, StartConnect(t) PROVE TypeOK'
  BY <1>6, Zenon DEF StartConnect, ChannelTypes, Places
<1>7. ASSUME NEW t \in Threads, SendRequest(t) PROVE TypeOK'
  <2>1. ThreadTypes'
    BY <1>7, Zenon DEF SendRequest, Places
  <2>2. ChannelTypes'
    BY <1>7, Zenon DEF SendRequest, ChannelTypes
  <2> QED
    BY <2>1, <2>2
<1>8. ASSUME NEW t \in Threads, SendFails(t) PROVE TypeOK'
  BY <1>8 DEF SendFails, Throws, ChannelTypes, Places
<1>9. ASSUME NEW t \in Threads, Connect(t) PROVE TypeOK'
  <2>1. ThreadTypes'
    BY <1>9, Zenon DEF Connect, Places
  <2>2. /\ header' = header /\ conns' = conns + 1 /\ sock' = conns + 1 /\ inbox' = {}
        /\ pendingCalls' \in {pendingCalls, pendingCalls \cup {SaslId}}
        /\ wire' \in {<<>>, <<[id |-> SaslId, status |-> "success", conn |-> conns + 1]>>}
    BY <1>9, Zenon DEF Connect
  <2>3. [id |-> SaslId, status |-> "success", conn |-> conns + 1] \in Responses
    <3>1. SaslId \in Int /\ conns + 1 \in Nat
      BY DEF ChannelTypes
    <3> QED
      BY <3>1, ResponseTypes, Zenon
  <2>4. ChannelTypes'
    <3>1. wire' \in Seq(Responses)
      <4> DEFINE m == [id |-> SaslId, status |-> "success", conn |-> conns + 1]
      <4>1. m \in Responses /\ (wire' = <<>> \/ wire' = <<m>>)
        BY <2>2, <2>3, Zenon
      <4> HIDE DEF m
      <4>2. <<>> \in Seq(Responses) /\ <<m>> \in Seq(Responses)
        BY <4>1
      <4> QED
        BY <4>1, <4>2, Zenon
    <3> QED
      BY <2>2, <3>1 DEF ChannelTypes
  <2> QED
    BY <2>1, <2>4
<1>10. ASSUME NEW t \in Threads, ConnectFails(t) PROVE TypeOK'
  <2>1. ThreadTypes'
    BY <1>10, Zenon DEF ConnectFails, AttemptFails, TriesAgain, Throws, ClosesSocket, Places
  <2>2. ChannelTypes'
    BY <1>10 DEF ConnectFails, AttemptFails, TriesAgain, Throws, ClosesSocket, ChannelTypes
  <2> QED
    BY <2>1, <2>2
<1>11. ASSUME NEW t \in Threads, SaslRead(t) PROVE TypeOK'
  BY <1>11, WireTypes, Zenon DEF SaslRead, ChannelTypes, Places
<1>12. ASSUME NEW t \in Threads, SaslEscapes(t) PROVE TypeOK'
  BY <1>12, Zenon DEF SaslEscapes, Escapes, ChannelTypes, Places
<1>13. ASSUME NEW t \in Threads, SaslMismatch(t) PROVE TypeOK'
  BY <1>13, Zenon DEF SaslMismatch, Throws, ChannelTypes, Places
<1>14. ASSUME NEW t \in Threads, SaslFails(t) PROVE TypeOK'
  BY <1>14, Zenon DEF SaslFails, AttemptFails, TriesAgain, Throws, ClosesSocket, ChannelTypes,
     Places
<1>15. ASSUME NEW t \in Threads, SaslRefused(t) PROVE TypeOK'
  <2>1. ThreadTypes'
    BY <1>15, Zenon DEF SaslRefused, TriesAgain, Escapes, ClosesSocket, Places
  <2>2. ChannelTypes'
    BY <1>15 DEF SaslRefused, TriesAgain, Escapes, ClosesSocket, ChannelTypes
  <2> QED
    BY <2>1, <2>2
<1>16. ASSUME NEW t \in Threads, LoopDone(t) PROVE TypeOK'
  BY <1>16, Zenon DEF LoopDone, ChannelTypes, Places
<1>17. ASSUME NEW t \in Threads, TakesReadLock(t) PROVE TypeOK'
  BY <1>17, Zenon DEF TakesReadLock, ChannelTypes, Places
<1>18. ASSUME NEW t \in Threads, ReadStops(t) PROVE TypeOK'
  BY <1>18, Zenon DEF ReadStops, ChannelTypes, Places
<1>19. ASSUME NEW t \in Threads, ReadHeader(t) PROVE TypeOK'
  BY <1>19, ResponseTypes, WireTypes, Zenon DEF ReadHeader, Throws, Escapes, ChannelTypes,
     Places
<1>20. ASSUME NEW t \in Threads, ReadFails(t) PROVE TypeOK'
  BY <1>20, Zenon DEF ReadFails, Throws, ChannelTypes, Places
<1>21. ASSUME NEW t \in Threads, RpcTimeout(t) PROVE TypeOK'
  BY <1>21, Zenon DEF RpcTimeout, Throws, ChannelTypes, Places
<1>22. ASSUME NEW t \in Threads, Lookup(t) PROVE TypeOK'
  <2>1. ThreadTypes'
    BY <1>22 DEF Lookup, ErasesPending, Forgets, Places
  <2>2. ChannelTypes'
    BY <1>22, ResponseTypes, Zenon DEF Lookup, ErasesPending, Forgets, ChannelTypes
  <2> QED
    BY <2>1, <2>2
<1>23. ASSUME NEW t \in Threads, LookupFails(t) PROVE TypeOK'
  BY <1>23, ResponseTypes, Zenon DEF LookupFails, Throws, Forgets, ChannelTypes, Places
<1>24. ASSUME NEW t \in Threads, ReadBody(t) PROVE TypeOK'
  BY <1>24, ResponseTypes, Zenon DEF ReadBody, Dones, Forgets, ChannelTypes, Places
<1>25. ASSUME NEW t \in Threads, ReadWrongBody(t) PROVE TypeOK'
  BY <1>25, ResponseTypes, WireTypes, Zenon DEF ReadWrongBody, Dones, Forgets,
     ChannelTypes, Places
<1>26. ASSUME NEW t \in Threads, BodyFails(t) PROVE TypeOK'
  BY <1>26, ResponseTypes, Zenon DEF BodyFails, Throws, Forgets, ChannelTypes, Places
<1>27. ASSUME NEW i \in inbox, Answer(i) PROVE TypeOK'
  <2>1. ThreadTypes'
    BY <1>27, Zenon DEF Answer
  <2>2. UNCHANGED <<header, pendingCalls, conns, sock>> /\ inbox' = inbox \ {i}
    BY <1>27, Zenon DEF Answer
  <2>3. PICK s \in {"success", "error", "fatal"} :
            wire' = Append(wire, [id |-> i, status |-> s, conn |-> sock])
    BY <1>27, Zenon DEF Answer
  <2>4. [id |-> i, status |-> s, conn |-> sock] \in Responses
    <3>1. i \in Int /\ sock \in Nat
      BY DEF ChannelTypes
    <3> QED
      BY <3>1, ResponseTypes, Zenon
  <2>5. ChannelTypes'
    BY <2>2, <2>3, <2>4 DEF ChannelTypes
  <2> QED
    BY <2>1, <2>5, Zenon
<1>28. ASSUME Break PROVE TypeOK'
  BY <1>28, Zenon DEF Break, ChannelTypes, Places
<1>29. ASSUME CheckIdle PROVE TypeOK'
  BY <1>29 DEF CheckIdle, ClosesSocket, ChannelTypes, Places
<1>30. ASSUME CloseClient PROVE TypeOK'
  BY <1>30, Zenon DEF CloseClient, ChannelTypes, Places
<1>31. ASSUME UNCHANGED vars PROVE TypeOK'
  BY <1>31, Zenon DEF vars, ChannelTypes, Places
<1> QED
  BY <1>1, <1>2, <1>3, <1>4, <1>5, <1>6, <1>7, <1>8, <1>9, <1>10, <1>11, <1>12, <1>13, <1>14,
     <1>15, <1>16, <1>17, <1>18, <1>19, <1>20, <1>21, <1>22, <1>23, <1>24, <1>25, <1>26,
     <1>27, <1>28, <1>29, <1>30, <1>31, Zenon DEF Next, Step, Server, Polls, Quiet

-----------------------------------------------------------------------------
(* How often a request is written.                                         *)

LEMMA SentNext == ASSUME TypeOK, SentInv, [Next]_vars PROVE SentInv'
<1> USE DEF TypeOK, ThreadTypes, SentInv, Early, Goes, locals
<1>1. ASSUME NEW t \in Threads, Invoke(t) PROVE SentInv'
  BY <1>1 DEF Invoke
<1>2. ASSUME NEW t \in Threads, Failed(t) PROVE SentInv'
  <2>1. CASE MayRetry(t)
    <3>1. /\ ~retry[t] /\ idempotent[t] /\ retry' = [retry EXCEPT ![t] = TRUE]
          /\ UNCHANGED <<idempotent, sent>> /\ pc' = [pc EXCEPT ![t] = "send"]
      BY <1>2, <2>1, Zenon DEF Failed, MayRetry
    <3>2. sent[t] # 2 /\ sent[t] \in 0 .. 2
      BY <3>1, Zenon
    <3>3. sent[t] = 0 \/ sent[t] = 1
      BY <3>2
    <3>4. retry' \in [Threads -> BOOLEAN]
      BY <3>1, Zenon
    <3> QED
      BY <3>1, <3>3, <3>4
  <2>2. CASE ~MayRetry(t)
    BY <1>2, <2>2 DEF Failed
  <2> QED
    BY <2>1, <2>2, Zenon
<1>3. ASSUME NEW t \in Threads, Caught(t) PROVE SentInv'
  BY <1>3 DEF Caught
<1>4. ASSUME NEW t \in Threads, Final(t) PROVE SentInv'
  BY <1>4 DEF Final
<1>5. ASSUME NEW t \in Threads, SendNothing(t) PROVE SentInv'
  BY <1>5 DEF SendNothing
<1>6. ASSUME NEW t \in Threads, StartConnect(t) PROVE SentInv'
  BY <1>6 DEF StartConnect
<1>7. ASSUME NEW t \in Threads, SendRequest(t) PROVE SentInv'
  BY <1>7 DEF SendRequest
<1>8. ASSUME NEW t \in Threads, SendFails(t) PROVE SentInv'
  BY <1>8 DEF SendFails, Throws
<1>9. ASSUME NEW t \in Threads, Connect(t) PROVE SentInv'
  BY <1>9 DEF Connect
<1>10. ASSUME NEW t \in Threads, ConnectFails(t) PROVE SentInv'
  BY <1>10 DEF ConnectFails, AttemptFails, TriesAgain, Throws
<1>11. ASSUME NEW t \in Threads, SaslRead(t) PROVE SentInv'
  BY <1>11 DEF SaslRead
<1>12. ASSUME NEW t \in Threads, SaslEscapes(t) PROVE SentInv'
  BY <1>12 DEF SaslEscapes, Escapes
<1>13. ASSUME NEW t \in Threads, SaslMismatch(t) PROVE SentInv'
  BY <1>13 DEF SaslMismatch, Throws
<1>14. ASSUME NEW t \in Threads, SaslFails(t) PROVE SentInv'
  BY <1>14 DEF SaslFails, AttemptFails, TriesAgain, Throws
<1>15. ASSUME NEW t \in Threads, SaslRefused(t) PROVE SentInv'
  BY <1>15 DEF SaslRefused, TriesAgain, Escapes
<1>16. ASSUME NEW t \in Threads, LoopDone(t) PROVE SentInv'
  BY <1>16 DEF LoopDone
<1>17. ASSUME NEW t \in Threads, TakesReadLock(t) PROVE SentInv'
  BY <1>17 DEF TakesReadLock
<1>18. ASSUME NEW t \in Threads, ReadStops(t) PROVE SentInv'
  BY <1>18 DEF ReadStops
<1>19. ASSUME NEW t \in Threads, ReadHeader(t) PROVE SentInv'
  BY <1>19 DEF ReadHeader, Throws, Escapes
<1>20. ASSUME NEW t \in Threads, ReadFails(t) PROVE SentInv'
  BY <1>20 DEF ReadFails, Throws
<1>21. ASSUME NEW t \in Threads, RpcTimeout(t) PROVE SentInv'
  BY <1>21 DEF RpcTimeout, Throws
<1>22. ASSUME NEW t \in Threads, Lookup(t) PROVE SentInv'
  BY <1>22 DEF Lookup
<1>23. ASSUME NEW t \in Threads, LookupFails(t) PROVE SentInv'
  BY <1>23 DEF LookupFails, Throws
<1>24. ASSUME NEW t \in Threads, ReadBody(t) PROVE SentInv'
  BY <1>24 DEF ReadBody
<1>25. ASSUME NEW t \in Threads, ReadWrongBody(t) PROVE SentInv'
  BY <1>25 DEF ReadWrongBody
<1>26. ASSUME NEW t \in Threads, BodyFails(t) PROVE SentInv'
  BY <1>26 DEF BodyFails, Throws
<1>27. ASSUME NEW i \in inbox, Answer(i) PROVE SentInv'
  BY <1>27, Zenon DEF Answer
<1>28. ASSUME Break PROVE SentInv'
  BY <1>28, Zenon DEF Break
<1>29. ASSUME CheckIdle PROVE SentInv'
  BY <1>29, Zenon DEF CheckIdle
<1>30. ASSUME CloseClient PROVE SentInv'
  BY <1>30, Zenon DEF CloseClient
<1>31. ASSUME UNCHANGED vars PROVE SentInv'
  BY <1>31, Zenon DEF vars
<1> QED
  BY <1>1, <1>2, <1>3, <1>4, <1>5, <1>6, <1>7, <1>8, <1>9, <1>10, <1>11, <1>12, <1>13, <1>14,
     <1>15, <1>16, <1>17, <1>18, <1>19, <1>20, <1>21, <1>22, <1>23, <1>24, <1>25, <1>26,
     <1>27, <1>28, <1>29, <1>30, <1>31, Zenon DEF Next, Step, Server, Polls, Quiet

-----------------------------------------------------------------------------
(* The locks.                                                              *)

LEMMA LockNext == ASSUME TypeOK, LockInv, [Next]_vars PROVE LockInv'
<1> USE RpcChannelAssumption DEF None, TypeOK, ThreadTypes, LockInv, Early, Reading, Connecting, Goes, WriteLock, locals
<1>1. ASSUME NEW t \in Threads, Invoke(t) PROVE LockInv'
  BY <1>1, Zenon DEF Invoke
<1>2. ASSUME NEW t \in Threads, Failed(t) PROVE LockInv'
  BY <1>2 DEF Failed, NewCall, MayRetry
<1>3. ASSUME NEW t \in Threads, Caught(t) PROVE LockInv'
  BY <1>3, Zenon DEF Caught
<1>4. ASSUME NEW t \in Threads, Final(t) PROVE LockInv'
  BY <1>4, Zenon DEF Final
<1>5. ASSUME NEW t \in Threads, SendNothing(t) PROVE LockInv'
  BY <1>5, Zenon DEF SendNothing
<1>6. ASSUME NEW t \in Threads, StartConnect(t) PROVE LockInv'
  BY <1>6, Zenon DEF StartConnect
<1>7. ASSUME NEW t \in Threads, SendRequest(t) PROVE LockInv'
  BY <1>7, Zenon DEF SendRequest
<1>8. ASSUME NEW t \in Threads, SendFails(t) PROVE LockInv'
  BY <1>8 DEF SendFails, Throws
<1>9. ASSUME NEW t \in Threads, Connect(t) PROVE LockInv'
  BY <1>9 DEF Connect
<1>10. ASSUME NEW t \in Threads, ConnectFails(t) PROVE LockInv'
  BY <1>10 DEF ConnectFails, AttemptFails, TriesAgain, Throws
<1>11. ASSUME NEW t \in Threads, SaslRead(t) PROVE LockInv'
  BY <1>11, Zenon DEF SaslRead
<1>12. ASSUME NEW t \in Threads, SaslEscapes(t) PROVE LockInv'
  BY <1>12, Zenon DEF SaslEscapes, Escapes
<1>13. ASSUME NEW t \in Threads, SaslMismatch(t) PROVE LockInv'
  BY <1>13, Zenon DEF SaslMismatch, Throws
<1>14. ASSUME NEW t \in Threads, SaslFails(t) PROVE LockInv'
  BY <1>14 DEF SaslFails, AttemptFails, TriesAgain, Throws
<1>15. ASSUME NEW t \in Threads, SaslRefused(t) PROVE LockInv'
  BY <1>15 DEF SaslRefused, TriesAgain, Escapes
<1>16. ASSUME NEW t \in Threads, LoopDone(t) PROVE LockInv'
  BY <1>16, Zenon DEF LoopDone
<1>17. ASSUME NEW t \in Threads, TakesReadLock(t) PROVE LockInv'
  BY <1>17 DEF TakesReadLock
<1>18. ASSUME NEW t \in Threads, ReadStops(t) PROVE LockInv'
  BY <1>18, Zenon DEF ReadStops
<1>19. ASSUME NEW t \in Threads, ReadHeader(t) PROVE LockInv'
  <2>1. /\ pc[t] = "read" /\ reader = t /\ \A u \in Threads : pc[u] \in Reading => u = t
    BY <1>19, Zenon DEF ReadHeader
  <2>2. \/ pc' = [pc EXCEPT ![t] = "lookup"] /\ UNCHANGED <<reader, writer>>
        \/ Throws(t, "rpc")
        \/ Escapes(t)
    BY <1>19, Zenon DEF ReadHeader
  <2> QED
    BY <2>1, <2>2 DEF Throws, Escapes
<1>20. ASSUME NEW t \in Threads, ReadFails(t) PROVE LockInv'
  BY <1>20 DEF ReadFails, Throws
<1>21. ASSUME NEW t \in Threads, RpcTimeout(t) PROVE LockInv'
  BY <1>21, Zenon DEF RpcTimeout, Throws
<1>22. ASSUME NEW t \in Threads, Lookup(t) PROVE LockInv'
  BY <1>22 DEF Lookup
<1>23. ASSUME NEW t \in Threads, LookupFails(t) PROVE LockInv'
  BY <1>23, Zenon DEF LookupFails, Throws
<1>24. ASSUME NEW t \in Threads, ReadBody(t) PROVE LockInv'
  BY <1>24, Zenon DEF ReadBody
<1>25. ASSUME NEW t \in Threads, ReadWrongBody(t) PROVE LockInv'
  BY <1>25, Zenon DEF ReadWrongBody
<1>26. ASSUME NEW t \in Threads, BodyFails(t) PROVE LockInv'
  BY <1>26 DEF BodyFails, Throws
<1>27. ASSUME NEW i \in inbox, Answer(i) PROVE LockInv'
  BY <1>27, Zenon DEF Answer
<1>28. ASSUME Break PROVE LockInv'
  BY <1>28, Zenon DEF Break
<1>29. ASSUME CheckIdle PROVE LockInv'
  BY <1>29, Zenon DEF CheckIdle
<1>30. ASSUME CloseClient PROVE LockInv'
  BY <1>30, Zenon DEF CloseClient
<1>31. ASSUME UNCHANGED vars PROVE LockInv'
  BY <1>31, Zenon DEF vars
<1> QED
  BY <1>1, <1>2, <1>3, <1>4, <1>5, <1>6, <1>7, <1>8, <1>9, <1>10, <1>11, <1>12, <1>13, <1>14,
     <1>15, <1>16, <1>17, <1>18, <1>19, <1>20, <1>21, <1>22, <1>23, <1>24, <1>25, <1>26,
     <1>27, <1>28, <1>29, <1>30, <1>31, Zenon DEF Next, Step, Server, Polls, Quiet


-----------------------------------------------------------------------------
(* The invariants of the calls.                                            *)

\* The handshake is pending only while the thread that asked for it will cancel it.
HandshakeInv ==
    SaslId \in pendingCalls =>
        Sasl /\ \E t \in Threads : pc[t] \in {"connect", "sasl", "failed", "caught"}

\* The responses that a thread has or may read.
On(w) == {w[i] : i \in DOMAIN w}
Responded == On(wire) \cup {header[t] : t \in Threads}

\* The calls have ids of their own, up to the last one given out.
IdsDiffer ==
    /\ \A t \in Threads : pc[t] # "idle" => id[t] \in 1 .. count
    /\ \A t, u \in Threads : pc[t] # "idle" /\ pc[u] # "idle" /\ id[t] = id[u] => t = u

IdsCounted ==
    /\ \A i \in pendingCalls : i <= count
    /\ \A i \in inbox : i \in 1 .. count
    /\ \A m \in Responded : m.id <= count

\* A call that is not sent yet is not known anywhere.
EarlyIsNew ==
    \A t \in Threads : pc[t] \in Early =>
        /\ id[t] \notin pendingCalls /\ id[t] \notin inbox
        /\ \A m \in Responded : m.id # id[t]

\* A body is read only for a call that is no longer pending.
BodyIsErased ==
    \A t \in Threads : pc[t] = "body" =>
        header[t].status = "success" /\ header[t].id \notin pendingCalls \ {SaslId}

NoResultYet == \A t \in Threads : pc[t] = "idle" \/ pc[t] \in Early => result[t] = None

IdInv == IdsDiffer /\ IdsCounted /\ EarlyIsNew /\ BodyIsErased /\ NoResultYet

\* A pending call has a thread that waits for it.
WaitedFor == \A i \in pendingCalls \ {SaslId} : \E t \in Callers(i) : result[t] = None

\* The server has executed the calls that a response says it has.
ExecutedInv ==
    \A m \in Responded :
        m.status = "success" => \A t \in Callers(m.id) : id[t] \in executed

CallInv == TypeOK /\ IdInv /\ WaitedFor /\ ExecutedInv /\ SuccessIsExecuted

-----------------------------------------------------------------------------
(* The handshake.                                                          *)

LEMMA HandshakeNext == ASSUME TypeOK, IdInv, HandshakeInv, [Next]_vars PROVE HandshakeInv'
<1> USE DEF TypeOK, ThreadTypes, HandshakeInv, SaslId, Goes, CancelsAll, locals
<1>1. ASSUME NEW t \in Threads, Invoke(t) PROVE HandshakeInv'
  BY <1>1, Zenon DEF Invoke
<1>2. ASSUME NEW t \in Threads, Failed(t) PROVE HandshakeInv'
  BY <1>2, Zenon DEF Failed, NewCall, MayRetry
<1>3. ASSUME NEW t \in Threads, Caught(t) PROVE HandshakeInv'
  BY <1>3, Zenon DEF Caught, Shutdown
<1>4. ASSUME NEW t \in Threads, Final(t) PROVE HandshakeInv'
  BY <1>4, Zenon DEF Final
<1>5. ASSUME NEW t \in Threads, SendNothing(t) PROVE HandshakeInv'
  BY <1>5, Zenon DEF SendNothing
<1>6. ASSUME NEW t \in Threads, StartConnect(t) PROVE HandshakeInv'
  BY <1>6, Zenon DEF StartConnect
<1>7. ASSUME NEW t \in Threads, SendRequest(t) PROVE HandshakeInv'
  <2>1. id[t] # SaslId
    BY <1>7 DEF SendRequest, IdInv, IdsDiffer
  <2>2. /\ pendingCalls' = pendingCalls \cup {id[t]} /\ pc' = [pc EXCEPT ![t] = "loop"]
        /\ pc[t] = "send"
    BY <1>7, Zenon DEF SendRequest
  <2> QED
    BY <2>1, <2>2, Zenon
<1>8. ASSUME NEW t \in Threads, SendFails(t) PROVE HandshakeInv'
  BY <1>8, Zenon DEF SendFails, Throws
<1>9. ASSUME NEW t \in Threads, Connect(t) PROVE HandshakeInv'
  BY <1>9, Zenon DEF Connect
<1>10. ASSUME NEW t \in Threads, ConnectFails(t) PROVE HandshakeInv'
  BY <1>10, Zenon DEF ConnectFails, AttemptFails, TriesAgain, Throws
<1>11. ASSUME NEW t \in Threads, SaslRead(t) PROVE HandshakeInv'
  BY <1>11, Zenon DEF SaslRead
<1>12. ASSUME NEW t \in Threads, SaslEscapes(t) PROVE HandshakeInv'
  BY <1>12, Zenon DEF SaslEscapes, Escapes
<1>13. ASSUME NEW t \in Threads, SaslMismatch(t) PROVE HandshakeInv'
  BY <1>13, Zenon DEF SaslMismatch, Throws
<1>14. ASSUME NEW t \in Threads, SaslFails(t) PROVE HandshakeInv'
  BY <1>14, Zenon DEF SaslFails, AttemptFails, TriesAgain, Throws
<1>15. ASSUME NEW t \in Threads, SaslRefused(t) PROVE HandshakeInv'
  BY <1>15, Zenon DEF SaslRefused, TriesAgain, Escapes
<1>16. ASSUME NEW t \in Threads, LoopDone(t) PROVE HandshakeInv'
  BY <1>16, Zenon DEF LoopDone
<1>17. ASSUME NEW t \in Threads, TakesReadLock(t) PROVE HandshakeInv'
  BY <1>17, Zenon DEF TakesReadLock
<1>18. ASSUME NEW t \in Threads, ReadStops(t) PROVE HandshakeInv'
  BY <1>18, Zenon DEF ReadStops
<1>19. ASSUME NEW t \in Threads, ReadHeader(t) PROVE HandshakeInv'
  BY <1>19, Zenon DEF ReadHeader, Throws, Escapes
<1>20. ASSUME NEW t \in Threads, ReadFails(t) PROVE HandshakeInv'
  BY <1>20, Zenon DEF ReadFails, Throws
<1>21. ASSUME NEW t \in Threads, RpcTimeout(t) PROVE HandshakeInv'
  BY <1>21, Zenon DEF RpcTimeout, Throws
<1>22. ASSUME NEW t \in Threads, Lookup(t) PROVE HandshakeInv'
  BY <1>22, Zenon DEF Lookup, ErasesPending
<1>23. ASSUME NEW t \in Threads, LookupFails(t) PROVE HandshakeInv'
  BY <1>23, Zenon DEF LookupFails, Throws
<1>24. ASSUME NEW t \in Threads, ReadBody(t) PROVE HandshakeInv'
  BY <1>24, Zenon DEF ReadBody
<1>25. ASSUME NEW t \in Threads, ReadWrongBody(t) PROVE HandshakeInv'
  BY <1>25, Zenon DEF ReadWrongBody
<1>26. ASSUME NEW t \in Threads, BodyFails(t) PROVE HandshakeInv'
  BY <1>26, Zenon DEF BodyFails, Throws
<1>27. ASSUME NEW i \in inbox, Answer(i) PROVE HandshakeInv'
  BY <1>27, Zenon DEF Answer
<1>28. ASSUME Break PROVE HandshakeInv'
  BY <1>28, Zenon DEF Break
<1>29. ASSUME CheckIdle PROVE HandshakeInv'
  BY <1>29, Zenon DEF CheckIdle
<1>30. ASSUME CloseClient PROVE HandshakeInv'
  BY <1>30, Zenon DEF CloseClient
<1>31. ASSUME UNCHANGED vars PROVE HandshakeInv'
  BY <1>31, Zenon DEF vars
<1> QED
  BY <1>1, <1>2, <1>3, <1>4, <1>5, <1>6, <1>7, <1>8, <1>9, <1>10, <1>11, <1>12, <1>13, <1>14,
     <1>15, <1>16, <1>17, <1>18, <1>19, <1>20, <1>21, <1>22, <1>23, <1>24, <1>25, <1>26,
     <1>27, <1>28, <1>29, <1>30, <1>31, Zenon DEF Next, Step, Server, Polls, Quiet
-----------------------------------------------------------------------------
(* The calls.                                                              *)

\* The responses on the way after a step of the reader or of the server.
LEMMA OnFacts ==
    ASSUME NEW w \in Seq(Responses), NEW m \in Responses
    PROVE  /\ w # <<>> => Head(w) \in On(w) /\ On(Tail(w)) \subseteq On(w)
           /\ On(<<>>) = {} /\ On(<<m>>) = {m}
           /\ On(Append(w, m)) = On(w) \cup {m}
<1>1. w # <<>> => Head(w) \in On(w)
  BY DEF On
<1>2. w # <<>> => On(Tail(w)) \subseteq On(w)
  BY DEF On
<1>3. On(<<>>) = {} /\ On(<<m>>) = {m}
  BY DEF On
<1>4. On(Append(w, m)) = On(w) \cup {m}
  <2> DEFINE x == Append(w, m)
  <2>1. /\ DOMAIN x = DOMAIN w \cup {Len(w) + 1} /\ x[Len(w) + 1] = m
        /\ \A i \in DOMAIN w : x[i] = w[i]
    OBVIOUS
  <2> HIDE DEF x
  <2>2. On(x) = On(w) \cup {m}
    BY <2>1 DEF On
  <2> QED
    BY <2>2, Zenon DEF x
<1> QED
  BY <1>1, <1>2, <1>3, <1>4, Zenon

\* A thread moves on inside of its call, and responses get lost or are of no call.
MovesOn(t) ==
    /\ pc[t] # "idle" /\ pc'[t] \notin {"idle", "body"} /\ pc' = [pc EXCEPT ![t] = pc'[t]]
    /\ pc'[t] \in Early => pc[t] \in Early
    /\ pendingCalls' \ {SaslId} = pendingCalls \ {SaslId} /\ inbox' \subseteq inbox
    /\ \A m \in Responded' : m \in Responded \/ m.id <= SaslId
    /\ UNCHANGED <<id, count, result, executed, crossed>>

LEMMA RespondedTypes ==
    ASSUME NEW w \in Seq(Responses), NEW h \in [Threads -> Responses]
    PROVE  \A m \in On(w) \cup {h[t] : t \in Threads} : m \in Responses /\ m.id \in Int
<1>1. \A i \in DOMAIN w : w[i] \in Responses
  OBVIOUS
<1>2. \A m \in On(w) \cup {h[t] : t \in Threads} : m \in Responses
  BY <1>1, Zenon DEF On
<1> QED
  BY <1>2, Zenon DEF Responses

\* The ids of calls are positive.
LEMMA IdPositive ==
    ASSUME CallInv, NEW u \in Threads, pc[u] # "idle"
    PROVE  id[u] \in Int /\ id[u] > 0
<1>1. id[u] \in 1 .. count /\ count \in Nat
  BY Zenon DEF CallInv, IdInv, IdsDiffer, TypeOK, ThreadTypes
<1> QED
  BY <1>1

LEMMA MovesOnInv ==
    ASSUME CallInv, TypeOK', NEW t \in Threads, MovesOn(t),
           \A u \in Threads \ {t} : header'[u] = header[u]
    PROVE  CallInv'
<1> USE DEF SaslId
<1>1. /\ \A u \in Threads : pc[u] = "idle" <=> pc'[u] = "idle"
      /\ \A u \in Threads : pc'[u] \in Early => pc[u] \in Early
      /\ \A u \in Threads : pc'[u] = "body" => u # t /\ pc[u] = "body"
      /\ UNCHANGED <<id, count, result, executed, crossed>>
  BY Zenon DEF CallInv, TypeOK, ThreadTypes, MovesOn
<1>2. count \in Nat /\ id \in [Threads -> Nat]
  BY Zenon DEF CallInv, TypeOK, ThreadTypes
<1>3. \A m \in Responded' : m.id \in Int /\ (m \in Responded \/ m.id <= 0)
  BY RespondedTypes, Zenon DEF TypeOK, ChannelTypes, MovesOn, Responded
<1>4. \A i \in pendingCalls' : i \in pendingCalls \/ i = 0
  BY Zenon DEF MovesOn
<1>5. IdsDiffer'
  BY <1>1, Zenon DEF CallInv, IdInv, IdsDiffer
<1>6. IdsCounted'
  BY <1>1, <1>2, <1>3, <1>4 DEF CallInv, IdInv, IdsCounted, MovesOn
<1>7. EarlyIsNew'
  <2> SUFFICES ASSUME NEW u \in Threads, pc'[u] \in Early
               PROVE  /\ id[u] \notin pendingCalls' /\ id[u] \notin inbox'
                      /\ \A m \in Responded' : m.id # id[u]
    BY <1>1, Zenon DEF EarlyIsNew
  <2>1. pc[u] \in Early /\ id[u] \in Int /\ id[u] > 0
    BY <1>1, IdPositive, Zenon DEF Early
  <2>2. /\ id[u] \notin pendingCalls /\ id[u] \notin inbox
        /\ \A m \in Responded : m.id # id[u]
    BY <2>1, Zenon DEF CallInv, IdInv, EarlyIsNew
  <2>3. inbox' \subseteq inbox
    BY Zenon DEF MovesOn
  <2> QED
    BY <1>3, <1>4, <2>1, <2>2, <2>3
<1>8. BodyIsErased'
  BY <1>1, Zenon DEF CallInv, IdInv, MovesOn, BodyIsErased
<1>9. NoResultYet'
  BY <1>1, Zenon DEF CallInv, IdInv, NoResultYet
<1>10. \A i : Callers(i)' = Callers(i)
  BY <1>1, Zenon DEF Callers
<1>11. WaitedFor'
  BY <1>1, <1>10, Zenon DEF CallInv, MovesOn, WaitedFor
<1>12. ExecutedInv'
  <2> SUFFICES ASSUME NEW m \in Responded', m.status = "success", NEW u \in Callers(m.id)
               PROVE  id[u] \in executed
    BY <1>1, <1>10, Zenon DEF ExecutedInv
  <2>1. u \in Threads /\ m.id = id[u] /\ id[u] \in Int /\ id[u] > 0
    BY IdPositive, Zenon DEF Callers
  <2> QED
    BY <1>3, <2>1 DEF CallInv, ExecutedInv
<1>13. SuccessIsExecuted'
  BY <1>1, Zenon DEF CallInv, SuccessIsExecuted
<1> QED
  BY <1>5, <1>6, <1>7, <1>8, <1>9, <1>11, <1>12, <1>13, Zenon DEF CallInv, IdInv

\* What a thread takes from the wire, loses or forgets was there before.
LEMMA RespondedKept ==
    ASSUME TypeOK, NEW t \in Threads,
           \/ wire' = wire \/ wire' = <<>>
           \/ wire # <<>> /\ wire' = Tail(wire),
           \/ header' = header \/ header' = [header EXCEPT ![t] = NoHeader]
           \/ wire # <<>> /\ header' = [header EXCEPT ![t] = Head(wire)]
    PROVE  /\ \A m \in Responded' : m \in Responded \/ m.id <= SaslId
           /\ \A u \in Threads \ {t} : header'[u] = header[u]
<1>1. wire \in Seq(Responses) /\ header \in [Threads -> Responses]
  BY Zenon DEF TypeOK, ChannelTypes
<1>2. On(wire') \subseteq On(wire)
  BY <1>1, OnFacts, ResponseTypes, Zenon
<1>3. /\ \A u \in Threads \ {t} : header'[u] = header[u]
      /\ header'[t] = header[t] \/ header'[t] = NoHeader \/ header'[t] \in On(wire)
  <2> DEFINE m == Head(wire)
  <2>1. wire # <<>> => m \in On(wire)
    BY <1>1, OnFacts, ResponseTypes, Zenon
  <2> HIDE DEF m
  <2> QED
    BY <1>1, <2>1, Zenon DEF m
<1>4. NoHeader.id <= SaslId
  BY DEF NoHeader, SaslId
<1> QED
  BY <1>2, <1>3, <1>4, Zenon DEF Responded

\* The steps that leave the ids, the results and the pending calls alone.
LEMMA QuietInv ==
    ASSUME CallInv, TypeOK', NEW t \in Threads,
           \/ SendNothing(t) \/ StartConnect(t) \/ SendFails(t) \/ Connect(t) \/ ConnectFails(t)
           \/ SaslRead(t) \/ SaslEscapes(t) \/ SaslMismatch(t) \/ SaslFails(t) \/ SaslRefused(t)
           \/ LoopDone(t) \/ TakesReadLock(t) \/ ReadStops(t) \/ ReadHeader(t) \/ ReadFails(t)
           \/ RpcTimeout(t) \/ LookupFails(t) \/ BodyFails(t)
    PROVE  CallInv'
<1> USE DEF Goes, net, locals, Early
<1>0. TypeOK /\ pc \in [Threads -> Places]
  BY Zenon DEF CallInv, TypeOK, ThreadTypes
<1>1. CASE SendNothing(t)
  <2>1. /\ \A m \in Responded' : m \in Responded \/ m.id <= SaslId
        /\ \A u \in Threads \ {t} : header'[u] = header[u]
    BY <1>0, <1>1, RespondedKept, Zenon DEF SendNothing
  <2>2. MovesOn(t)
    BY <1>0, <1>1, <2>1, Zenon DEF MovesOn, SendNothing
  <2> QED
    BY <2>1, <2>2, MovesOnInv, Zenon
<1>2. CASE StartConnect(t)
  <2>1. /\ \A m \in Responded' : m \in Responded \/ m.id <= SaslId
        /\ \A u \in Threads \ {t} : header'[u] = header[u]
    BY <1>0, <1>2, RespondedKept, Zenon DEF StartConnect
  <2>2. MovesOn(t)
    BY <1>0, <1>2, <2>1, Zenon DEF MovesOn, StartConnect
  <2> QED
    BY <2>1, <2>2, MovesOnInv, Zenon
<1>3. CASE SendFails(t)
  <2>1. /\ \A m \in Responded' : m \in Responded \/ m.id <= SaslId
        /\ \A u \in Threads \ {t} : header'[u] = header[u]
    BY <1>0, <1>3, RespondedKept, Zenon DEF SendFails, Throws
  <2>2. MovesOn(t)
    BY <1>0, <1>3, <2>1, Zenon DEF MovesOn, SendFails, Throws
  <2> QED
    BY <2>1, <2>2, MovesOnInv, Zenon
<1>4. CASE Connect(t)
  <2>1. /\ header' = header /\ inbox' = {} /\ UNCHANGED <<id, count, result, executed, crossed>>
        /\ pc[t] = "connect" /\ pc' \in {[pc EXCEPT ![t] = "sasl"], [pc EXCEPT ![t] = "send"]}
        /\ pendingCalls' \in {pendingCalls, pendingCalls \cup {SaslId}}
        /\ wire' \in {<<>>, <<[id |-> SaslId, status |-> "success", conn |-> conns + 1]>>}
    BY <1>4, Zenon DEF Connect
  <2>2. \A m \in On(wire') : m.id = SaslId
    <3> DEFINE first == [id |-> SaslId, status |-> "success", conn |-> conns + 1]
    <3>1. first.id = SaslId /\ wire' \in {<<>>, <<first>>}
      BY <2>1, Zenon
    <3>2. SaslId \in Int /\ conns + 1 \in Nat /\ wire \in Seq(Responses)
      BY <1>0 DEF SaslId, TypeOK, ChannelTypes
    <3>3. first \in Responses
      BY <3>2, ResponseTypes, Zenon
    <3> HIDE DEF first
    <3>4. On(<<>>) = {} /\ On(<<first>>) = {first}
      BY <3>2, <3>3, OnFacts, Zenon
    <3> QED
      BY <3>1, <3>4, Zenon
  <2>3. \A m \in Responded' : m \in Responded \/ m.id <= SaslId
    <3>1. SaslId <= SaslId
      BY DEF SaslId
    <3>2. \A m \in On(wire') : m.id <= SaslId
      BY <2>2, <3>1, Zenon
    <3> QED
      BY <2>1, <3>2, Zenon DEF Responded
  <2>4. MovesOn(t)
    BY <1>0, <2>1, <2>3, Zenon DEF MovesOn
  <2> QED
    BY <2>1, <2>4, MovesOnInv, Zenon
<1>5. CASE ConnectFails(t)
  <2>1. /\ \A m \in Responded' : m \in Responded \/ m.id <= SaslId
        /\ \A u \in Threads \ {t} : header'[u] = header[u]
    BY <1>0, <1>5, RespondedKept, Zenon DEF ConnectFails, AttemptFails, TriesAgain, Throws,
       ClosesSocket
  <2>2. MovesOn(t)
    BY <1>0, <1>5, <2>1, Zenon DEF MovesOn, ConnectFails, AttemptFails, TriesAgain, Throws,
       ClosesSocket
  <2> QED
    BY <2>1, <2>2, MovesOnInv, Zenon
<1>6. CASE SaslRead(t)
  <2>1. /\ \A m \in Responded' : m \in Responded \/ m.id <= SaslId
        /\ \A u \in Threads \ {t} : header'[u] = header[u]
    BY <1>0, <1>6, RespondedKept, Zenon DEF SaslRead
  <2>2. MovesOn(t)
    BY <1>0, <1>6, <2>1, Zenon DEF MovesOn, SaslRead
  <2> QED
    BY <2>1, <2>2, MovesOnInv, Zenon
<1>7. CASE SaslEscapes(t)
  <2>1. /\ \A m \in Responded' : m \in Responded \/ m.id <= SaslId
        /\ \A u \in Threads \ {t} : header'[u] = header[u]
    BY <1>0, <1>7, RespondedKept, Zenon DEF SaslEscapes, Escapes
  <2>2. MovesOn(t)
    BY <1>0, <1>7, <2>1, Zenon DEF MovesOn, SaslEscapes, Escapes
  <2> QED
    BY <2>1, <2>2, MovesOnInv, Zenon
<1>8. CASE SaslMismatch(t)
  <2>1. /\ \A m \in Responded' : m \in Responded \/ m.id <= SaslId
        /\ \A u \in Threads \ {t} : header'[u] = header[u]
    BY <1>0, <1>8, RespondedKept, Zenon DEF SaslMismatch, Throws
  <2>2. MovesOn(t)
    BY <1>0, <1>8, <2>1, Zenon DEF MovesOn, SaslMismatch, Throws
  <2> QED
    BY <2>1, <2>2, MovesOnInv, Zenon
<1>9. CASE SaslFails(t)
  <2>1. /\ \A m \in Responded' : m \in Responded \/ m.id <= SaslId
        /\ \A u \in Threads \ {t} : header'[u] = header[u]
    BY <1>0, <1>9, RespondedKept, Zenon DEF SaslFails, AttemptFails, TriesAgain, Throws,
       ClosesSocket
  <2>2. MovesOn(t)
    BY <1>0, <1>9, <2>1, Zenon DEF MovesOn, SaslFails, AttemptFails, TriesAgain, Throws,
       ClosesSocket
  <2> QED
    BY <2>1, <2>2, MovesOnInv, Zenon
<1>10. CASE SaslRefused(t)
  <2>1. /\ \A m \in Responded' : m \in Responded \/ m.id <= SaslId
        /\ \A u \in Threads \ {t} : header'[u] = header[u]
    BY <1>0, <1>10, RespondedKept, Zenon DEF SaslRefused, TriesAgain, Escapes, ClosesSocket
  <2>2. MovesOn(t)
    BY <1>0, <1>10, <2>1, Zenon DEF MovesOn, SaslRefused, TriesAgain, Escapes, ClosesSocket
  <2> QED
    BY <2>1, <2>2, MovesOnInv, Zenon
<1>11. CASE LoopDone(t)
  <2>1. /\ \A m \in Responded' : m \in Responded \/ m.id <= SaslId
        /\ \A u \in Threads \ {t} : header'[u] = header[u]
    BY <1>0, <1>11, RespondedKept, Zenon DEF LoopDone
  <2>2. MovesOn(t)
    BY <1>0, <1>11, <2>1, Zenon DEF MovesOn, LoopDone
  <2> QED
    BY <2>1, <2>2, MovesOnInv, Zenon
<1>12. CASE TakesReadLock(t)
  <2>1. /\ \A m \in Responded' : m \in Responded \/ m.id <= SaslId
        /\ \A u \in Threads \ {t} : header'[u] = header[u]
    BY <1>0, <1>12, RespondedKept, Zenon DEF TakesReadLock
  <2>2. MovesOn(t)
    BY <1>0, <1>12, <2>1, Zenon DEF MovesOn, TakesReadLock
  <2> QED
    BY <2>1, <2>2, MovesOnInv, Zenon
<1>13. CASE ReadStops(t)
  <2>1. /\ \A m \in Responded' : m \in Responded \/ m.id <= SaslId
        /\ \A u \in Threads \ {t} : header'[u] = header[u]
    BY <1>0, <1>13, RespondedKept, Zenon DEF ReadStops
  <2>2. MovesOn(t)
    BY <1>0, <1>13, <2>1, Zenon DEF MovesOn, ReadStops
  <2> QED
    BY <2>1, <2>2, MovesOnInv, Zenon
<1>14. CASE ReadHeader(t)
  <2>1. /\ \A m \in Responded' : m \in Responded \/ m.id <= SaslId
        /\ \A u \in Threads \ {t} : header'[u] = header[u]
    BY <1>0, <1>14, RespondedKept, Zenon DEF ReadHeader, Throws, Escapes
  <2>2. MovesOn(t)
    BY <1>0, <1>14, <2>1, Zenon DEF MovesOn, ReadHeader, Throws, Escapes
  <2> QED
    BY <2>1, <2>2, MovesOnInv, Zenon
<1>15. CASE ReadFails(t)
  <2>1. /\ \A m \in Responded' : m \in Responded \/ m.id <= SaslId
        /\ \A u \in Threads \ {t} : header'[u] = header[u]
    BY <1>0, <1>15, RespondedKept, Zenon DEF ReadFails, Throws
  <2>2. MovesOn(t)
    BY <1>0, <1>15, <2>1, Zenon DEF MovesOn, ReadFails, Throws
  <2> QED
    BY <2>1, <2>2, MovesOnInv, Zenon
<1>16. CASE RpcTimeout(t)
  <2>1. /\ \A m \in Responded' : m \in Responded \/ m.id <= SaslId
        /\ \A u \in Threads \ {t} : header'[u] = header[u]
    BY <1>0, <1>16, RespondedKept, Zenon DEF RpcTimeout, Throws
  <2>2. MovesOn(t)
    BY <1>0, <1>16, <2>1, Zenon DEF MovesOn, RpcTimeout, Throws
  <2> QED
    BY <2>1, <2>2, MovesOnInv, Zenon
<1>17. CASE LookupFails(t)
  <2>1. /\ \A m \in Responded' : m \in Responded \/ m.id <= SaslId
        /\ \A u \in Threads \ {t} : header'[u] = header[u]
    BY <1>0, <1>17, RespondedKept, Zenon DEF LookupFails, Throws, Forgets
  <2>2. MovesOn(t)
    BY <1>0, <1>17, <2>1, Zenon DEF MovesOn, LookupFails, Throws, Forgets
  <2> QED
    BY <2>1, <2>2, MovesOnInv, Zenon
<1>18. CASE BodyFails(t)
  <2>1. /\ \A m \in Responded' : m \in Responded \/ m.id <= SaslId
        /\ \A u \in Threads \ {t} : header'[u] = header[u]
    BY <1>0, <1>18, RespondedKept, Zenon DEF BodyFails, Throws, Forgets
  <2>2. MovesOn(t)
    BY <1>0, <1>18, <2>1, Zenon DEF MovesOn, BodyFails, Throws, Forgets
  <2> QED
    BY <2>1, <2>2, MovesOnInv, Zenon
<1> QED
  BY <1>1, <1>2, <1>3, <1>4, <1>5, <1>6, <1>7, <1>8, <1>9, <1>10, <1>11, <1>12, <1>13, <1>14,
     <1>15, <1>16, <1>17, <1>18, Zenon

\* The call of t begins, ends or gets a new id, and pending calls may be cancelled.
Settles(t) ==
    /\ \A u \in Threads \ {t} :
          /\ pc'[u] = pc[u] /\ id'[u] = id[u]
          /\ \/ result'[u] = result[u]
             \/ /\ pc[u] # "idle" /\ id[u] \in pendingCalls
                /\ result'[u] \in Errors /\ pendingCalls' = {}
    /\ header' = header /\ wire' \in {wire, <<>>} /\ inbox' \subseteq inbox
    /\ \/ pendingCalls' = {}
       \/ pendingCalls' = pendingCalls /\ (pc[t] = "idle" \/ result[t] # None)
    /\ \/ /\ pc'[t] = "send" /\ id'[t] = count + 1 /\ count' = count + 1 /\ result'[t] = None
          /\ UNCHANGED <<executed, crossed>>
       \/ /\ pc[t] # "idle" /\ pc'[t] \in {"caught", "final"} /\ id'[t] = id[t] /\ count' = count
          /\ result'[t] \in {result[t]} \cup Errors
          /\ UNCHANGED <<executed, crossed>>
       \/ /\ pc[t] # "idle" /\ pc'[t] = "idle" /\ result'[t] = None /\ count' = count
          /\ executed' = executed \ {id[t]} /\ crossed' = crossed \ {id[t]}

LEMMA SettlesInv ==
    ASSUME CallInv, TypeOK', NEW t \in Threads, Settles(t)
    PROVE  CallInv'
<1>1. /\ count \in Nat /\ id \in [Threads -> Nat] /\ id' \in [Threads -> Nat]
      /\ count' \in Nat /\ count <= count'
  BY DEF CallInv, TypeOK, ThreadTypes, Settles
<1>2. /\ Responded' \subseteq Responded /\ pendingCalls' \subseteq pendingCalls
      /\ inbox' \subseteq inbox
  <2>1. On(wire') \subseteq On(wire)
    BY OnFacts, ResponseTypes, Zenon DEF Settles, CallInv, TypeOK, ChannelTypes
  <2>2. header' = header /\ inbox' \subseteq inbox /\ pendingCalls' \subseteq pendingCalls
    BY Zenon DEF Settles
  <2> QED
    BY <2>1, <2>2, Zenon DEF Responded
<1>3. /\ \A m \in Responded : m.id \in Int /\ m.id <= count
      /\ \A i \in pendingCalls : i \in Nat /\ i <= count
      /\ \A i \in inbox : i \in 1 .. count
  BY RespondedTypes, Zenon DEF CallInv, TypeOK, ChannelTypes, IdInv, IdsCounted, Responded
<1>4. IdsDiffer'
  BY <1>1 DEF CallInv, IdInv, IdsDiffer, Settles
<1>5. IdsCounted'
  BY <1>1, <1>2, <1>3 DEF IdsCounted
<1>6. EarlyIsNew'
  <2> SUFFICES ASSUME NEW u \in Threads, pc'[u] \in Early
               PROVE  /\ id'[u] \notin pendingCalls /\ id'[u] \notin inbox
                      /\ \A m \in Responded : m.id # id'[u]
    BY <1>2, Zenon DEF EarlyIsNew
  <2>1. CASE u # t
    BY <2>1, Zenon DEF CallInv, IdInv, EarlyIsNew, Settles
  <2>2. CASE u = t
    <3>1. id'[u] = count + 1
      BY <2>2, Zenon DEF Settles, Early
    <3> QED
      BY <1>1, <1>3, <3>1
  <2> QED
    BY <2>1, <2>2, Zenon
<1>7. BodyIsErased'
  BY <1>2, Zenon DEF CallInv, IdInv, BodyIsErased, Settles
<1>8. NoResultYet'
  BY Zenon DEF CallInv, IdInv, NoResultYet, EarlyIsNew, Settles, Early
<1>9. WaitedFor'
  BY DEF CallInv, WaitedFor, Settles, Callers
<1>10. \A u \in Threads \ {t} : pc[u] # "idle" => executed' \cap {id[u]} = executed \cap {id[u]}
                                                 /\ crossed' \cap {id[u]} = crossed \cap {id[u]}
  BY Zenon DEF CallInv, IdInv, IdsDiffer, Settles
<1>11. ExecutedInv'
  <2> SUFFICES ASSUME NEW m \in Responded, m.status = "success", NEW u \in Threads,
                      pc'[u] # "idle", id'[u] = m.id
               PROVE  id'[u] \in executed'
    BY <1>2, Zenon DEF ExecutedInv, Callers
  <2>1. pc[u] # "idle" /\ id'[u] = id[u] => id[u] \in executed
    BY Zenon DEF CallInv, ExecutedInv, Callers
  <2>2. CASE u # t
    BY <1>10, <2>1, <2>2, Zenon DEF Settles
  <2>3. CASE u = t
    BY <1>1, <1>3, <2>1, <2>3 DEF Settles
  <2> QED
    BY <2>2, <2>3, Zenon
<1>12. SuccessIsExecuted'
  BY <1>10 DEF CallInv, SuccessIsExecuted, Settles, Errors, None
<1> QED
  BY <1>4, <1>5, <1>6, <1>7, <1>8, <1>9, <1>11, <1>12, Zenon DEF CallInv, IdInv

\* A response is applied to the thread whose call it is for, if there is one.
Completes(t, r) ==
    /\ pc[t] # "idle" /\ pc' = [pc EXCEPT ![t] = "loop"]
    /\ result' = [u \in Threads |-> IF u \in Callers(header[t].id) THEN r ELSE result[u]]
    /\ pendingCalls' \subseteq pendingCalls /\ header[t].id \notin pendingCalls' \ {SaslId}
    /\ Forgets(t) /\ (wire' = wire \/ (wire # <<>> /\ wire' = Tail(wire)))
    /\ r # "ok" \/ header[t].status = "success"
    /\ crossed \subseteq crossed'
    /\ UNCHANGED <<id, count, inbox, executed>>

LEMMA CompletesInv ==
    ASSUME CallInv, TypeOK', NEW t \in Threads, NEW r \in {"ok", "server"}, Completes(t, r)
    PROVE  CallInv'
<1> USE DEF SaslId
<1>1. /\ \A u \in Threads : pc[u] = "idle" <=> pc'[u] = "idle"
      /\ \A u \in Threads : pc'[u] \in Early => pc[u] \in Early
      /\ \A u \in Threads : pc'[u] = "body" => u # t /\ pc[u] = "body"
      /\ UNCHANGED <<id, count, inbox, executed>> /\ pendingCalls' \subseteq pendingCalls
  BY Zenon DEF CallInv, TypeOK, ThreadTypes, Completes, Early
<1>2. count \in Nat /\ id \in [Threads -> Nat] /\ header[t] \in Responded
  BY Zenon DEF CallInv, TypeOK, ThreadTypes, Responded
<1>3. /\ \A m \in Responded' : m.id \in Int /\ (m \in Responded \/ m.id <= 0)
      /\ \A u \in Threads \ {t} : header'[u] = header[u]
  <2>1. TypeOK
    BY Zenon DEF CallInv
  <2>2. \A m \in Responded' : m.id \in Int
    <3>1. wire' \in Seq(Responses) /\ header' \in [Threads -> Responses]
      BY Zenon DEF TypeOK, ChannelTypes
    <3> QED
      BY <3>1, RespondedTypes, Zenon DEF Responded
  <2> QED
    BY <2>1, <2>2, RespondedKept, Zenon DEF Completes, Forgets
<1>4. IdsDiffer'
  BY <1>1, Zenon DEF CallInv, IdInv, IdsDiffer
<1>5. IdsCounted'
  BY <1>1, <1>2, <1>3 DEF CallInv, IdInv, IdsCounted
<1>6. EarlyIsNew'
  <2> SUFFICES ASSUME NEW u \in Threads, pc'[u] \in Early
               PROVE  /\ id[u] \notin pendingCalls' /\ id[u] \notin inbox
                      /\ \A m \in Responded' : m.id # id[u]
    BY <1>1, Zenon DEF EarlyIsNew
  <2>1. pc[u] \in Early /\ id[u] \in Int /\ id[u] > 0
    BY <1>1, IdPositive, Zenon DEF Early
  <2>2. /\ id[u] \notin pendingCalls /\ id[u] \notin inbox
        /\ \A m \in Responded : m.id # id[u]
    BY <2>1, Zenon DEF CallInv, IdInv, EarlyIsNew
  <2> QED
    BY <1>1, <1>3, <2>1, <2>2
<1>7. BodyIsErased'
  BY <1>1, <1>3, Zenon DEF CallInv, IdInv, BodyIsErased
<1>8. NoResultYet'
  <2>1. \A u \in Threads : pc'[u] = "idle" \/ pc'[u] \in Early => u \notin Callers(header[t].id)
    BY <1>1, <1>2, Zenon DEF CallInv, IdInv, EarlyIsNew, Callers
  <2> QED
    BY <1>1, <2>1, Zenon DEF CallInv, IdInv, NoResultYet, Completes
<1>9. WaitedFor'
  <2> SUFFICES ASSUME NEW i \in pendingCalls' \ {SaslId}
               PROVE  \E u \in Callers(i)' : result'[u] = None
    BY Zenon DEF WaitedFor
  <2>1. i \in pendingCalls \ {SaslId} /\ i # header[t].id
    BY <1>1, Zenon DEF Completes
  <2>2. PICK u \in Callers(i) : result[u] = None
    BY <2>1, Zenon DEF CallInv, WaitedFor
  <2>3. u \in Threads /\ u \in Callers(i)' /\ u \notin Callers(header[t].id)
    BY <1>1, <2>1, <2>2, Zenon DEF Callers
  <2>4. result'[u] = None
    BY <2>2, <2>3, Zenon DEF Completes
  <2> QED
    BY <2>3, <2>4, Zenon
<1>10. ExecutedInv'
  <2> SUFFICES ASSUME NEW m \in Responded', m.status = "success", NEW u \in Threads,
                      pc[u] # "idle", id[u] = m.id
               PROVE  id[u] \in executed
    BY <1>1, Zenon DEF ExecutedInv, Callers
  <2>1. id[u] \in Int /\ id[u] > 0
    BY IdPositive, Zenon
  <2>2. m \in Responded => id[u] \in executed
    BY Zenon DEF CallInv, ExecutedInv, Callers
  <2> QED
    BY <1>3, <2>1, <2>2
<1>11. SuccessIsExecuted'
  BY <1>1, <1>2, Zenon DEF CallInv, SuccessIsExecuted, ExecutedInv, Completes, Callers
<1> QED
  BY <1>4, <1>5, <1>6, <1>7, <1>8, <1>9, <1>10, <1>11, Zenon DEF CallInv, IdInv

LEMMA SettlesSteps ==
    ASSUME CallInv, NEW t \in Threads, Invoke(t) \/ Failed(t) \/ Caught(t) \/ Final(t)
    PROVE  Settles(t)
<1> USE DEF Goes
<1>1. /\ pc \in [Threads -> Places] /\ id \in [Threads -> Nat]
      /\ result \in [Threads -> Results] /\ lastError[t] \in Errors
  BY Zenon DEF CallInv, TypeOK, ThreadTypes
<1>2. CASE Invoke(t)
  <2>1. result[t] = None
    BY <1>2, Zenon DEF CallInv, IdInv, NoResultYet, Invoke
  <2> QED
    BY <1>1, <1>2, <2>1, Zenon DEF Invoke, NewCall, Settles, net
<1>3. \A e \in Errors : \A u \in Threads :
          \/ Cancelled(e)[u] = result[u]
          \/ pc[u] # "idle" /\ id[u] \in pendingCalls /\ Cancelled(e)[u] \in Errors
  BY Zenon DEF Cancelled
<1>4. \A e \in Errors : Cancelled(e) \in [Threads -> Results]
  BY <1>1, Zenon DEF Cancelled, Results
<1>5. CASE Failed(t)
  <2>1. CASE MayRetry(t)
    BY <1>1, <1>3, <1>4, <1>5, <2>1, Zenon DEF Failed, NewCall, CancelsAll, ClosesSocket,
       Settles
  <2>2. CASE ~MayRetry(t)
    BY <1>1, <1>3, <1>4, <1>5, <2>2, Zenon DEF Failed, CancelsAll, ClosesSocket, Settles
  <2> QED
    BY <2>1, <2>2, Zenon
<1>6. CASE Caught(t)
  BY <1>1, <1>3, <1>4, <1>6, Zenon DEF Caught, Shutdown, CancelsAll, ClosesSocket, Settles
<1>7. CASE Final(t)
  <2> DEFINE reason == IF lastError[t] = None THEN "rpc" ELSE lastError[t]
  <2>1. reason \in Errors
    BY <1>1, Zenon DEF Errors
  <2> HIDE DEF reason
  <2>2. /\ pc[t] = "final" /\ pc' = [pc EXCEPT ![t] = "idle"] /\ id' = [id EXCEPT ![t] = 0]
        /\ count' = count /\ header' = header
        /\ executed' = executed \ {id[t]} /\ crossed' = crossed \ {id[t]}
    BY <1>7, Zenon DEF Final
  <2>3. \/ /\ result' = [Cancelled(reason) EXCEPT ![t] = None]
           /\ pendingCalls' = {} /\ wire' = <<>> /\ inbox' = {}
        \/ /\ result' = [result EXCEPT ![t] = None] /\ result[t] # None
           /\ UNCHANGED <<pendingCalls, wire, inbox>>
    BY <1>7, Zenon DEF Final, CancelsAll, ClosesSocket, reason
  <2>4. CASE /\ result' = [Cancelled(reason) EXCEPT ![t] = None]
             /\ pendingCalls' = {} /\ wire' = <<>> /\ inbox' = {}
    BY <1>1, <1>3, <1>4, <2>1, <2>2, <2>4, Zenon DEF Settles
  <2>5. CASE /\ result' = [result EXCEPT ![t] = None] /\ result[t] # None
             /\ UNCHANGED <<pendingCalls, wire, inbox>>
    BY <1>1, <2>2, <2>5, Zenon DEF Settles
  <2> QED
    BY <2>3, <2>4, <2>5, Zenon
<1> QED
  BY <1>2, <1>5, <1>6, <1>7, Zenon

LEMMA ReadInv ==
    ASSUME CallInv, TypeOK', NEW t \in Threads,
           Lookup(t) \/ ReadBody(t) \/ ReadWrongBody(t)
    PROVE  CallInv'
<1> USE DEF Goes, locals, net
<1>1. /\ pc \in [Threads -> Places] /\ header \in [Threads -> Responses]
  BY Zenon DEF CallInv, TypeOK, ThreadTypes, ChannelTypes
<1>2. CASE Lookup(t) /\ Succeeded(header[t])
  <2>1. /\ pc[t] = "lookup" /\ pc' = [pc EXCEPT ![t] = "body"]
        /\ pendingCalls' = pendingCalls \ {header[t].id}
        /\ header[t].status = "success"
        /\ UNCHANGED <<id, count, result, header, wire, inbox, executed, crossed>>
    BY <1>2, Zenon DEF Lookup, ErasesPending, Succeeded
  <2>2. Responded' = Responded /\ \A i : Callers(i)' = Callers(i)
    BY <1>1, <2>1, Zenon DEF Responded, On, Callers
  <2>3. IdInv'
    <3>1. IdsDiffer' /\ IdsCounted' /\ NoResultYet'
      BY <1>1, <2>1, <2>2, Zenon DEF CallInv, IdInv, IdsDiffer, IdsCounted, NoResultYet, Early
    <3>2. EarlyIsNew'
      BY <1>1, <2>1, <2>2, Zenon DEF CallInv, IdInv, EarlyIsNew, Early
    <3>3. BodyIsErased'
      BY <1>1, <2>1, Zenon DEF CallInv, IdInv, BodyIsErased
    <3> QED
      BY <3>1, <3>2, <3>3, Zenon DEF IdInv
  <2>4. WaitedFor' /\ ExecutedInv'
    BY <2>1, <2>2, Zenon DEF CallInv, WaitedFor, ExecutedInv
  <2>5. SuccessIsExecuted'
    BY <1>1, <2>1, Zenon DEF CallInv, SuccessIsExecuted
  <2> QED
    BY <2>3, <2>4, <2>5, Zenon DEF CallInv
<1>3. CASE Lookup(t) /\ ~Succeeded(header[t])
  <2>1. Completes(t, "server")
    <3>1. /\ pc[t] = "lookup" /\ pc' = [pc EXCEPT ![t] = "loop"]
          /\ pendingCalls' = pendingCalls \ {header[t].id}
          /\ result' = [u \in Threads |-> IF u \in Callers(header[t].id) THEN "server" ELSE result[u]]
          /\ Forgets(t) /\ UNCHANGED <<id, count, wire, inbox, executed, crossed>>
      BY <1>3, Zenon DEF Lookup, ErasesPending
    <3> QED
      BY <3>1, Zenon DEF Completes
  <2> QED
    BY <2>1, CompletesInv, Zenon
<1>4. CASE ReadBody(t) \/ ReadWrongBody(t)
  <2>1. header[t].status = "success" /\ header[t].id \notin pendingCalls \ {SaslId}
    BY <1>4, Zenon DEF CallInv, IdInv, BodyIsErased, ReadBody, ReadWrongBody
  <2>2. Completes(t, "ok")
    <3>1. /\ pc[t] = "body" /\ pc' = [pc EXCEPT ![t] = "loop"]
          /\ result' = [u \in Threads |-> IF u \in Callers(header[t].id) THEN "ok" ELSE result[u]]
          /\ wire' = wire \/ (wire # <<>> /\ wire' = Tail(wire))
          /\ crossed' = crossed \/ crossed' = crossed \cup {header[t].id}
          /\ Forgets(t) /\ UNCHANGED <<id, count, inbox, executed, pendingCalls>>
      BY <1>4, Zenon DEF ReadBody, ReadWrongBody, Dones
    <3> QED
      BY <2>1, <3>1, Zenon DEF Completes
  <2> QED
    BY <2>2, CompletesInv, Zenon
<1> QED
  BY <1>2, <1>3, <1>4, Zenon

LEMMA SendRequestInv ==
    ASSUME CallInv, TypeOK', NEW t \in Threads, SendRequest(t)
    PROVE  CallInv'
<1> USE DEF Goes
<1>1. /\ pc \in [Threads -> Places] /\ pc[t] = "send" /\ pc' = [pc EXCEPT ![t] = "loop"]
      /\ pendingCalls' = pendingCalls \cup {id[t]} /\ inbox' \in {inbox, inbox \cup {id[t]}}
      /\ UNCHANGED <<id, count, result, header, wire, executed, crossed>>
  BY Zenon DEF CallInv, TypeOK, ThreadTypes, SendRequest
<1>2. /\ id[t] \in 1 .. count /\ count \in Nat /\ result[t] = None
      /\ \A u \in Threads : pc[u] # "idle" /\ id[u] = id[t] => u = t
      /\ \A m \in Responded : m.id # id[t]
  BY <1>1, Zenon DEF CallInv, TypeOK, ThreadTypes, IdInv, IdsDiffer, NoResultYet, EarlyIsNew,
     Early
<1>3. Responded' = Responded /\ \A i : Callers(i)' = Callers(i)
  BY <1>1, Zenon DEF Responded, On, Callers
<1>4. IdsDiffer' /\ NoResultYet'
  BY <1>1, Zenon DEF CallInv, IdInv, IdsDiffer, NoResultYet, Early
<1>5. IdsCounted'
  BY <1>1, <1>2, <1>3 DEF CallInv, IdInv, IdsCounted
<1>6. EarlyIsNew'
  BY <1>1, <1>2, <1>3, Zenon DEF CallInv, IdInv, EarlyIsNew, Early
<1>7. BodyIsErased'
  BY <1>1, <1>2, Zenon DEF CallInv, IdInv, BodyIsErased, Responded
<1>8. WaitedFor'
  <2>1. t \in Callers(id[t])
    BY <1>1, Zenon DEF Callers
  <2> QED
    BY <1>1, <1>2, <1>3, <2>1, Zenon DEF CallInv, WaitedFor
<1>9. ExecutedInv' /\ SuccessIsExecuted'
  BY <1>1, <1>3, Zenon DEF CallInv, ExecutedInv, SuccessIsExecuted
<1> QED
  BY <1>4, <1>5, <1>6, <1>7, <1>8, <1>9, Zenon DEF CallInv, IdInv

LEMMA AnswerInv ==
    ASSUME CallInv, TypeOK', NEW i \in inbox, Answer(i)
    PROVE  CallInv'
<1>1. PICK s \in {"success", "error", "fatal"} :
          /\ wire' = Append(wire, [id |-> i, status |-> s, conn |-> sock])
          /\ s = "success" => i \in executed'
  BY Zenon DEF Answer
<1>2. /\ UNCHANGED <<pc, id, count, result, header, pendingCalls, crossed>>
      /\ inbox' = inbox \ {i} /\ executed \subseteq executed'
  BY Zenon DEF Answer
<1> DEFINE m == [id |-> i, status |-> s, conn |-> sock]
<1>3. m \in Responses /\ m.id = i /\ m.status = s
  <2>1. i \in Int /\ sock \in Nat
    BY DEF CallInv, TypeOK, ChannelTypes
  <2> QED
    BY <2>1, ResponseTypes, Zenon
<1>4. wire' = Append(wire, m) /\ wire \in Seq(Responses)
  BY <1>1, Zenon DEF CallInv, TypeOK, ChannelTypes
<1> HIDE DEF m
<1>5. Responded' = Responded \cup {m} /\ \A j : Callers(j)' = Callers(j)
  <2>1. On(wire') = On(wire) \cup {m}
    BY <1>3, <1>4, OnFacts, Zenon
  <2> QED
    BY <1>2, <2>1, Zenon DEF Responded, Callers
<1>6. IdsDiffer' /\ NoResultYet' /\ BodyIsErased'
  BY <1>2, Zenon DEF CallInv, IdInv, IdsDiffer, NoResultYet, BodyIsErased
<1>7. IdsCounted'
  <2>1. i <= count
    BY DEF CallInv, IdInv, IdsCounted
  <2> QED
    BY <1>2, <1>3, <1>5, <2>1, Zenon DEF CallInv, IdInv, IdsCounted
<1>8. EarlyIsNew'
  BY <1>2, <1>3, <1>5, Zenon DEF CallInv, IdInv, EarlyIsNew
<1>9. WaitedFor' /\ SuccessIsExecuted'
  BY <1>2, <1>5, Zenon DEF CallInv, WaitedFor, SuccessIsExecuted
<1>10. ExecutedInv'
  BY <1>1, <1>2, <1>3, <1>5, Zenon DEF CallInv, ExecutedInv, Callers
<1> QED
  BY <1>6, <1>7, <1>8, <1>9, <1>10, Zenon DEF CallInv, IdInv

\* The steps of no thread lose requests and responses.
LEMMA LossInv ==
    ASSUME CallInv, TypeOK', Break \/ CheckIdle \/ CloseClient \/ UNCHANGED vars
    PROVE  CallInv'
<1>1. /\ UNCHANGED <<pc, id, count, result, header, pendingCalls, executed, crossed>>
      /\ inbox' \subseteq inbox /\ wire' \in {wire, <<>>}
  BY Zenon DEF Break, CheckIdle, CloseClient, ClosesSocket, vars, net, locals
<1>2. Responded' \subseteq Responded /\ \A i : Callers(i)' = Callers(i)
  <2>1. On(wire') \subseteq On(wire)
    BY <1>1, OnFacts, ResponseTypes, Zenon DEF CallInv, TypeOK, ChannelTypes
  <2> QED
    BY <1>1, <2>1, Zenon DEF Responded, Callers
<1>3. IdInv'
  BY <1>1, <1>2, Zenon DEF CallInv, IdInv, IdsDiffer, IdsCounted, EarlyIsNew, BodyIsErased,
     NoResultYet
<1>4. WaitedFor' /\ ExecutedInv' /\ SuccessIsExecuted'
  BY <1>1, <1>2, Zenon DEF CallInv, WaitedFor, ExecutedInv, SuccessIsExecuted
<1> QED
  BY <1>3, <1>4, Zenon DEF CallInv

LEMMA CallInit == Init => CallInv
<1> SUFFICES ASSUME Init PROVE CallInv
  BY Zenon
<1>1. TypeOK
  BY TypeInit, Zenon
<1>2. \A m \in Responded : m = NoHeader
  BY DEF Init, Responded, On
<1>3. NoHeader.id <= 0 /\ NoHeader.status # "success"
  BY DEF NoHeader, None
<1>4. IdInv
  BY <1>2, <1>3, Zenon DEF Init, IdInv, IdsDiffer, IdsCounted, EarlyIsNew, BodyIsErased,
     NoResultYet, Early
<1>5. WaitedFor /\ ExecutedInv /\ SuccessIsExecuted
  BY <1>2, <1>3, Zenon DEF Init, WaitedFor, ExecutedInv, SuccessIsExecuted
<1> QED
  BY <1>1, <1>4, <1>5, Zenon DEF CallInv

LEMMA CallNext == ASSUME CallInv, [Next]_vars PROVE CallInv'
<1>1. TypeOK'
  BY TypeNext, Zenon DEF CallInv
<1>2. ASSUME NEW t \in Threads, Invoke(t) \/ Step(t) PROVE CallInv'
  BY <1>1, <1>2, SettlesSteps, SettlesInv, QuietInv, ReadInv, SendRequestInv, Zenon DEF Step
<1>3. ASSUME Server PROVE CallInv'
  BY <1>1, <1>3, AnswerInv, Zenon DEF Server
<1>4. CASE Break \/ CheckIdle \/ CloseClient \/ UNCHANGED vars
  BY <1>1, <1>4, LossInv, Zenon
<1> QED
  BY <1>2, <1>3, <1>4, Zenon DEF Next, Polls, Quiet

-----------------------------------------------------------------------------
(* The theorems.                                                           *)

\* The ids of the calls, their results and what is on the way fit together.
THEOREM CallsAreKnown == Spec => []CallInv
<1> QED
  BY CallInit, CallNext, PTL DEF Spec

\* The handshake does not stay pending.
THEOREM HandshakeEnds == Spec => []HandshakeInv
<1>1. Init => HandshakeInv
  BY Zenon DEF Init, HandshakeInv
<1>2. CallInv /\ HandshakeInv /\ [Next]_vars => HandshakeInv'
  BY HandshakeNext, Zenon DEF CallInv
<1> QED
  BY <1>1, <1>2, CallsAreKnown, PTL DEF Spec

\* A response finds the memory of its caller, and no call is pending when nobody calls.
THEOREM PendingSafe == Spec => []PendingIsCurrent
<1>1. CallInv /\ HandshakeInv => PendingIsCurrent
  BY Zenon DEF CallInv, WaitedFor, HandshakeInv, Callers, PendingIsCurrent
<1> QED
  BY <1>1, CallsAreKnown, HandshakeEnds, PTL

\* A call that succeeds was executed by the server, or completed by stray bytes.
THEOREM SuccessSafe == Spec => []SuccessIsExecuted
<1>1. CallInv => SuccessIsExecuted
  BY Zenon DEF CallInv
<1> QED
  BY <1>1, CallsAreKnown, PTL

\* Every variable keeps its type.
THEOREM TypesAreKept == Spec => []TypeOK
<1> QED
  BY TypeInit, TypeNext, PTL DEF Spec

\* A request that is not idempotent is written at most once.
THEOREM SentSafe == Spec => []SentOnce
<1>1. Init => SentInv
  BY DEF Init, SentInv, Early
<1>2. TypeOK /\ SentInv /\ [Next]_vars => SentInv'
  BY SentNext, Zenon
<1>3. SentInv => SentOnce
  BY DEF SentInv, SentOnce
<1> QED
  BY <1>1, <1>2, <1>3, TypesAreKept, PTL DEF Spec

\* One thread at a time reads responses and one connects, whatever was thrown before.
LocksExclude ==
    \A t, u \in Threads :
       \/ pc[t] \in Reading /\ pc[u] \in Reading
       \/ pc[t] \in Connecting /\ pc[u] \in Connecting
       => t = u

\* The locks are held where they are needed, and every exception gives them back.
THEOREM LocksSafe == Spec => []LocksExclude
<1>1. Init => LockInv
  BY RpcChannelAssumption DEF Init, LockInv, Reading, Connecting, Early, None
<1>2. TypeOK /\ LockInv /\ [Next]_vars => LockInv'
  BY LockNext
<1>3. LockInv => LocksExclude
  BY Zenon DEF LockInv, LocksExclude
<1> QED
  BY <1>1, <1>2, <1>3, TypesAreKept, PTL DEF Spec
=============================================================================
