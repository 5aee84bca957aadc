---------------------------- MODULE NamenodeProxy ----------------------------
(***************************************************************************)
(* A call to the namenode, from NamenodeProxy (server/NamenodeProxy.cpp)   *)
(* through NamenodeImpl (server/NamenodeImpl.cpp) to a channel of the RPC  *)
(* client: the active namenode is looked up, a channel is taken, the       *)
(* request is sent, the channel is given back, and a standby or unreachable*)
(* namenode makes the proxy move to the next one and try again.            *)
(*                                                                         *)
(* The constructor shuffles the namenodes: any of them may be the active   *)
(* one at any position.  What can come out of a channel (RpcChannel) is    *)
(* listed in rpcInvoke.                                                    *)
(*                                                                         *)
(* A scenario bounds a behaviour: the number of calls that the network or  *)
(* a timeout breaks (faults), of calls that a namenode answers with an     *)
(* error (errors), of changes of the active namenode (switches), whether   *)
(* it is long enough for the cleaner to look at the channels (idle),       *)
(* whether the process may exit while calls run (exit), and the functions  *)
(* that each thread calls (functions).                                     *)
(***************************************************************************)
EXTENDS RpcClient, NamenodeMethods

CONSTANTS
    Threads,              \* application threads
    MaxHARetry,           \* dfs.client.failover.max.attempts
    Scenarios             \* bounds: what may happen in a run, see below

VARIABLES
    namenodes,            \* size of the vector; 0 once the proxy is closed
    enableNamenodeHA,     \* it was given more than one namenode
    currentNamenode,
    pc,                   \* where the call of each thread is
    method, path,         \* what it calls, and the form of the path it sends
    count, oldValue,      \* __count and __oldValue of the retry loop
    server,               \* the namenode it got from getActiveNamenode
    exc, name,            \* exception in flight, class the server named
    active,               \* the namenode that is active
    executed, lost,       \* times the call took effect; one that timed out did
    calm,                 \* no fault and no switch since the call began
    scenario, faults, errors, switches

nnVars == <<namenodes, enableNamenodeHA, currentNamenode, pc, method, path,
            count, oldValue, server, exc, name, active, executed, lost, calm, faults,
            scenario, errors, switches>>
budget == <<scenario, faults, errors, switches>>

\* set by the constructor
maxNamenodeHARetry == IF enableNamenodeHA THEN MaxHARetry ELSE 0

NNInit ==
    /\ currentNamenode = 0 /\ active \in Servers
    /\ pc = [t \in Threads |-> "idle"]
    /\ method = [t \in Threads |-> NoException] /\ path = [t \in Threads |-> NoException]
    /\ count = [t \in Threads |-> 0] /\ oldValue = [t \in Threads |-> 0]
    /\ server = [t \in Threads |-> 0]
    /\ exc = [t \in Threads |-> NoException] /\ name = [t \in Threads |-> NoException]
    /\ executed = [t \in Threads |-> 0] /\ lost = [t \in Threads |-> FALSE]
    /\ calm = [t \in Threads |-> TRUE]
    /\ scenario \in Scenarios
    /\ faults = 0 /\ errors = 0 /\ switches = 0

\* Methods of the proxy: each is the retry loop around the method of the
\* same name of the active namenode.
ProxyFileMethods ==
    {"getBlockLocations", "create", "append", "setReplication", "setPermission",
     "setOwner", "abandonBlock", "addBlock", "getAdditionalDatanode", "complete"}
ProxyNamespaceMethods ==
    {"rename", "truncate", "getLease", "releaseLease", "deleteFile", "mkdirs",
     "getListing", "renewLease"}
ProxyStatusMethods ==
    {"getFsStats", "getFileInfo", "fsync", "setTimes", "updateBlockForPipeline",
     "updatePipeline", "getDelegationToken", "renewDelegationToken",
     "cancelDelegationToken"}
ProxyMethods == ProxyFileMethods \cup ProxyNamespaceMethods \cup ProxyStatusMethods

\* A thread enters method m of the proxy with a path of form p.
proxyCall(t, m, p) ==
    /\ m \in ProxyMethods
    /\ pc' = [pc EXCEPT ![t] = "active"]
    /\ method' = [method EXCEPT ![t] = m] /\ path' = [path EXCEPT ![t] = p]
    /\ count' = [count EXCEPT ![t] = 0]
    /\ exc' = [exc EXCEPT ![t] = NoException] /\ name' = [name EXCEPT ![t] = NoException]
    /\ executed' = [executed EXCEPT ![t] = 0] /\ lost' = [lost EXCEPT ![t] = FALSE]
    /\ calm' = [calm EXCEPT ![t] = TRUE]
    /\ UNCHANGED <<namenodes, enableNamenodeHA, currentNamenode, oldValue,
                   server, active, budget>>

\* getActiveNamenode
getActiveNamenode(t) ==
    /\ pc[t] = "active"
    /\ IF namenodes = 0
       THEN /\ exc' = [exc EXCEPT ![t] = "HdfsFileSystemClosed"]
            /\ pc' = [pc EXCEPT ![t] = "function"] /\ UNCHANGED <<oldValue, server>>
       ELSE /\ oldValue' = [oldValue EXCEPT ![t] = currentNamenode]
            /\ server' = [server EXCEPT ![t] = currentNamenode % namenodes]
            /\ pc' = [pc EXCEPT ![t] = "channel"] /\ UNCHANGED exc
    /\ UNCHANGED <<namenodes, enableNamenodeHA, currentNamenode, method, path,
                   count, name, active, executed, lost, calm, budget, rpcVars>>

\* NamenodeImpl::invoke takes a channel ...
takeChannel(t) ==
    /\ pc[t] = "channel"
    /\ \/ /\ getChannel(server[t])
          /\ pc' = [pc EXCEPT ![t] = "invoke"] /\ UNCHANGED exc
       \/ /\ getChannelFails
          /\ exc' = [exc EXCEPT ![t] = "HdfsRpcException"]
          /\ pc' = [pc EXCEPT ![t] = "decide"]
    /\ UNCHANGED <<namenodes, enableNamenodeHA, currentNamenode, method, path,
                   count, oldValue, server, name, active, executed, lost, calm,
                   budget>>

\* The end of channel.invoke(call): the exception it threw, the class the
\* server named, and whether the call took effect at the namenode.
rpcEnds(t, e, n, effect) ==
    /\ exc' = [exc EXCEPT ![t] = e] /\ name' = [name EXCEPT ![t] = n]
    /\ executed' = [executed EXCEPT ![t] = @ + (IF effect THEN 1 ELSE 0)]
    /\ lost' = [lost EXCEPT ![t] = @ \/ (effect /\ e = "HdfsFailoverException")]
    /\ pc' = [pc EXCEPT ![t] = "release"]

\* The answers a client may get: the active namenode carries the call out, or
\* refuses it with an error, or leaves an optional field of the answer out;
\* any other namenode is standby.  A connection that cannot be set up, and a
\* write or read that times out, end as HdfsFailoverException; a broken
\* connection, a late answer and a client that is closing as HdfsRpcException.
\* (An idempotent call was then sent twice.)
rpcInvoke(t) ==
    /\ pc[t] = "invoke"
    /\ \/ /\ active = server[t] /\ running
          /\ rpcEnds(t, NoException, NoException, TRUE)
          /\ UNCHANGED <<budget, calm>>
       \/ /\ active = server[t] /\ running /\ errors < scenario.errors
          /\ errors' = errors + 1
          /\ \/ \E n \in ReflexNames \ {"NameNodeStandbyException"} :
                    rpcEnds(t, HandlerRpcResponseException(n), n, FALSE)
             \/ /\ Methods[method[t]].empty # NoException
                /\ \E effect \in BOOLEAN :
                      rpcEnds(t, Methods[method[t]].empty, NoException, effect)
          /\ UNCHANGED <<scenario, faults, switches, calm>>
       \/ /\ active # server[t] /\ running
          /\ rpcEnds(t, HandlerRpcResponseException("NameNodeStandbyException"),
                     NoException, FALSE)
          /\ UNCHANGED <<budget, calm>>
       \/ /\ faults < scenario.faults /\ faults' = faults + 1
          /\ calm' = [u \in Threads |-> FALSE]
          /\ \E e \in {"HdfsFailoverException", "HdfsRpcException"}, effect \in BOOLEAN :
                /\ effect => active = server[t]
                /\ rpcEnds(t, e, NoException, effect)
          /\ UNCHANGED <<scenario, errors, switches>>
       \/ /\ ~running
          /\ \E effect \in BOOLEAN : rpcEnds(t, "HdfsRpcException", NoException,
                                             effect /\ active = server[t])
          /\ UNCHANGED <<budget, calm>>
    /\ UNCHANGED <<namenodes, enableNamenodeHA, currentNamenode, method, path,
                   count, oldValue, server, active, rpcVars>>

\* ... gives it back on both paths, and the method restores the class of a
\* server error.
giveChannelBack(t) ==
    /\ pc[t] = "release"
    /\ releaseChannel(server[t])
    /\ exc' = [exc EXCEPT ![t] = MethodException(method[t], @, name[t])]
    /\ pc' = [pc EXCEPT ![t] = "decide"]
    /\ UNCHANGED <<namenodes, enableNamenodeHA, currentNamenode, method, path,
                   count, oldValue, server, name, active, executed, lost, calm,
                   budget>>

RetriedExceptionsAndRpc ==
    {"NameNodeStandbyException", "HdfsFailoverException", "HdfsRpcException"}

\* The catch clauses of the retry loop, and the test in both of them.
RetriedExceptions == {"NameNodeStandbyException", "HdfsFailoverException"}

giveUpEarly(t) == ~enableNamenodeHA \/ count[t] >= maxNamenodeHARetry
giveUp(t) == ~enableNamenodeHA \/ count[t] > maxNamenodeHARetry

HandleHdfsFailoverException(c) ==
    IF c = "HdfsFailoverException" THEN "HdfsRpcException" ELSE c

retryLoop(t) ==
    /\ pc[t] = "decide"
    /\ IF exc[t] \notin RetriedExceptions
       THEN pc' = [pc EXCEPT ![t] = "function"] /\ UNCHANGED <<exc, count>>
       ELSE /\ count' = [count EXCEPT ![t] = IF enableNamenodeHA THEN @ + 1 ELSE @]
            /\ IF giveUp(t)
               THEN /\ exc' = [exc EXCEPT ![t] = HandleHdfsFailoverException(@)]
                    /\ pc' = [pc EXCEPT ![t] = "function"]
               ELSE /\ exc' = [exc EXCEPT ![t] = NoException]
                    /\ pc' = [pc EXCEPT ![t] = "failover"]
    /\ UNCHANGED <<namenodes, enableNamenodeHA, currentNamenode, method, path,
                   oldValue, server, name, active, executed, lost, calm, budget,
                   rpcVars>>

\* failoverToNextNamenode; % namenodes.size() is a division by zero when the
\* proxy is closed meanwhile.
failoverToNextNamenode(t) ==
    /\ pc[t] = "failover"
    /\ IF oldValue[t] # currentNamenode
       THEN pc' = [pc EXCEPT ![t] = "active"] /\ UNCHANGED currentNamenode
       ELSE IF namenodes = 0
       THEN pc' = [pc EXCEPT ![t] = "abort"] /\ UNCHANGED currentNamenode
       ELSE /\ currentNamenode' = (currentNamenode + 1) % namenodes
            /\ pc' = [pc EXCEPT ![t] = "active"]
    /\ UNCHANGED <<namenodes, enableNamenodeHA, method, path, count, oldValue,
                   server, exc, name, active, executed, lost, calm, budget, rpcVars>>

\* The cluster moves the active role.
switchActive ==
    /\ switches < scenario.switches /\ switches' = switches + 1
    /\ \E n \in 0 .. namenodes - 1 : n # active /\ active' = n
    /\ calm' = [u \in Threads |-> FALSE]
    /\ UNCHANGED <<namenodes, enableNamenodeHA, currentNamenode, pc, method,
                   path, count, oldValue, server, exc, name, executed, lost,
                   scenario, faults, errors, rpcVars>>

proxyStep(t) ==
    \/ getActiveNamenode(t) \/ takeChannel(t) \/ rpcInvoke(t)
    \/ giveChannelBack(t) \/ retryLoop(t) \/ failoverToNextNamenode(t)
=============================================================================
