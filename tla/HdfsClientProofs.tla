------------------------- MODULE HdfsClientProofs -------------------------
(***************************************************************************)
(* The invariants of HdfsProxyProofs hold in every state of HdfsClient,    *)
(* for any number of threads, calls and faults.                            *)
(***************************************************************************)
EXTENDS HdfsProxyProofs

-----------------------------------------------------------------------------
(* Entering and leaving a function, and the call.                          *)

\* The types of what enter and leave say nothing about.
OwnerTypes ==
    /\ namenodes \in 0..2 /\ currentNamenode \in Nat
    /\ handle \in {None, "connecting", "connected"}
    /\ implRefs \subseteq Threads \cup {"handle"}
    /\ file \in [Threads -> {None, "in", "out"}]

LEMMA SameOwnerTypes ==
    ASSUME TypeOK, UNCHANGED <<namenodes, currentNamenode, handle, implRefs, file>>
    PROVE  OwnerTypes'
BY Zenon DEF TypeOK, ProxyType, ApiType, OwnerTypes

LEMMA EnterInv ==
    ASSUME IInv, NEW t \in Threads, pc[t] = "idle", NEW f \in AllFunctions, NEW form, NEW calls,
           enter(t, f, form, calls), form = "full" \/ calls \in PathCalls, OwnerTypes'
    PROVE  TypeOK' /\ SameChannels /\ CallInv'
<1> USE DEF IInv
<1>1. /\ fn' = [fn EXCEPT ![t] = f] /\ arg' = [arg EXCEPT ![t] = form]
      /\ todo' = [todo EXCEPT ![t] = calls] /\ pc' = [pc EXCEPT ![t] = "function"]
      /\ UNCHANGED <<exc, name, ret, method, path, server, executed, lost, file, allChannels, refs>>
  BY Zenon DEF enter, rpcVars
<1>2. TypeOK'
  BY <1>1, Zenon DEF TypeOK, ProxyType, ApiType, OwnerTypes
<1>3. TryInv(t) /\ PathInv(t) BY Zenon DEF CallInv
<1>4. pc'[t] = "function" /\ arg'[t] = form /\ todo'[t] = calls
  BY <1>1, Zenon DEF TypeOK, ProxyType, ApiType
<1>5. TryInv(t)' BY <1>1, <1>3, <1>4, Zenon DEF TryInv, InProxy
<1>6. PathInv(t)' BY <1>1, <1>3, <1>4, Zenon DEF PathInv
<1>7. \A u \in Threads \ {t} : SameCall(u)
  BY <1>1, Zenon DEF SameCall, TypeOK, ProxyType, ApiType
<1>8. SameChannels
  BY <1>1, Zenon DEF SameChannels, TypeOK, ProxyType, OnChannel
<1> QED BY <1>2, <1>5, <1>6, <1>7, <1>8, OneCallInv, Zenon

LEMMA LeaveInv ==
    ASSUME IInv, NEW t \in Threads, pc[t] = "function", NEW r, NEW e, leave(t, r, e),
           r = "ok" => exc[t] = NoException /\ todo[t] = <<>>,
           exc' = [exc EXCEPT ![t] = exc'[t]], exc'[t] \in Errors, OwnerTypes'
    PROVE  TypeOK' /\ SameChannels /\ CallInv'
<1> USE DEF IInv
<1>1. /\ ret' = [ret EXCEPT ![t] = r] /\ fn' = [fn EXCEPT ![t] = None]
      /\ todo' = [todo EXCEPT ![t] = <<>>] /\ pc' = [pc EXCEPT ![t] = "returned"]
      /\ UNCHANGED <<name, arg, method, path, server, executed, lost, allChannels, refs>>
  BY Zenon DEF leave, rpcVars
<1>2. TypeOK'
  BY <1>1 DEF TypeOK, ProxyType, ApiType, OwnerTypes
<1>3. TryInv(t) /\ PathInv(t) BY Zenon DEF CallInv
<1>4. pc'[t] = "returned" /\ ret'[t] = r /\ todo'[t] = <<>>
  BY <1>1, Zenon DEF TypeOK, ProxyType, ApiType
<1>5. TryInv(t)' BY <1>1, <1>3, <1>4, Zenon DEF TryInv, InProxy
<1>6. PathInv(t)' BY <1>1, <1>3, <1>4, PathCallsFacts, Zenon DEF PathInv
<1>7. \A u \in Threads \ {t} : SameCall(u)
  BY <1>1, Zenon DEF SameCall, TypeOK, ProxyType, ApiType
<1>8. SameChannels
  BY <1>1, Zenon DEF SameChannels, TypeOK, ProxyType, OnChannel
<1> QED BY <1>2, <1>5, <1>6, <1>7, <1>8, OneCallInv, Zenon

\* A function without a call returns.
LEMMA ReturnInv ==
    ASSUME IInv, NEW t \in Threads, pc[t] = "idle", NEW r,
           pc' = [pc EXCEPT ![t] = "returned"], ret' = [ret EXCEPT ![t] = r],
           UNCHANGED <<exc, name, method, path, server, executed, lost, fn, arg, todo,
                       allChannels, refs>>,
           OwnerTypes'
    PROVE  TypeOK' /\ SameChannels /\ CallInv'
<1> USE DEF IInv
<1>1. TypeOK'
  BY Zenon DEF TypeOK, ProxyType, ApiType, OwnerTypes
<1>2. TryInv(t) /\ PathInv(t) BY Zenon DEF CallInv
<1>3. pc'[t] = "returned" BY Zenon DEF TypeOK, ProxyType
<1>4. TryInv(t)' BY <1>2, <1>3, Zenon DEF TryInv, InProxy
<1>5. PathInv(t)' BY <1>2, Zenon DEF PathInv
<1>6. \A u \in Threads \ {t} : SameCall(u)
  BY Zenon DEF SameCall, TypeOK, ProxyType, ApiType
<1>7. SameChannels
  BY Zenon DEF SameChannels, TypeOK, ProxyType, OnChannel
<1> QED BY <1>1, <1>4, <1>5, <1>6, <1>7, OneCallInv, Zenon

LEMMA LeaveAtOnceInv ==
    ASSUME IInv, NEW t \in Threads, pc[t] = "idle", NEW e, leaveAtOnce(t, e)
    PROVE  IInv' /\ SameChannels
<1> USE DEF IInv
<1>1. /\ pc' = [pc EXCEPT ![t] = "returned"]
      /\ ret' = [ret EXCEPT ![t] = IF e = None THEN "ok" ELSE "error"]
      /\ UNCHANGED <<exc, name, method, path, server, executed, lost, fn, arg, todo,
                     allChannels, refs, namenodes, currentNamenode, handle, implRefs, file>>
  BY Zenon DEF leaveAtOnce, rpcVars
<1>2. OwnerTypes' BY <1>1, SameOwnerTypes, Zenon
<1>3. TypeOK' /\ SameChannels /\ CallInv' BY <1>1, <1>2, ReturnInv, Zenon
<1>4. SameOwners
  BY <1>1, Zenon DEF SameOwners, TypeOK, ProxyType, InFn, InProxy
<1> QED BY <1>3, <1>4, SameOwnersInv, Zenon

-----------------------------------------------------------------------------
(* The functions of the C interface are called.                            *)

\* A function on the handle or on a file is entered.
LEMMA EnterHandleInv ==
    ASSUME IInv, NEW t \in Threads, pc[t] = "idle", handle = "connected",
           NEW f \in AllFunctions, f \notin FileFunctions \cup {None, "hdfsConnect"},
           NEW form, NEW calls, enter(t, f, form, calls), form = "full" \/ calls \in PathCalls,
           SameProxy, UNCHANGED <<handle, implRefs>>
    PROVE  IInv' /\ SameChannels
<1> USE DEF IInv
<1>1. /\ UNCHANGED <<namenodes, currentNamenode, handle, implRefs, file>>
      /\ pc' = [pc EXCEPT ![t] = "function"] /\ fn' = [fn EXCEPT ![t] = f]
  BY Zenon DEF enter, SameProxy
<1>2. OwnerTypes' BY <1>1, SameOwnerTypes, Zenon
<1>3. TypeOK' /\ SameChannels /\ CallInv' BY <1>2, EnterInv, Zenon
<1>4. OwnerInv' BY <1>1, EnterFunction, Zenon
<1> QED BY <1>3, <1>4, Zenon

LEMMA EnterFileInv ==
    ASSUME IInv, NEW t \in Threads, pc[t] = "idle", file[t] # None, NEW f \in FileFunctions,
           NEW calls, enter(t, f, "full", calls), SameProxy, UNCHANGED <<handle, implRefs>>
    PROVE  IInv' /\ SameChannels
<1> USE DEF IInv
<1>1. /\ UNCHANGED <<namenodes, currentNamenode, handle, implRefs, file>>
      /\ pc' = [pc EXCEPT ![t] = "function"] /\ fn' = [fn EXCEPT ![t] = f]
  BY Zenon DEF enter, SameProxy
<1>2. OwnerTypes' BY <1>1, SameOwnerTypes, Zenon
<1>3. f \in AllFunctions BY Zenon DEF AllFunctions, FileFunctions
<1>4. TypeOK' /\ SameChannels /\ CallInv' BY <1>2, <1>3, EnterInv, Zenon
<1>5. OwnerInv' BY <1>1, EnterFileFunction, Zenon
<1> QED BY <1>4, <1>5, Zenon

LEMMA CallConnectInv ==
    ASSUME IInv, NEW t \in Threads, pc[t] = "idle", callConnect(t)
    PROVE  IInv' /\ SameChannels
<1> USE DEF IInv
<1>1. /\ handle = None /\ implRefs = {} /\ enter(t, "hdfsConnect", "full", <<"getFsStats">>)
      /\ handle' = "connecting" /\ implRefs' = {"handle"}
      /\ namenodes' \in {1, 2} /\ currentNamenode' = 0
  BY Zenon DEF callConnect
<1>2. pc' = [pc EXCEPT ![t] = "function"] /\ fn' = [fn EXCEPT ![t] = "hdfsConnect"] /\ file' = file
  BY <1>1, Zenon DEF enter
<1>3. OwnerTypes'
  BY <1>1, <1>2 DEF OwnerTypes, TypeOK, ApiType
<1>4. "hdfsConnect" \in AllFunctions BY Zenon DEF AllFunctions
<1>5. TypeOK' /\ SameChannels /\ CallInv' BY <1>1, <1>3, <1>4, EnterInv, Zenon
<1>6. OwnerInv' BY <1>1, <1>2, EnterConnect, Zenon
<1> QED BY <1>5, <1>6, Zenon

LEMMA CallDisconnectInv ==
    ASSUME IInv, NEW t \in Threads, pc[t] = "idle", callDisconnect(t)
    PROVE  IInv' /\ SameChannels
<1> USE DEF IInv
<1>1. /\ handle = "connected" /\ \A u \in Threads : fn[u] \in FileFunctions \cup {None}
      /\ handle' = None /\ dropRef("handle")
      /\ pc' = [pc EXCEPT ![t] = "returned"] /\ ret' = [ret EXCEPT ![t] = "ok"]
      /\ UNCHANGED <<exc, name, method, path, server, executed, lost, fn, arg, todo,
                     allChannels, refs, file>>
  BY Zenon DEF callDisconnect, rpcVars
<1>2. OwnerTypes'
  BY <1>1 DEF dropRef, OwnerTypes, TypeOK, ProxyType, ApiType
<1>3. TypeOK' /\ SameChannels /\ CallInv' BY <1>1, <1>2, ReturnInv, Zenon
<1>4. OwnerInv' BY <1>1, DisconnectOwners, Zenon
<1> QED BY <1>3, <1>4

LEMMA CallStepInv ==
    ASSUME IInv, NEW t \in Threads, call(t)
    PROVE  IInv' /\ SameChannels
<1>0. pc[t] = "idle" BY Zenon DEF call
<1>1. CASE callConnect(t) BY <1>0, <1>1, CallConnectInv, Zenon
<1>2. CASE callFunction(t)
  <2>1. PICK f \in DOMAIN CFunctions : \E form \in PathForms(f) :
            enter(t, f, form, <<CFunctions[f].op>>)
    BY <1>2, Zenon DEF callFunction
  <2>a. PICK form : enter(t, f, form, <<CFunctions[f].op>>)
    BY <2>1, Zenon
  <2>2. f \in AllFunctions /\ f \notin FileFunctions \cup {None, "hdfsConnect"}
    BY FunctionNames, Zenon DEF AllFunctions
  <2>3. <<CFunctions[f].op>> \in PathCalls BY PathOpsFacts, PathCallsFacts, Zenon
  <2>4. handle = "connected" /\ SameProxy /\ UNCHANGED <<handle, implRefs>>
    BY <1>2, Zenon DEF callFunction
  <2> QED BY <1>0, <2>a, <2>2, <2>3, <2>4, EnterHandleInv, Zenon
<1>3. CASE callLocal(t)
  <2>1. PICK e : leaveAtOnce(t, e) BY <1>3, Zenon DEF callLocal
  <2> QED BY <1>0, <2>1, LeaveAtOnceInv, Zenon
<1>4. CASE callOpen(t)
  <2>1. handle = "connected" /\ SameProxy /\ UNCHANGED <<handle, implRefs>>
    BY <1>4, Zenon DEF callOpen
  <2>2. CASE enter(t, "openRead", "full", <<"getBlockLocations">>)
    <3>1. "openRead" \in AllFunctions /\ "openRead" \notin FileFunctions \cup {None, "hdfsConnect"}
      BY FunctionNames, Zenon DEF AllFunctions
    <3> QED BY <1>0, <2>1, <2>2, <3>1, EnterHandleInv, Zenon
  <2>3. CASE \E f \in DOMAIN OpenFunctions, form \in {"full", "relative"} :
                enter(t, f, form, createOrAppend(OpenFunctions[f]))
    <3>1. PICK f \in DOMAIN OpenFunctions, form \in {"full", "relative"} :
                enter(t, f, form, createOrAppend(OpenFunctions[f]))
      BY <2>3, Zenon
    <3>2. f \in AllFunctions /\ f \notin FileFunctions \cup {None, "hdfsConnect"}
      BY FunctionNames, Zenon DEF AllFunctions
    <3>3. createOrAppend(OpenFunctions[f]) \in PathCalls
      BY PathOpsFacts, PathCallsFacts, Zenon DEF createOrAppend
    <3> QED BY <1>0, <2>1, <3>1, <3>2, <3>3, EnterHandleInv, Zenon
  <2> QED BY <1>4, <2>2, <2>3, Zenon DEF callOpen
<1>5. CASE callOpenRefused(t)
  BY <1>0, <1>5, LeaveAtOnceInv, Zenon DEF callOpenRefused
<1>6. CASE callStream(t)
  <2>1. file[t] # None /\ SameProxy /\ UNCHANGED <<handle, implRefs>>
    BY <1>6, Zenon DEF callStream
  <2>2. PICK f \in DOMAIN CStreamFunctions :
            \E calls \in CStreamFunctions[f].calls : enter(t, f, "full", calls)
    BY <1>6, Zenon DEF callStream
  <2>3. PICK calls : enter(t, f, "full", calls)
    BY <2>2, Zenon
  <2>4. f \in FileFunctions BY Zenon DEF FileFunctions
  <2> QED BY <1>0, <2>1, <2>3, <2>4, EnterFileInv, Zenon
<1>7. CASE callStreamRefused(t)
  BY <1>0, <1>7, LeaveAtOnceInv, Zenon DEF callStreamRefused
<1>8. CASE callClose(t)
  <2>1. file[t] # None /\ SameProxy /\ UNCHANGED <<handle, implRefs>>
    BY <1>8, Zenon DEF callClose
  <2>2. PICK calls : enter(t, "hdfsCloseFile", "full", calls)
    BY <1>8, Zenon DEF callClose
  <2>3. "hdfsCloseFile" \in FileFunctions BY Zenon DEF FileFunctions
  <2> QED BY <1>0, <2>1, <2>2, <2>3, EnterFileInv, Zenon
<1>9. CASE callList(t)
  <2>1. handle = "connected" /\ SameProxy /\ UNCHANGED <<handle, implRefs>>
    BY <1>9, Zenon DEF callList
  <2>2. PICK f \in ListFunctions : enter(t, f, "full", <<"listDirectory">>)
    BY <1>9, Zenon DEF callList
  <2>3. f \in AllFunctions /\ f \notin FileFunctions \cup {None, "hdfsConnect"}
    BY FunctionNames, Zenon DEF AllFunctions
  <2> QED BY <1>0, <2>1, <2>2, <2>3, EnterHandleInv, Zenon
<1>10. CASE callDisconnect(t) BY <1>0, <1>10, CallDisconnectInv
<1> QED BY <1>1, <1>2, <1>3, <1>4, <1>5, <1>6, <1>7, <1>8, <1>9, <1>10, Zenon DEF call

-----------------------------------------------------------------------------
(* The steps inside of a function.                                         *)

LEMMA NextCallInv ==
    ASSUME IInv, NEW t \in Threads, nextCall(t)
    PROVE  IInv' /\ SameChannels
<1> USE DEF IInv
<1> DEFINE o == Head(todo[t])
           m == ImplOps[o].method
           p == sentPath(t, o)
<1>1. /\ pc[t] = "function" /\ todo[t] # <<>> /\ proxyCall(t, m, p)
      /\ todo' = [todo EXCEPT ![t] = Tail(todo[t])]
      /\ UNCHANGED <<handle, implRefs, file, fn, arg, ret, allChannels, refs>>
  BY Zenon DEF nextCall, InFunction, rpcVars
<1>2. p = "relative" => arg[t] = "relative" /\ ImplOps[o].path = "raw"
  BY Zenon DEF sentPath, None
<1> HIDE DEF m, p
<1>3. /\ m \in ProxyMethods /\ pc' = [pc EXCEPT ![t] = "active"]
      /\ method' = [method EXCEPT ![t] = m] /\ path' = [path EXCEPT ![t] = p]
      /\ exc' = [exc EXCEPT ![t] = NoException] /\ name' = [name EXCEPT ![t] = NoException]
      /\ executed' = [executed EXCEPT ![t] = 0] /\ lost' = [lost EXCEPT ![t] = FALSE]
      /\ UNCHANGED <<namenodes, currentNamenode, server>>
  BY <1>1, Zenon DEF proxyCall
<1>4. NoException \in Errors BY Zenon DEF Errors
<1>5. TypeOK'
  <2>1. executed' \in [Threads -> Nat] /\ lost' \in [Threads -> BOOLEAN]
    BY <1>3, Zenon DEF TypeOK, ProxyType
  <2> QED BY <1>1, <1>3, <1>4, <2>1, Zenon DEF TypeOK, ProxyType, ApiType, InProxy
<1>6. TryInv(t)'
  <2>1. pc'[t] = "active" /\ executed'[t] = 0 /\ method'[t] = m
    BY <1>3, Zenon DEF TypeOK, ProxyType
  <2>2. m # None
    BY <1>3, Zenon
    DEF ProxyMethods, ProxyFileMethods, ProxyNamespaceMethods, ProxyStatusMethods, None
  <2> QED BY <2>1, <2>2 DEF TryInv, InProxy
<1>7. PathInv(t)'
  <2>1. path'[t] = p /\ method'[t] = m /\ todo'[t] = Tail(todo[t]) /\ arg'[t] = arg[t]
    BY <1>1, <1>3, Zenon DEF TypeOK, ProxyType, ApiType
  <2>2. PathInv(t) BY Zenon DEF CallInv
  <2>3. CASE arg[t] = "full"
    BY <1>2, <2>1, <2>3, Zenon DEF PathInv
  <2>4. CASE todo[t] \in PathCalls
    <3>1. o \in PathOps /\ Tail(todo[t]) \in PathCalls
      BY <1>1, <2>4, PathCallsFacts, Zenon
    <3>2. ImplOps[o].path = "raw" => m \in {"create", "append"}
      BY <3>1, Zenon DEF PathOps, m
    <3> QED BY <1>2, <2>1, <3>1, <3>2, Zenon DEF PathInv
  <2> QED BY <2>2, <2>3, <2>4, Zenon DEF PathInv
<1>8. \A u \in Threads \ {t} : SameCall(u)
  BY <1>1, <1>3, Zenon DEF SameCall, TypeOK, ProxyType, ApiType
<1>9. SameOwners
  BY <1>1, <1>3, Zenon DEF SameOwners, TypeOK, ProxyType, InFn, InProxy
<1>10. SameChannels
  BY <1>1, <1>3, Zenon DEF SameChannels, TypeOK, ProxyType, OnChannel
<1> QED BY <1>5, <1>6, <1>7, <1>8, <1>9, <1>10, OneCallInv, SameOwnersInv, Zenon

LEMMA CreateInsteadInv ==
    ASSUME IInv, NEW t \in Threads, createInstead(t)
    PROVE  IInv' /\ SameChannels
<1> USE DEF IInv
<1>1. /\ pc[t] = "function" /\ todo' = [todo EXCEPT ![t] = <<"create">>]
      /\ exc' = [exc EXCEPT ![t] = NoException] /\ name' = [name EXCEPT ![t] = NoException]
      /\ UNCHANGED <<namenodes, currentNamenode, pc, method, path, server, executed, lost, handle,
                     implRefs, file, fn, arg, ret, allChannels, refs>>
  BY Zenon DEF createInstead, InFunction, SameProxy, rpcVars
<1>2. NoException \in Errors BY DEF Errors
<1>3. TypeOK'
  BY <1>1, <1>2, Zenon DEF TypeOK, ProxyType, ApiType
<1>4. TryInv(t) /\ PathInv(t) BY Zenon DEF CallInv
<1>5. todo'[t] = <<"create">> /\ todo'[t] # <<>> BY <1>1, Zenon DEF TypeOK, ApiType
<1>6. TryInv(t)' BY <1>1, <1>4, <1>5, Zenon DEF TryInv, InProxy
<1>7. PathInv(t)'
  <2>1. <<"create">> \in PathCalls BY PathOpsFacts, PathCallsFacts, Zenon
  <2> QED BY <1>1, <1>4, <1>5, <2>1, Zenon DEF PathInv
<1>8. \A u \in Threads \ {t} : SameCall(u)
  BY <1>1, Zenon DEF SameCall, TypeOK, ProxyType, ApiType
<1>9. SameOwners BY <1>1, Zenon DEF SameOwners
<1>10. SameChannels BY <1>1, Zenon DEF SameChannels
<1> QED BY <1>3, <1>6, <1>7, <1>8, <1>9, <1>10, OneCallInv, SameOwnersInv

LEMMA FailFunctionInv ==
    ASSUME IInv, NEW t \in Threads, failFunction(t)
    PROVE  IInv' /\ SameChannels
<1> USE DEF IInv
<1>1. pc[t] = "function" /\ exc' = exc
  BY Zenon DEF failFunction, InFunction
<1>2. PICK r \in {"false", "error"} : \E e : leave(t, r, e)
  BY Zenon DEF failFunction
<1>3. PICK e : leave(t, r, e) BY <1>2, Zenon
<1>4. \/ /\ fn[t] = "hdfsConnect" /\ handle' = None /\ dropRef("handle") /\ file' = file
      \/ /\ fn[t] = "hdfsCloseFile" /\ file' = [file EXCEPT ![t] = None] /\ dropRef(t)
         /\ handle' = handle
      \/ SameProxy /\ UNCHANGED <<handle, implRefs, file>>
  BY Zenon DEF failFunction
<1>5. OwnerTypes'
  BY <1>4 DEF dropRef, SameProxy, OwnerTypes, TypeOK, ProxyType, ApiType
<1>6. exc' = [exc EXCEPT ![t] = exc'[t]] /\ exc'[t] \in Errors
  BY <1>1, Zenon DEF TypeOK, ProxyType
<1>7. TypeOK' /\ SameChannels /\ CallInv'
  BY <1>1, <1>3, <1>5, <1>6, LeaveInv, Zenon
<1>8. pc' = [pc EXCEPT ![t] = "returned"] /\ fn' = [fn EXCEPT ![t] = None]
  BY <1>3, Zenon DEF leave
<1>9. OwnerInv'
  BY <1>4, <1>8, LeaveConnectFailed, LeaveClose, LeavePlain, Zenon DEF SameProxy
<1> QED BY <1>7, <1>9, Zenon

LEMMA ListPageInv ==
    ASSUME IInv, NEW t \in Threads, listPage(t)
    PROVE  IInv' /\ SameChannels
<1> USE DEF IInv
<1>1. /\ pc[t] = "function" /\ exc[t] = NoException /\ todo[t] = <<>> /\ exc' = exc
      /\ UNCHANGED <<namenodes, currentNamenode, handle, implRefs, file>>
  BY Zenon DEF listPage, AllCallsDone, InFunction, SameProxy
<1>2. \/ /\ todo' = [todo EXCEPT ![t] = <<"listDirectory">>]
         /\ UNCHANGED <<method, path, server, name, executed, lost, arg, fn, pc, ret,
                        allChannels, refs>>
      \/ leave(t, "ok", None)
  BY Zenon DEF listPage, rpcVars
<1>3. CASE /\ todo' = [todo EXCEPT ![t] = <<"listDirectory">>]
           /\ UNCHANGED <<method, path, server, name, executed, lost, arg, fn, pc, ret,
                          allChannels, refs>>
  <2>1. TypeOK'
    BY <1>1, <1>3, Zenon DEF TypeOK, ProxyType, ApiType
  <2>2. TryInv(t) /\ PathInv(t) BY DEF CallInv
  <2>3. todo'[t] = <<"listDirectory">> /\ todo'[t] # <<>> BY <1>3, Zenon DEF TypeOK, ApiType
  <2>4. TryInv(t)' BY <1>1, <1>3, <2>2, <2>3, Zenon DEF TryInv, InProxy
  <2>5. PathInv(t)'
    <3>1. <<"listDirectory">> \in PathCalls BY PathOpsFacts, PathCallsFacts, Zenon
    <3> QED BY <1>3, <2>2, <2>3, <3>1, Zenon DEF PathInv
  <2>6. \A u \in Threads \ {t} : SameCall(u)
    BY <1>1, <1>3, Zenon DEF SameCall, TypeOK, ProxyType, ApiType
  <2>7. SameOwners BY <1>1, <1>3, Zenon DEF SameOwners
  <2>8. SameChannels BY <1>3, Zenon DEF SameChannels
  <2> QED BY <2>1, <2>4, <2>5, <2>6, <2>7, <2>8, OneCallInv, SameOwnersInv
<1>4. CASE leave(t, "ok", None)
  <2>1. OwnerTypes' BY <1>1, SameOwnerTypes, Zenon
  <2>2. exc' = [exc EXCEPT ![t] = exc'[t]] /\ exc'[t] \in Errors
    BY <1>1, Zenon DEF TypeOK, ProxyType
  <2>3. TypeOK' /\ SameChannels /\ CallInv'
    BY <1>1, <1>4, <2>1, <2>2, LeaveInv, Zenon
  <2>4. pc' = [pc EXCEPT ![t] = "returned"] /\ fn' = [fn EXCEPT ![t] = None]
    BY <1>4, Zenon DEF leave
  <2>5. OwnerInv' BY <1>1, <2>4, LeavePlain, Zenon
  <2> QED BY <2>3, <2>5, Zenon
<1> QED BY <1>2, <1>3, <1>4, Zenon

LEMMA FinishFunctionInv ==
    ASSUME IInv, NEW t \in Threads, finishFunction(t)
    PROVE  IInv' /\ SameChannels
<1> USE DEF IInv
<1>1. pc[t] = "function" /\ exc[t] = NoException /\ todo[t] = <<>> /\ exc' = exc
  BY Zenon DEF finishFunction, AllCallsDone, InFunction
<1>2. PICK r \in {"ok", "false"} : leave(t, r, None)
  BY Zenon DEF finishFunction
<1>3. \/ fn[t] = "hdfsConnect" /\ handle' = "connected" /\ SameProxy /\ UNCHANGED <<implRefs, file>>
      \/ /\ fn[t] = "hdfsCloseFile" /\ file' = [file EXCEPT ![t] = None] /\ dropRef(t)
         /\ handle' = handle
      \/ SameProxy /\ UNCHANGED <<handle, implRefs, file>>
  BY Zenon DEF finishFunction
<1>4. OwnerTypes'
  BY <1>3, SMTT(30) DEF dropRef, SameProxy, OwnerTypes, TypeOK, ProxyType, ApiType
<1>5. exc' = [exc EXCEPT ![t] = exc'[t]] /\ exc'[t] \in Errors
  BY <1>1, Zenon DEF TypeOK, ProxyType
<1>6. TypeOK' /\ SameChannels /\ CallInv'
  BY <1>1, <1>2, <1>4, <1>5, LeaveInv, Zenon
<1>7. pc' = [pc EXCEPT ![t] = "returned"] /\ fn' = [fn EXCEPT ![t] = None]
  BY <1>2, Zenon DEF leave
<1>8. OwnerInv'
  BY <1>3, <1>7, LeaveConnect, LeaveClose, LeavePlain, Zenon DEF SameProxy
<1> QED BY <1>6, <1>8, Zenon

LEMMA OpenStreamInv ==
    ASSUME IInv, NEW t \in Threads, openStream(t)
    PROVE  IInv' /\ SameChannels
<1> USE DEF IInv
<1>1. /\ pc[t] = "function" /\ exc[t] = NoException /\ todo[t] = <<>>
      /\ fn[t] \in DOMAIN OpenFunctions \cup {"openRead"}
      /\ UNCHANGED <<namenodes, currentNamenode, handle>>
  BY Zenon DEF openStream, AllCallsDone, InFunction, SameProxy
<1>2. CASE /\ leave(t, "ok", None) /\ implRefs' = implRefs \cup {t} /\ exc' = exc
           /\ file' = [file EXCEPT ![t] = IF fn[t] = "openRead" THEN "in" ELSE "out"]
  <2>1. PICK d \in {"in", "out"} : file' = [file EXCEPT ![t] = d]
    BY <1>2, Zenon
  <2>2. OwnerTypes'
    <3>1. file' \in [Threads -> {None, "in", "out"}] BY <2>1, Zenon DEF TypeOK, ApiType
    <3>2. implRefs' \subseteq Threads \cup {"handle"} BY <1>2, Zenon DEF TypeOK, ApiType
    <3> QED BY <1>1, <3>1, <3>2, Zenon DEF OwnerTypes, TypeOK, ProxyType, ApiType
  <2>3. exc' = [exc EXCEPT ![t] = exc'[t]] /\ exc'[t] \in Errors
    BY <1>2, Zenon DEF TypeOK, ProxyType
  <2>4. TypeOK' /\ SameChannels /\ CallInv'
    BY <1>1, <1>2, <2>2, <2>3, LeaveInv, Zenon
  <2>5. pc' = [pc EXCEPT ![t] = "returned"] /\ fn' = [fn EXCEPT ![t] = None]
    BY <1>2, Zenon DEF leave
  <2>6. OwnerInv' BY <1>1, <1>2, <2>1, <2>5, LeaveOpen, Zenon
  <2> QED BY <2>4, <2>6, Zenon
<1>3. CASE /\ leave(t, "error", handleException("HdfsIOException"))
           /\ exc' = [exc EXCEPT ![t] = "HdfsIOException"] /\ UNCHANGED <<file, implRefs>>
  <2>1. OwnerTypes' BY <1>1, <1>3, SameOwnerTypes, Zenon
  <2>2. exc' = [exc EXCEPT ![t] = exc'[t]] /\ exc'[t] \in Errors
    BY <1>3, Zenon DEF TypeOK, ProxyType, Errors, ReflexNames
  <2>3. PICK e : leave(t, "error", e) BY <1>3, Zenon
  <2>4. TypeOK' /\ SameChannels /\ CallInv'
    BY <1>1, <2>1, <2>2, <2>3, LeaveInv, Zenon
  <2>5. pc' = [pc EXCEPT ![t] = "returned"] /\ fn' = [fn EXCEPT ![t] = None]
    BY <1>3, Zenon DEF leave
  <2>6. OwnerInv' BY <1>1, <1>3, <2>5, LeavePlain, Zenon
  <2> QED BY <2>4, <2>6
<1> QED BY <1>2, <1>3, Zenon DEF openStream

LEMMA TakeResultInv ==
    ASSUME IInv, NEW t \in Threads, takeResult(t)
    PROVE  IInv' /\ SameChannels
<1> USE DEF IInv
<1>1. /\ pc[t] = "returned" /\ pc' = [pc EXCEPT ![t] = "idle"]
      /\ method' = [method EXCEPT ![t] = None] /\ path' = [path EXCEPT ![t] = None]
      /\ server' = [server EXCEPT ![t] = 0]
      /\ exc' = [exc EXCEPT ![t] = NoException] /\ name' = [name EXCEPT ![t] = NoException]
      /\ executed' = [executed EXCEPT ![t] = 0] /\ lost' = [lost EXCEPT ![t] = FALSE]
      /\ ret' = [ret EXCEPT ![t] = None] /\ arg' = [arg EXCEPT ![t] = "full"]
      /\ UNCHANGED <<namenodes, currentNamenode, handle, implRefs, file, fn, todo,
                     allChannels, refs>>
  BY Zenon DEF takeResult, SameProxy, rpcVars
<1>2. NoException \in Errors /\ 0 \in Servers BY HdfsClientAssumption, SMTT(30) DEF Errors
<1>3. TypeOK'
  <2>1. executed' \in [Threads -> Nat] /\ lost' \in [Threads -> BOOLEAN]
    BY <1>1, Zenon DEF TypeOK, ProxyType
  <2> QED BY <1>1, <1>2, <2>1, Zenon DEF TypeOK, ProxyType, ApiType
<1>4. /\ pc'[t] = "idle" /\ method'[t] = None /\ executed'[t] = 0 /\ path'[t] = None
      /\ arg'[t] = "full"
  BY <1>1, Zenon DEF TypeOK, ProxyType, ApiType
<1>5. TryInv(t)'
  <2>1. ~(executed'[t] > 0) /\ ~(executed'[t] > 1) BY <1>4, SMTT(30)
  <2> QED BY <1>4, <2>1, Zenon DEF TryInv, InProxy
<1>6. PathInv(t)' BY <1>4, Zenon DEF PathInv, None
<1>7. \A u \in Threads \ {t} : SameCall(u)
  BY <1>1, Zenon DEF SameCall, TypeOK, ProxyType, ApiType
<1>8. SameOwners
  BY <1>1, Zenon DEF SameOwners, TypeOK, ProxyType, InFn, InProxy
<1>9. SameChannels
  BY <1>1, Zenon DEF SameChannels, TypeOK, ProxyType, OnChannel
<1> QED BY <1>3, <1>5, <1>6, <1>7, <1>8, <1>9, OneCallInv, SameOwnersInv

-----------------------------------------------------------------------------
(* The cleaner and the destructor of the RPC client, and the rest.         *)

\* A step that touches no call and no owner.
LEMMA OutsideInv ==
    ASSUME IInv, UNCHANGED <<namenodes, currentNamenode, pc, method, path, server, exc, name,
                             executed, lost>>, UNCHANGED apiVars
    PROVE  IInv'
<1> USE DEF IInv
<1>1. UNCHANGED <<handle, implRefs, file, fn, arg, todo, ret>>
  BY Zenon DEF apiVars
<1>2. TypeOK' BY <1>1, Zenon DEF TypeOK, ProxyType, ApiType
<1>3. OwnerInv' BY <1>1, Zenon DEF OwnerInv
<1>4. CallInv'
  <2>1. \A u \in Threads : SameCall(u) BY <1>1, Zenon DEF SameCall
  <2> QED BY <2>1, SameCallInv, Zenon DEF CallInv
<1> QED BY <1>2, <1>3, <1>4, Zenon

LEMMA BackgroundInv ==
    ASSUME IInv, background
    PROVE  IInv' /\ DropsIdle
<1>1. /\ UNCHANGED <<namenodes, currentNamenode, pc, method, path, server, exc, name, executed, lost>>
      /\ UNCHANGED apiVars
  BY Zenon DEF background, nnVars
<1>2. /\ allChannels' \subseteq allChannels /\ refs' = refs
      /\ \A s \in allChannels \ allChannels' : refs[s] = 0
  <2>1. CASE cleanRound
    <3>1. refs' = refs BY <2>1, Zenon DEF cleanRound
    <3>2. CASE allChannels' = allChannels BY <3>1, <3>2, Zenon
    <3>3. CASE \E idle \in SUBSET IdleChannels : allChannels' = allChannels \ idle
      BY <3>1, <3>3, Zenon DEF IdleChannels
    <3> QED BY <2>1, <3>2, <3>3, Zenon DEF cleanRound
  <2>2. CASE cleanEnd BY <2>2, Zenon DEF cleanEnd
  <2>3. CASE destroyBegin BY <2>3, Zenon DEF destroyBegin
  <2>4. CASE destroyJoin BY <2>4, Zenon DEF destroyJoin
  <2>5. CASE destroyDrained BY <2>5, Zenon DEF destroyDrained
  <2> QED BY <2>1, <2>2, <2>3, <2>4, <2>5, Zenon DEF background
<1> QED BY <1>1, <1>2, OutsideInv, Zenon DEF DropsIdle

LEMMA ThreadStepInv ==
    ASSUME IInv, NEW t \in Threads, threadStep(t)
    PROVE  IInv' /\ ChannelStep
<1>1. CASE proxyStep(t) /\ UNCHANGED <<apiVars, listVars>>
  BY <1>1, GetActiveNamenodeInv, TakeChannelInv, RpcInvokeInv, GiveChannelBackInv, RetryLoopInv,
     FailoverInv, Zenon DEF proxyStep, ChannelStep
<1>2. CASE nextCall(t) BY <1>2, NextCallInv, Zenon DEF ChannelStep
<1>3. CASE createInstead(t) BY <1>3, CreateInsteadInv, SMTT(30) DEF ChannelStep
<1>4. CASE failFunction(t) BY <1>4, FailFunctionInv DEF ChannelStep
<1>5. CASE listPage(t) BY <1>5, ListPageInv DEF ChannelStep
<1>6. CASE finishFunction(t) BY <1>6, FinishFunctionInv DEF ChannelStep
<1>7. CASE openStream(t) BY <1>7, OpenStreamInv DEF ChannelStep
<1>8. CASE takeResult(t) BY <1>8, TakeResultInv DEF ChannelStep
<1> QED BY <1>1, <1>2, <1>3, <1>4, <1>5, <1>6, <1>7, <1>8, Zenon DEF threadStep

LEMMA InitInv == Init => IInv
<1> SUFFICES ASSUME Init PROVE IInv BY Zenon
<1>0. NoException = None BY Zenon DEF NoException, None
<1>1. /\ namenodes = 0 /\ currentNamenode = 0 /\ handle = None /\ implRefs = {}
      /\ pc = [t \in Threads |-> "idle"] /\ method = [t \in Threads |-> None]
      /\ server = [t \in Threads |-> 0] /\ exc = [t \in Threads |-> NoException]
      /\ name = [t \in Threads |-> NoException] /\ executed = [t \in Threads |-> 0]
      /\ lost = [t \in Threads |-> FALSE] /\ path = [t \in Threads |-> None]
      /\ file = [t \in Threads |-> None] /\ fn = [t \in Threads |-> None]
      /\ arg = [t \in Threads |-> "full"] /\ DOMAIN todo = Threads /\ DOMAIN ret = Threads
  BY <1>0, Zenon DEF Init, NNInit
<1>2. ProxyType
  <2>1. NoException \in Errors /\ 0 \in Servers BY HdfsClientAssumption DEF Errors
  <2>2. executed \in [Threads -> Nat] /\ lost \in [Threads -> BOOLEAN] BY <1>1, Zenon
  <2> QED BY <1>1, <2>1, <2>2 DEF ProxyType
<1>3. ApiType BY <1>1, Zenon DEF ApiType
<1>4. OwnerInv
  <2>1. None \notin FileFunctions /\ None # "hdfsConnect" /\ None # "connecting"
    BY FunctionNames, Zenon DEF None
  <2> QED BY <1>1, <2>1, Zenon DEF OwnerInv, InFn, InProxy
<1>5. CallInv
  <2> SUFFICES ASSUME NEW t \in Threads PROVE TryInv(t) /\ PathInv(t) BY Zenon DEF CallInv
  <2>1. /\ pc[t] = "idle" /\ method[t] = None /\ ~(executed[t] > 0) /\ ~(executed[t] > 1)
        /\ path[t] = None /\ arg[t] = "full"
    BY <1>1, SMTT(30)
  <2>2. TryInv(t) BY <2>1, Zenon DEF TryInv, InProxy
  <2>3. PathInv(t) BY <2>1, Zenon DEF PathInv, None
  <2> QED BY <2>2, <2>3, Zenon
<1> QED BY <1>2, <1>3, <1>4, <1>5, Zenon DEF IInv, TypeOK

LEMMA NextInv == IInv /\ [Next]_vars => IInv' /\ ChannelStep
<1> SUFFICES ASSUME IInv, [Next]_vars PROVE IInv' /\ ChannelStep BY Zenon
<1>1. ASSUME NEW t \in Threads, call(t) PROVE IInv' /\ ChannelStep
  BY <1>1, CallStepInv, Zenon DEF ChannelStep
<1>2. ASSUME NEW t \in Threads, threadStep(t) PROVE IInv' /\ ChannelStep
  BY <1>2, ThreadStepInv, Zenon
<1>3. CASE switchActive /\ UNCHANGED <<apiVars, listVars>>
  BY <1>3, OutsideInv, Zenon DEF switchActive, rpcVars, ChannelStep, SameChannels
<1>4. CASE background BY <1>4, BackgroundInv, Zenon DEF ChannelStep
<1>5. CASE changeDirectory
  BY <1>5, OutsideInv, Zenon DEF changeDirectory, rpcVars, nnVars, ChannelStep, SameChannels
<1>6. CASE UNCHANGED vars
  BY <1>6, OutsideInv, Zenon DEF vars, rpcVars, nnVars, ChannelStep, SameChannels
<1> QED BY <1>1, <1>2, <1>3, <1>4, <1>5, <1>6, Zenon DEF Next

-----------------------------------------------------------------------------
(* The theorems.                                                           *)

\* Every state of the client keeps the invariant: what a call uses is owned by somebody who
\* stays (Hdfs.cpp, FileSystem.cpp), and only a try that took effect ends a call without an
\* exception (NamenodeProxy.cpp).
THEOREM ClientInvariant == Spec => []IInv
<1>1. Init => IInv BY InitInv, Zenon
<1>2. IInv /\ [Next]_vars => IInv' BY NextInv, Zenon
<1> QED BY <1>1, <1>2, PTL DEF Spec

\* A function that reports success has taken effect; a call took effect twice only after a
\* try that timed out, which is the one the retry loop of the proxy cannot tell from one
\* that never arrived; and only create and append pass a relative path on.
THEOREM ExactlyOnce == Spec => []SuccessIsExactlyOnce
<1>1. IInv => SuccessIsExactlyOnce
  <2> SUFFICES ASSUME IInv, NEW t \in Threads
               PROVE  /\ (Returned(t) /\ ret[t] = "ok" /\ method[t] # None) => executed[t] >= 1
                      /\ (executed[t] > 1 /\ ~Methods[method[t]].idempotent) => lost[t]
                      /\ path[t] = "relative" => method[t] \in {"create", "append"}
    BY Zenon DEF SuccessIsExactlyOnce
  <2>1. TryInv(t) /\ PathInv(t) BY Zenon DEF IInv, CallInv
  <2>2. executed[t] \in Nat BY Zenon DEF IInv, TypeOK, ProxyType
  <2>3. (Returned(t) /\ ret[t] = "ok" /\ method[t] # None) => executed[t] >= 1
    <3>1. (Returned(t) /\ ret[t] = "ok" /\ method[t] # None) => executed[t] > 0
      BY <2>1, Zenon DEF TryInv, Returned
    <3> QED BY <2>2, <3>1
  <2>4. executed[t] > 1 => lost[t] BY <2>1, Zenon DEF TryInv
  <2>5. path[t] = "relative" => method[t] \in {"create", "append"}
    BY <2>1, Zenon DEF PathInv
  <2> QED BY <2>3, <2>4, <2>5, Zenon
<1> QED BY <1>1, ClientInvariant, PTL

-----------------------------------------------------------------------------
(* The failover: the steps outside of the proxy.                           *)

\* A step that neither tries a call nor disturbs one.  The handle is connected only at the
\* end of an hdfsConnect that went well.
Aside(t) ==
    /\ UNCHANGED <<active, faults, switches, currentNamenode, enableNamenodeHA>>
    /\ namenodes' \in {0, namenodes}
    /\ \A u \in Threads \ {t} : SameTry(u)
    /\ pc[t] \notin Trying \cup {"active"} /\ pc'[t] \notin Trying
    /\ pc'[t] = "active" => count'[t] = 0
    /\ pc'[t] = "idle" => exc'[t] = NoException
    /\ pc'[t] = "function" => fn'[t] # "hdfsConnect" /\ exc'[t] = NoException
    /\ handle' = "connecting" => handle = "connecting"
    /\ handle = "connecting" /\ handle' # "connecting" /\ namenodes' # 0 =>
          pc[t] = "function" /\ fn[t] = "hdfsConnect" /\ todo[t] = <<>> /\ exc[t] = NoException

LEMMA AsideInv ==
    ASSUME IInv, FailoverInvariant, NEW t \in Threads, Aside(t), FailoverType'
    PROVE  FailoverInvariant'
<1>1. /\ active' = active /\ faults' = faults /\ switches' = switches
      /\ currentNamenode' = currentNamenode /\ enableNamenodeHA' = enableNamenodeHA
      /\ namenodes' = 0 \/ namenodes' = namenodes
      /\ handle' = "connecting" => handle = "connecting"
  BY Zenon DEF Aside
<1>2. \A u \in Threads \ {t} : SameTry(u) BY Zenon DEF Aside
<1>3. \A u \in Threads \ {t} : /\ Doubt(u)' <=> Doubt(u)
                               /\ Wrong(u)' <=> Wrong(u)
                               /\ AtActive(u)' <=> AtActive(u)
  BY <1>1, <1>2, SameTryKept, Zenon
<1>4. ~Doubt(t)' /\ ~Wrong(t)'
  BY Zenon DEF Aside, Doubt, Wrong, Trying
<1>5. NobodyWrong => NobodyWrong'
  BY <1>3, <1>4, Zenon DEF NobodyWrong
<1>6. LookupInv'
  <2>1. LookupInv BY Zenon DEF FailoverInvariant
  <2>2. namenodes' # 0 => (enableNamenodeHA' <=> namenodes' = 2)
    BY <1>1, <2>1, Zenon DEF LookupInv
  <2>3. ASSUME NEW u \in Threads, u # t
        PROVE  /\ pc'[u] \in Trying /\ namenodes' = 2 => server'[u] = oldValue'[u]
               /\ pc'[u] \in Trying /\ handle' = "connecting" => oldValue'[u] = currentNamenode'
               /\ pc'[u] = "idle" => exc'[u] = NoException
    <3>1. SameTry(u) BY <1>2, <2>3, Zenon
    <3>2. namenodes' = 2 => namenodes = 2 BY <1>1
    <3> QED BY <1>1, <2>1, <3>1, <3>2, Zenon DEF LookupInv, SameTry
  <2>4. pc'[t] \notin Trying /\ (pc'[t] = "idle" => exc'[t] = NoException)
    BY Zenon DEF Aside
  <2> QED BY <2>2, <2>3, <2>4, Zenon DEF LookupInv
<1>7. ASSUME FewDisturbances' PROVE Settled'
  <2>1. namenodes' = namenodes /\ namenodes' # 0 BY <1>1, <1>7 DEF FewDisturbances
  <2>2. FewDisturbances BY <1>1, <1>7, <2>1, Zenon DEF FewDisturbances
  <2>3. Settled BY <2>2, Zenon DEF FailoverInvariant
  <2>4. ASSUME Quiet' PROVE QuietInv'
    <3>1. Quiet BY <1>1, <2>4, Zenon DEF Quiet
    <3>2. QuietInv BY <2>3, <3>1, Zenon DEF Settled
    <3>3. NobodyWrong' BY <1>5, <3>2, Zenon DEF QuietInv
    <3>4. ASSUME handle' # "connecting"
          PROVE  /\ currentNamenode' = active'
                 /\ \A u \in Threads : pc'[u] \in Trying => AtActive(u)'
      <4>1. pc'[t] \notin Trying BY Zenon DEF Aside
      <4>2. CASE handle # "connecting"
        BY <1>1, <1>2, <1>3, <3>2, <4>1, <4>2, Zenon DEF QuietInv, SameTry
      <4>3. CASE handle = "connecting"
        <5>1. pc[t] = "function" /\ fn[t] = "hdfsConnect" /\ todo[t] = <<>> /\ exc[t] = NoException
          BY <2>1, <3>4, <4>3, Zenon DEF Aside
        <5>2. currentNamenode' = active' BY <1>1, <3>2, <5>1, Zenon DEF QuietInv
        <5>3. pc[t] \in InFn BY <5>1, Zenon DEF InFn
        <5>4. \A u \in Threads \ {t} : pc[u] \notin InFn BY <4>3, <5>3, Alone, Zenon
        <5>5. \A u \in Threads : pc'[u] \notin Trying
          BY <1>2, <4>1, <5>4, TryingInFn, Zenon DEF SameTry
        <5> QED BY <5>2, <5>5, Zenon
      <4> QED BY <4>2, <4>3, Zenon
    <3>5. ASSUME NEW u \in Threads
          PROVE  /\ pc'[u] \in {"release", "decide"} /\ exc'[u] = NoException
                       => oldValue'[u] = active'
                 /\ (/\ pc'[u] = "function" /\ fn'[u] = "hdfsConnect" /\ todo'[u] = <<>>
                     /\ exc'[u] = NoException) => currentNamenode' = active'
      <4>1. CASE u # t
        <5>1. SameTry(u) BY <1>2, <4>1, Zenon
        <5> QED BY <1>1, <3>2, <5>1, Zenon DEF QuietInv, SameTry
      <4>2. CASE u = t
        BY <4>2, Zenon DEF Aside, Trying
      <4> QED BY <4>1, <4>2, Zenon
    <3> QED BY <3>3, <3>4, <3>5, Zenon DEF QuietInv
  <2>5. WrongInv'
    <3> SUFFICES ASSUME NEW x \in Threads, Wrong(x)'
                 PROVE  /\ ~calm'[x] /\ currentNamenode' = active'
                        /\ \A u \in Threads \ {x} : pc'[u] \in Trying => AtActive(u)'
      BY Zenon DEF WrongInv
    <3>1. x # t /\ Wrong(x) BY <1>3, <1>4, Zenon
    <3>2. ~calm[x] /\ currentNamenode = active
      BY <2>3, <3>1, Zenon DEF Settled, WrongInv
    <3>3. \A u \in Threads \ {x} : pc[u] \in Trying => AtActive(u)
      BY <2>3, <3>1, Zenon DEF Settled, WrongInv
    <3>4. ~calm'[x] /\ currentNamenode' = active'
      BY <1>1, <1>2, <3>1, <3>2, Zenon DEF SameTry
    <3>5. ASSUME NEW u \in Threads \ {x}, pc'[u] \in Trying PROVE AtActive(u)'
      <4>1. u # t BY <3>5, Zenon DEF Aside
      <4> QED BY <1>2, <1>3, <3>3, <3>5, <4>1, Zenon DEF SameTry
    <3> QED BY <3>4, <3>5, Zenon
  <2>6. CalmInv'
    <3> SUFFICES ASSUME NEW u \in Threads, calm'[u]
                 PROVE  /\ count'[u] # 0 /\ pc'[u] \in Trying \cup {"active"} => NobodyWrong'
                        /\ count'[u] # 0 /\ pc'[u] = "active" => currentNamenode' = active'
                        /\ count'[u] # 0 /\ pc'[u] \in Trying /\ pc'[u] # "failover" => AtActive(u)'
                        /\ pc'[u] = "function" => exc'[u] # "NameNodeStandbyException"
      BY Zenon DEF CalmInv
    <3>1. CASE u # t
      <4>1. SameTry(u) BY <1>2, <3>1, Zenon
      <4> QED BY <1>1, <1>3, <1>5, <2>3, <3>1, <4>1, Zenon DEF Settled, CalmInv, SameTry
    <3>2. CASE u = t
      <4>1. NoException # "NameNodeStandbyException" BY Zenon DEF NoException
      <4> QED BY <3>2, <4>1, Zenon DEF Aside
    <3> QED BY <3>1, <3>2, Zenon
  <2> QED BY <2>4, <2>5, <2>6, Zenon DEF Settled
<1> QED BY <1>6, <1>7, Zenon DEF FailoverInvariant

\* A function is entered.
LEMMA EnterFailover ==
    ASSUME IInv, FailoverInvariant, NEW t \in Threads, pc[t] = "idle", NEW f, f # "hdfsConnect",
           NEW form, NEW calls, enter(t, f, form, calls), SameProxy, handle' = handle
    PROVE  FailoverInvariant'
<1> USE DEF IInv
<1>1. /\ pc' = [pc EXCEPT ![t] = "function"] /\ fn' = [fn EXCEPT ![t] = f]
      /\ todo' = [todo EXCEPT ![t] = calls]
      /\ UNCHANGED <<namenodes, enableNamenodeHA, currentNamenode, count, oldValue, server, exc,
                     active, calm, faults, switches>>
  BY Zenon DEF enter, SameProxy, budget
<1>2. FailoverType /\ LookupInv BY Zenon DEF FailoverInvariant
<1>3. FailoverType' BY <1>1, <1>2, Zenon DEF FailoverType
<1>4. \A u \in Threads \ {t} : SameTry(u)
  BY <1>1, Zenon DEF SameTry, TypeOK, ProxyType, ApiType
<1>5. pc'[t] = "function" /\ fn'[t] = f /\ exc'[t] = NoException
  BY <1>1, <1>2, Zenon DEF TypeOK, ProxyType, ApiType, LookupInv
<1>6. Aside(t) BY <1>1, <1>4, <1>5, Zenon DEF Aside, Trying
<1> QED BY <1>3, <1>6, AsideInv, Zenon

LEMMA LeaveAtOnceFailover ==
    ASSUME IInv, FailoverInvariant, NEW t \in Threads, pc[t] = "idle", NEW e, leaveAtOnce(t, e)
    PROVE  FailoverInvariant'
<1> USE DEF IInv
<1>1. /\ pc' = [pc EXCEPT ![t] = "returned"]
      /\ UNCHANGED <<namenodes, enableNamenodeHA, currentNamenode, count, oldValue, server, exc,
                     active, calm, faults, switches, handle, fn, todo>>
  BY Zenon DEF leaveAtOnce, budget
<1>2. FailoverType' BY <1>1, Zenon DEF FailoverInvariant, FailoverType
<1>3. \A u \in Threads \ {t} : SameTry(u)
  BY <1>1, Zenon DEF SameTry, TypeOK, ProxyType
<1>4. pc'[t] = "returned" BY <1>1, Zenon DEF TypeOK, ProxyType
<1>5. Aside(t) BY <1>1, <1>3, <1>4, Zenon DEF Aside, Trying
<1> QED BY <1>2, <1>5, AsideInv, Zenon

\* A function is left.
LEMMA LeaveFailover ==
    ASSUME IInv, FailoverInvariant, NEW t \in Threads, pc[t] = "function",
           NEW r, NEW e, leave(t, r, e), exc' = [exc EXCEPT ![t] = exc'[t]],
           UNCHANGED <<currentNamenode, enableNamenodeHA>>, namenodes' \in {0, namenodes},
           handle' = "connecting" => handle = "connecting",
           handle = "connecting" /\ handle' # "connecting" /\ namenodes' # 0 =>
               fn[t] = "hdfsConnect" /\ todo[t] = <<>> /\ exc[t] = NoException
    PROVE  FailoverInvariant'
<1> USE DEF IInv
<1>1. /\ pc' = [pc EXCEPT ![t] = "returned"] /\ fn' = [fn EXCEPT ![t] = None]
      /\ todo' = [todo EXCEPT ![t] = <<>>]
      /\ UNCHANGED <<count, oldValue, server, active, calm, faults, switches>>
  BY Zenon DEF leave
<1>2. FailoverType' BY <1>1, Zenon DEF FailoverInvariant, FailoverType
<1>3. \A u \in Threads \ {t} : SameTry(u)
  BY <1>1, Zenon DEF SameTry, TypeOK, ProxyType, ApiType
<1>4. pc'[t] = "returned" BY <1>1, Zenon DEF TypeOK, ProxyType
<1>5. Aside(t) BY <1>1, <1>3, <1>4, Zenon DEF Aside, Trying
<1> QED BY <1>2, <1>5, AsideInv, Zenon

LEMMA CallConnectFailover ==
    ASSUME IInv, FailoverInvariant, NEW t \in Threads, pc[t] = "idle", callConnect(t)
    PROVE  FailoverInvariant'
<1> USE DEF IInv
<1>1. /\ handle = None /\ implRefs = {} /\ handle' = "connecting"
      /\ \E n \in {1, 2} : namenodes' = n /\ enableNamenodeHA' = (n > 1)
      /\ currentNamenode' = 0
      /\ pc' = [pc EXCEPT ![t] = "function"] /\ todo' = [todo EXCEPT ![t] = <<"getFsStats">>]
      /\ UNCHANGED <<count, oldValue, server, exc, active, calm, faults, switches>>
  BY Zenon DEF callConnect, enter, budget
<1>2. FailoverType /\ LookupInv BY Zenon DEF FailoverInvariant
<1>3. FailoverType'
  <2>1. currentNamenode' \in 0..1 BY <1>1
  <2> QED BY <1>1, <1>2, <2>1, Zenon DEF FailoverType
<1>4. namenodes' # 0 => (enableNamenodeHA' <=> namenodes' = 2)
  <2>1. PICK n \in {1, 2} : namenodes' = n /\ enableNamenodeHA' = (n > 1) BY <1>1, Zenon
  <2>2. (n > 1) <=> n = 2 BY <2>1
  <2> QED BY <2>1, <2>2, Zenon
<1>5. /\ pc'[t] = "function" /\ todo'[t] # <<>> /\ exc'[t] = NoException
  <2>1. pc'[t] = "function" /\ todo'[t] = <<"getFsStats">> /\ exc'[t] = NoException
    BY <1>1, <1>2, Zenon DEF TypeOK, ProxyType, ApiType, LookupInv
  <2> QED BY <2>1
<1>6. ASSUME NEW u \in Threads, u # t PROVE pc'[u] \notin InFn /\ pc'[u] = pc[u]
  <2>1. fn[u] = None BY <1>1, Zenon DEF OwnerInv
  <2>2. pc[u] \notin InFn BY <2>1, Zenon DEF OwnerInv
  <2>3. pc'[u] = pc[u] BY <1>1, <1>6, Zenon DEF TypeOK, ProxyType
  <2> QED BY <2>2, <2>3, Zenon
<1>7. \A u \in Threads : pc'[u] \notin Trying \cup {"active"}
  BY <1>5, <1>6, Zenon DEF InFn, InProxy, Trying
<1>8. \A u \in Threads \ {t} : pc'[u] # "function"
  BY <1>6, Zenon DEF InFn
<1>9. LookupInv'
  <2>1. \A u \in Threads : pc'[u] = "idle" => exc'[u] = NoException
    BY <1>1, <1>2, <1>5, <1>6, Zenon DEF LookupInv
  <2> QED BY <1>4, <1>7, <2>1, Zenon DEF LookupInv
<1>10. \A x \in Threads : ~Wrong(x)' BY <1>7, Zenon DEF Wrong, Doubt, Trying
<1>11. QuietInv'
  <2>1. NobodyWrong' BY <1>10, Zenon DEF NobodyWrong
  <2>2. \A u \in Threads : pc'[u] \notin {"release", "decide"} BY <1>7, Zenon DEF Trying
  <2>3. \A u \in Threads : pc'[u] = "function" => todo'[u] # <<>> BY <1>5, <1>8, Zenon
  <2> QED BY <1>1, <2>1, <2>2, <2>3, Zenon DEF QuietInv
<1>12. WrongInv' BY <1>10, Zenon DEF WrongInv
<1>13. CalmInv'
  <2>1. \A u \in Threads : pc'[u] = "function" => exc'[u] # "NameNodeStandbyException"
    BY <1>5, <1>8, Zenon DEF NoException
  <2> QED BY <1>7, <2>1, Zenon DEF CalmInv
<1> QED BY <1>3, <1>9, <1>11, <1>12, <1>13, Zenon DEF FailoverInvariant, Settled

LEMMA CallDisconnectFailover ==
    ASSUME IInv, FailoverInvariant, NEW t \in Threads, pc[t] = "idle", callDisconnect(t)
    PROVE  FailoverInvariant'
<1> USE DEF IInv
<1>1. /\ handle = "connected" /\ handle' = None /\ dropRef("handle")
      /\ pc' = [pc EXCEPT ![t] = "returned"]
      /\ UNCHANGED <<count, oldValue, server, exc, active, calm, faults, switches, fn, todo>>
  BY Zenon DEF callDisconnect, budget
<1>2. namenodes' \in {0, namenodes} /\ UNCHANGED <<enableNamenodeHA, currentNamenode>>
  BY <1>1, Zenon DEF dropRef
<1>3. FailoverType' BY <1>1, <1>2, Zenon DEF FailoverInvariant, FailoverType
<1>4. \A u \in Threads \ {t} : SameTry(u)
  BY <1>1, Zenon DEF SameTry, TypeOK, ProxyType
<1>5. pc'[t] = "returned" BY <1>1, Zenon DEF TypeOK, ProxyType
<1>6. handle # "connecting" /\ handle' # "connecting" BY <1>1, Zenon DEF None
<1>7. Aside(t) BY <1>1, <1>2, <1>4, <1>5, <1>6, Zenon DEF Aside, Trying
<1> QED BY <1>3, <1>7, AsideInv, Zenon

LEMMA CallFailover ==
    ASSUME IInv, FailoverInvariant, NEW t \in Threads, call(t)
    PROVE  FailoverInvariant'
<1>0. pc[t] = "idle" BY Zenon DEF call
<1>1. CASE callConnect(t) BY <1>0, <1>1, CallConnectFailover, Zenon
<1>2. CASE callFunction(t)
  <2>1. PICK f \in DOMAIN CFunctions : \E form : enter(t, f, form, <<CFunctions[f].op>>)
    BY <1>2, Zenon DEF callFunction
  <2>2. f # "hdfsConnect" BY FunctionNames, Zenon
  <2>3. SameProxy /\ handle' = handle BY <1>2, Zenon DEF callFunction
  <2> QED BY <1>0, <2>1, <2>2, <2>3, EnterFailover, Zenon
<1>3. CASE callLocal(t) BY <1>0, <1>3, LeaveAtOnceFailover, Zenon DEF callLocal
<1>4. CASE callOpen(t)
  <2>1. PICK f \in DOMAIN OpenFunctions \cup {"openRead"} : \E form, calls : enter(t, f, form, calls)
    BY <1>4, Zenon DEF callOpen
  <2>2. f # "hdfsConnect" BY FunctionNames, Zenon
  <2>3. SameProxy /\ handle' = handle BY <1>4, Zenon DEF callOpen
  <2> QED BY <1>0, <2>1, <2>2, <2>3, EnterFailover, Zenon
<1>5. CASE callOpenRefused(t) BY <1>0, <1>5, LeaveAtOnceFailover, Zenon DEF callOpenRefused
<1>6. CASE callStream(t)
  <2>1. PICK f \in DOMAIN CStreamFunctions : \E calls : enter(t, f, "full", calls)
    BY <1>6, Zenon DEF callStream
  <2>2. f # "hdfsConnect" BY FunctionNames, Zenon DEF FileFunctions
  <2>3. SameProxy /\ handle' = handle BY <1>6, Zenon DEF callStream
  <2> QED BY <1>0, <2>1, <2>2, <2>3, EnterFailover, Zenon
<1>7. CASE callStreamRefused(t) BY <1>0, <1>7, LeaveAtOnceFailover, Zenon DEF callStreamRefused
<1>8. CASE callClose(t)
  <2>1. PICK calls : enter(t, "hdfsCloseFile", "full", calls) BY <1>8, Zenon DEF callClose
  <2>2. "hdfsCloseFile" # "hdfsConnect" BY Zenon
  <2>3. SameProxy /\ handle' = handle BY <1>8, Zenon DEF callClose
  <2> QED BY <1>0, <2>1, <2>2, <2>3, EnterFailover, Zenon
<1>9. CASE callList(t)
  <2>1. PICK f \in ListFunctions : enter(t, f, "full", <<"listDirectory">>)
    BY <1>9, Zenon DEF callList
  <2>2. f # "hdfsConnect" BY FunctionNames, Zenon
  <2>3. SameProxy /\ handle' = handle BY <1>9, Zenon DEF callList
  <2> QED BY <1>0, <2>1, <2>2, <2>3, EnterFailover, Zenon
<1>10. CASE callDisconnect(t) BY <1>0, <1>10, CallDisconnectFailover, Zenon
<1> QED BY <1>1, <1>2, <1>3, <1>4, <1>5, <1>6, <1>7, <1>8, <1>9, <1>10, Zenon DEF call

LEMMA NextCallFailover ==
    ASSUME IInv, FailoverInvariant, NEW t \in Threads, nextCall(t)
    PROVE  FailoverInvariant'
<1> USE DEF IInv
<1>1. /\ pc[t] = "function" /\ pc' = [pc EXCEPT ![t] = "active"]
      /\ todo' = [todo EXCEPT ![t] = Tail(todo[t])]
      /\ count' = [count EXCEPT ![t] = 0] /\ exc' = [exc EXCEPT ![t] = NoException]
      /\ calm' = [calm EXCEPT ![t] = TRUE]
      /\ UNCHANGED <<namenodes, enableNamenodeHA, currentNamenode, oldValue, server, active, faults,
                     switches, handle, fn>>
  BY Zenon DEF nextCall, InFunction, proxyCall, budget
<1>2. FailoverType BY Zenon DEF FailoverInvariant
<1>3. FailoverType'
  <2>1. count' \in [Threads -> Nat] BY <1>1, <1>2 DEF FailoverType
  <2>2. calm' \in [Threads -> BOOLEAN] BY <1>1, <1>2, Zenon DEF FailoverType
  <2> QED BY <1>1, <1>2, <2>1, <2>2, Zenon DEF FailoverType
<1>4. \A u \in Threads \ {t} : SameTry(u)
  BY <1>1, <1>2, Zenon DEF SameTry, TypeOK, ProxyType, ApiType, FailoverType
<1>5. pc'[t] = "active" /\ count'[t] = 0
  BY <1>1, <1>2, Zenon DEF TypeOK, ProxyType, FailoverType
<1>6. Aside(t) BY <1>1, <1>4, <1>5, Zenon DEF Aside, Trying
<1> QED BY <1>3, <1>6, AsideInv, Zenon

\* A function that goes on with another call than it was going to make.
LEMMA StayFailover ==
    ASSUME IInv, FailoverInvariant, NEW t \in Threads, pc[t] = "function", fn[t] # "hdfsConnect",
           NEW calls, todo' = [todo EXCEPT ![t] = calls],
           exc' = [exc EXCEPT ![t] = NoException],
           UNCHANGED <<namenodes, enableNamenodeHA, currentNamenode, pc, count, oldValue, server,
                       active, calm, faults, switches, handle, fn>>
    PROVE  FailoverInvariant'
<1> USE DEF IInv
<1>1. FailoverType' BY Zenon DEF FailoverInvariant, FailoverType
<1>2. \A u \in Threads \ {t} : SameTry(u)
  BY Zenon DEF SameTry, TypeOK, ProxyType, ApiType
<1>3. exc'[t] = NoException BY Zenon DEF TypeOK, ProxyType
<1>4. Aside(t) BY <1>2, <1>3, Zenon DEF Aside, Trying
<1> QED BY <1>1, <1>4, AsideInv, Zenon

LEMMA FailFunctionFailover ==
    ASSUME IInv, FailoverInvariant, NEW t \in Threads, failFunction(t)
    PROVE  FailoverInvariant'
<1> USE DEF IInv
<1>1. pc[t] = "function" /\ exc' = exc BY Zenon DEF failFunction, InFunction
<1>2. PICK r, e : leave(t, r, e) BY Zenon DEF failFunction
<1>3. exc' = [exc EXCEPT ![t] = exc'[t]] BY <1>1, Zenon DEF TypeOK, ProxyType
<1>4. \/ fn[t] = "hdfsConnect" /\ handle' = None /\ dropRef("handle") /\ file' = file
      \/ fn[t] = "hdfsCloseFile" /\ dropRef(t) /\ handle' = handle
      \/ SameProxy /\ handle' = handle
  BY Zenon DEF failFunction
<1>5. /\ UNCHANGED <<currentNamenode, enableNamenodeHA>> /\ namenodes' \in {0, namenodes}
      /\ handle' = "connecting" => handle = "connecting"
  BY <1>4, Zenon DEF dropRef, SameProxy, None
<1>6. ASSUME handle = "connecting", handle' # "connecting" PROVE namenodes' = 0
  <2>1. dropRef("handle") BY <1>4, <1>6, Zenon
  <2>2. \A u \in Threads : u \notin implRefs BY <1>6, Zenon DEF OwnerInv
  <2>3. implRefs \ {"handle"} = {} BY <2>2, Zenon DEF TypeOK, ApiType
  <2> QED BY <2>1, <2>3, Zenon DEF dropRef
<1> QED BY <1>1, <1>2, <1>3, <1>5, <1>6, LeaveFailover, Zenon

LEMMA ListPageFailover ==
    ASSUME IInv, FailoverInvariant, NEW t \in Threads, listPage(t)
    PROVE  FailoverInvariant'
<1> USE DEF IInv
<1>1. /\ pc[t] = "function" /\ exc[t] = NoException /\ exc' = exc /\ fn[t] \in ListFunctions
      /\ UNCHANGED <<namenodes, enableNamenodeHA, currentNamenode, handle>>
  BY Zenon DEF listPage, AllCallsDone, InFunction, SameProxy
<1>2. exc' = [exc EXCEPT ![t] = exc'[t]] /\ exc' = [exc EXCEPT ![t] = NoException]
  BY <1>1, Zenon DEF TypeOK, ProxyType
<1>3. fn[t] # "hdfsConnect" BY <1>1, FunctionNames, Zenon
<1>4. CASE leave(t, "ok", None)
  BY <1>1, <1>2, <1>4, LeaveFailover, Zenon
<1>5. CASE /\ todo' = [todo EXCEPT ![t] = <<"listDirectory">>]
           /\ UNCHANGED <<count, oldValue, server, active, calm, faults, switches, fn, pc>>
  BY <1>1, <1>2, <1>3, <1>5, StayFailover, Zenon
<1> QED BY <1>4, <1>5, Zenon DEF listPage

LEMMA FinishFunctionFailover ==
    ASSUME IInv, FailoverInvariant, NEW t \in Threads, finishFunction(t)
    PROVE  FailoverInvariant'
<1> USE DEF IInv
<1>1. pc[t] = "function" /\ exc[t] = NoException /\ todo[t] = <<>> /\ exc' = exc
  BY Zenon DEF finishFunction, AllCallsDone, InFunction
<1>2. PICK r : leave(t, r, None) BY Zenon DEF finishFunction
<1>3. exc' = [exc EXCEPT ![t] = exc'[t]] BY <1>1, Zenon DEF TypeOK, ProxyType
<1>4. \/ fn[t] = "hdfsConnect" /\ handle' = "connected" /\ SameProxy
      \/ dropRef(t) /\ handle' = handle
      \/ SameProxy /\ handle' = handle
  BY Zenon DEF finishFunction
<1>5. /\ UNCHANGED <<currentNamenode, enableNamenodeHA>> /\ namenodes' \in {0, namenodes}
      /\ handle' = "connecting" => handle = "connecting"
      /\ handle = "connecting" /\ handle' # "connecting" => fn[t] = "hdfsConnect"
  BY <1>4, Zenon DEF dropRef, SameProxy
<1> QED BY <1>1, <1>2, <1>3, <1>5, LeaveFailover, Zenon

LEMMA OpenStreamFailover ==
    ASSUME IInv, FailoverInvariant, NEW t \in Threads, openStream(t)
    PROVE  FailoverInvariant'
<1> USE DEF IInv
<1>1. /\ pc[t] = "function" /\ UNCHANGED <<namenodes, enableNamenodeHA, currentNamenode, handle>>
  BY Zenon DEF openStream, AllCallsDone, InFunction, SameProxy
<1>2. PICK r, e : leave(t, r, e) BY Zenon DEF openStream
<1>3. exc' = exc \/ exc' = [exc EXCEPT ![t] = "HdfsIOException"] BY Zenon DEF openStream
<1>4. exc' = [exc EXCEPT ![t] = exc'[t]] BY <1>3, Zenon DEF TypeOK, ProxyType
<1> QED BY <1>1, <1>2, <1>4, LeaveFailover, Zenon

LEMMA TakeResultFailover ==
    ASSUME IInv, FailoverInvariant, NEW t \in Threads, takeResult(t)
    PROVE  FailoverInvariant'
<1> USE DEF IInv
<1>1. /\ pc[t] = "returned" /\ pc' = [pc EXCEPT ![t] = "idle"]
      /\ count' = [count EXCEPT ![t] = 0] /\ oldValue' = [oldValue EXCEPT ![t] = 0]
      /\ server' = [server EXCEPT ![t] = 0] /\ exc' = [exc EXCEPT ![t] = NoException]
      /\ calm' = [calm EXCEPT ![t] = TRUE]
      /\ UNCHANGED <<namenodes, enableNamenodeHA, currentNamenode, active, faults, switches, handle,
                     fn, todo>>
  BY Zenon DEF takeResult, SameProxy, budget
<1>2. FailoverType BY Zenon DEF FailoverInvariant
<1>3. FailoverType'
  <2>1. count' \in [Threads -> Nat] /\ oldValue' \in [Threads -> 0..1]
    BY <1>1, <1>2 DEF FailoverType
  <2>2. calm' \in [Threads -> BOOLEAN] BY <1>1, <1>2, Zenon DEF FailoverType
  <2> QED BY <1>1, <1>2, <2>1, <2>2, Zenon DEF FailoverType
<1>4. \A u \in Threads \ {t} : SameTry(u)
  BY <1>1, <1>2, Zenon DEF SameTry, TypeOK, ProxyType, FailoverType
<1>5. pc'[t] = "idle" /\ exc'[t] = NoException BY <1>1, Zenon DEF TypeOK, ProxyType
<1>6. Aside(t) BY <1>1, <1>4, <1>5, Zenon DEF Aside, Trying
<1> QED BY <1>3, <1>6, AsideInv, Zenon

LEMMA ThreadStepFailover ==
    ASSUME IInv, FailoverInvariant, NEW t \in Threads, threadStep(t)
    PROVE  FailoverInvariant'
<1>1. CASE proxyStep(t) /\ UNCHANGED <<apiVars, listVars>>
  BY <1>1, GetActiveNamenodeFailover, TakeChannelFailover, RpcInvokeFailover,
     GiveChannelBackFailover, RetryLoopFailover, FailoverFailover, Zenon DEF proxyStep
<1>2. CASE nextCall(t) BY <1>2, NextCallFailover, Zenon
<1>3. CASE createInstead(t)
  <2>1. /\ pc[t] = "function" /\ fn[t] \in DOMAIN OpenFunctions
        /\ todo' = [todo EXCEPT ![t] = <<"create">>] /\ exc' = [exc EXCEPT ![t] = NoException]
        /\ UNCHANGED <<namenodes, enableNamenodeHA, currentNamenode, pc, count, oldValue, server,
                       active, calm, faults, switches, handle, fn>>
    BY <1>3, Zenon DEF createInstead, InFunction, AppendMissed, SameProxy, budget
  <2>2. fn[t] # "hdfsConnect" BY <2>1, FunctionNames, Zenon
  <2> QED BY <2>1, <2>2, StayFailover, Zenon
<1>4. CASE failFunction(t) BY <1>4, FailFunctionFailover, Zenon
<1>5. CASE listPage(t) BY <1>5, ListPageFailover, Zenon
<1>6. CASE finishFunction(t) BY <1>6, FinishFunctionFailover, Zenon
<1>7. CASE openStream(t) BY <1>7, OpenStreamFailover, Zenon
<1>8. CASE takeResult(t) BY <1>8, TakeResultFailover, Zenon
<1> QED BY <1>1, <1>2, <1>3, <1>4, <1>5, <1>6, <1>7, <1>8, Zenon DEF threadStep

\* A step that touches no call.
LEMMA OutsideFailover ==
    ASSUME FailoverInvariant,
           UNCHANGED <<namenodes, enableNamenodeHA, currentNamenode, pc, count, oldValue, server, exc,
                       active, calm, faults, switches>>,
           UNCHANGED apiVars
    PROVE  FailoverInvariant'
<1>1. UNCHANGED <<handle, fn, todo>> BY Zenon DEF apiVars
<1>2. FailoverType' /\ LookupInv'
  BY <1>1, Zenon DEF FailoverInvariant, FailoverType, LookupInv
<1>3. (FewDisturbances' <=> FewDisturbances) /\ (Quiet' <=> Quiet)
  BY Zenon DEF FewDisturbances, Quiet
<1>4. \A u \in Threads : /\ Wrong(u)' <=> Wrong(u)
                         /\ AtActive(u)' <=> AtActive(u)
  BY Zenon DEF Wrong, AtActive, Doubt
<1>5. NobodyWrong' <=> NobodyWrong BY <1>4, Zenon DEF NobodyWrong
<1>6. QuietInv => QuietInv' BY <1>1, <1>4, <1>5, Zenon DEF QuietInv
<1>7. WrongInv => WrongInv' BY <1>4, Zenon DEF WrongInv
<1>8. CalmInv => CalmInv' BY <1>4, <1>5, Zenon DEF CalmInv
<1> QED BY <1>2, <1>3, <1>6, <1>7, <1>8, Zenon DEF FailoverInvariant, Settled

LEMMA NextFailover == IInv /\ FailoverInvariant /\ [Next]_vars => FailoverInvariant'
<1> SUFFICES ASSUME IInv, FailoverInvariant, [Next]_vars PROVE FailoverInvariant' BY Zenon
<1>1. ASSUME NEW t \in Threads, call(t) PROVE FailoverInvariant' BY <1>1, CallFailover, Zenon
<1>2. ASSUME NEW t \in Threads, threadStep(t) PROVE FailoverInvariant'
  BY <1>2, ThreadStepFailover, Zenon
<1>3. CASE switchActive /\ UNCHANGED <<apiVars, listVars>> BY <1>3, SwitchActiveFailover, Zenon
<1>4. CASE background BY <1>4, OutsideFailover, Zenon DEF background, nnVars
<1>5. CASE changeDirectory BY <1>5, OutsideFailover, Zenon DEF changeDirectory, nnVars
<1>6. CASE UNCHANGED vars BY <1>6, OutsideFailover, Zenon DEF vars, nnVars
<1> QED BY <1>1, <1>2, <1>3, <1>4, <1>5, <1>6, Zenon DEF Next

LEMMA InitFailover == Init => FailoverInvariant
<1> SUFFICES ASSUME Init PROVE FailoverInvariant BY Zenon
<1>1. /\ namenodes = 0 /\ currentNamenode = 0 /\ active \in Servers
      /\ pc = [t \in Threads |-> "idle"] /\ count = [t \in Threads |-> 0]
      /\ oldValue = [t \in Threads |-> 0] /\ calm = [t \in Threads |-> TRUE]
      /\ exc = [t \in Threads |-> NoException] /\ faults = 0 /\ switches = 0
  BY Zenon DEF Init, NNInit
<1>2. FailoverType
  <2>1. /\ currentNamenode \in 0..1 /\ active \in 0..1 /\ faults \in Nat /\ switches \in Nat
        /\ oldValue \in [Threads -> 0..1] /\ count \in [Threads -> Nat]
    BY <1>1, HdfsClientAssumption
  <2>2. calm \in [Threads -> BOOLEAN] BY <1>1, Zenon
  <2> QED BY <2>1, <2>2, Zenon DEF FailoverType
<1>3. LookupInv
  <2>1. \A t \in Threads : pc[t] \notin Trying /\ exc[t] = NoException BY <1>1, Zenon DEF Trying
  <2> QED BY <1>1, <2>1, Zenon DEF LookupInv
<1>4. ~FewDisturbances BY <1>1 DEF FewDisturbances
<1> QED BY <1>2, <1>3, <1>4, Zenon DEF FailoverInvariant

\* The retry loop of the proxy finds the active namenode: a call that no fault and no switch
\* disturbed does not end because a namenode is standby, for any number of threads that move
\* currentNamenode at the same time, after one disturbance at most
\* (getActiveNamenode and failoverToNextNamenode of server/NamenodeProxy.cpp).
THEOREM ActiveIsFound == Spec => []FailoverFindsActive
<1>1. IInv /\ FailoverInvariant => FailoverFindsActive
  <2> SUFFICES ASSUME IInv, FailoverInvariant, NEW t \in Threads, pc[t] = "function",
                      enableNamenodeHA, calm[t], faults + switches <= 1
               PROVE  exc[t] # "NameNodeStandbyException"
    BY Zenon DEF FailoverFindsActive, InFunction
  <2>1. namenodes \in 1..2 BY ProxyOpen, Zenon DEF IInv, InFn
  <2>2. namenodes # 0 BY <2>1
  <2>3. FewDisturbances BY <2>2, Zenon DEF FailoverInvariant, LookupInv, FewDisturbances
  <2> QED BY <2>3, Zenon DEF FailoverInvariant, Settled, CalmInv
<1>2. Init => FailoverInvariant BY InitFailover
<1>3. IInv /\ FailoverInvariant /\ [Next]_vars => FailoverInvariant' BY NextFailover
<1> QED BY <1>1, <1>2, <1>3, ClientInvariant, PTL DEF Spec
=============================================================================
