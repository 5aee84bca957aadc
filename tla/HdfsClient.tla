----------------------------- MODULE HdfsClient -----------------------------
(***************************************************************************)
(* The C interface (client/Hdfs.cpp) over FileSystem (client/              *)
(* FileSystem.cpp), FileSystemImpl (client/FileSystemImpl.cpp) and the     *)
(* namenode proxy: threads of an application connect, call functions on    *)
(* the handle and on open files, and disconnect.                           *)
(*                                                                         *)
(* One FileSystemImpl is modelled at a time.  It is shared by the handle   *)
(* and by every open stream and is destroyed, closing its proxy, when the  *)
(* last of them goes.  Data of streams is the subject of other modules.    *)
(***************************************************************************)
EXTENDS NamenodeProxy

CONSTANTS
    Names, PageSize,      \* names a directory may hold, entries per listing
    MaxChanges            \* bound: changes of the directory

VARIABLES
    handle,               \* the hdfsFS: none, connecting, connected
    implRefs,             \* the owners of the FileSystemImpl
    file,                 \* the open hdfsFile of each thread
    fn, arg, todo,        \* C function a thread is in, form of its path, calls left
    ret, errno,           \* what the last function returned, errno
    dir, changes,         \* the directory that is listed
    items, before, during \* names listed so far, present throughout, present at all

apiVars == <<handle, implRefs, file, fn, arg, todo, ret, errno>>
listVars == <<dir, changes, items, before, during>>
vars == <<rpcVars, nnVars, apiVars, listVars>>

None == "none"

(***************************************************************************)
(* What the layers do for one function.  An operation of FileSystemImpl is *)
(* one call of the proxy and the form in which it passes its path on:      *)
(* standard (getStandardPath), raw (as it got it) or none.                 *)
(***************************************************************************)
Op(m, p) == [method |-> m, path |-> p]

ImplNamespaceOps ==
    [ deletePath |-> Op("deleteFile", "standard"), mkdir |-> Op("mkdirs", "standard"),
      mkdirs |-> Op("mkdirs", "standard"), getFileStatus |-> Op("getFileInfo", "standard") ]
ImplListingOps ==
    [ getFileBlockLocations |-> Op("getBlockLocations", "standard"),
      listDirectory |-> Op("getListing", "standard"),
      listAllDirectoryItems |-> Op("getListing", "standard") ]
ImplAttributeOps ==
    [ setOwner |-> Op("setOwner", "standard"), setTimes |-> Op("setTimes", "standard"),
      setPermission |-> Op("setPermission", "standard"),
      setReplication |-> Op("setReplication", "standard"),
      rename |-> Op("rename", "standard") ]
ImplStatusOps ==
    [ exist |-> Op("getFileInfo", "standard"), getFsStats |-> Op("getFsStats", None),
      truncate |-> Op("truncate", "standard"),
      getDelegationToken |-> Op("getDelegationToken", None),
      renewDelegationToken |-> Op("renewDelegationToken", None),
      cancelDelegationToken |-> Op("cancelDelegationToken", None) ]
ImplStreamOps ==
    [ getBlockLocations |-> Op("getBlockLocations", "raw"), create |-> Op("create", "raw"),
      append |-> Op("append", "raw"), abandonBlock |-> Op("abandonBlock", "raw"),
      addBlock |-> Op("addBlock", "raw"),
      getAdditionalDatanode |-> Op("getAdditionalDatanode", "raw"),
      complete |-> Op("complete", "raw"), fsync |-> Op("fsync", "raw"),
      updateBlockForPipeline |-> Op("updateBlockForPipeline", None),
      updatePipeline |-> Op("updatePipeline", None) ]
ImplOps == ImplNamespaceOps ++ ImplListingOps ++ ImplAttributeOps ++ ImplStatusOps
           ++ ImplStreamOps

\* FileSystem hands each operation to the one of FileSystemImpl named here.
FileSystemPathOps ==
    [o \in {"deletePath", "mkdir", "mkdirs", "getFileStatus", "getFileBlockLocations",
            "listDirectory", "listAllDirectoryItems"} |-> o]
FileSystemAttributeOps ==
    [o \in {"setOwner", "setTimes", "setPermission", "setReplication", "rename"} |-> o]
FileSystemStatusOps == [exist |-> "exist", getStats |-> "getFsStats"]
FileSystemTokenOps ==
    [o \in {"truncate", "getDelegationToken", "renewDelegationToken",
            "cancelDelegationToken"} |-> o]
FileSystemStreamOps == [o \in {"getBlockLocations", "append", "create"} |-> o]
FileSystemOps == FileSystemPathOps ++ FileSystemAttributeOps ++ FileSystemStatusOps
                 ++ FileSystemTokenOps ++ FileSystemStreamOps

\* C functions that are one operation of FileSystem: the operation, and
\* whether its Boolean result decides between 0 and -1.
CFunction(o, b) == [op |-> FileSystemOps[o], bool |-> b]

CExistsFunctions == [ hdfsExists |-> CFunction("exist", TRUE) ]
CNamespaceFunctions ==
    [ hdfsDelete |-> CFunction("deletePath", TRUE), hdfsRename |-> CFunction("rename", TRUE) ]
CDirectoryFunctions ==
    [ hdfsCreateDirectory |-> CFunction("mkdirs", TRUE),
      hdfsSetReplication |-> CFunction("setReplication", TRUE) ]
CStatusFunctions == [ hdfsGetPathInfo |-> CFunction("getFileStatus", FALSE) ]
CHostFunctions == [ hdfsGetHosts |-> CFunction("getFileBlockLocations", FALSE) ]
CAttributeFunctions ==
    [ hdfsGetCapacity |-> CFunction("getStats", FALSE),
      hdfsGetUsed |-> CFunction("getStats", FALSE),
      hdfsChown |-> CFunction("setOwner", FALSE),
      hdfsChmod |-> CFunction("setPermission", FALSE),
      hdfsUtime |-> CFunction("setTimes", FALSE),
      hdfsTruncate |-> CFunction("truncate", FALSE) ]
CTokenFunctions ==
    [ hdfsGetDelegationToken |-> CFunction("getDelegationToken", FALSE),
      hdfsRenewDelegationToken |-> CFunction("renewDelegationToken", FALSE),
      hdfsCancelDelegationToken |-> CFunction("cancelDelegationToken", FALSE) ]
CLocationFunctions ==
    [ hdfsGetFileBlockLocations |-> CFunction("getFileBlockLocations", FALSE) ]
CFunctions == CExistsFunctions ++ CNamespaceFunctions ++ CDirectoryFunctions
              ++ CStatusFunctions ++ CHostFunctions ++ CAttributeFunctions ++ CTokenFunctions ++ CLocationFunctions

\* Functions on an open file: the direction it must have, and the calls of
\* the proxy they may make.
CStreamFunctions ==
    [ hdfsSeek |-> [needs |-> {"in"}, calls |-> {<<>>}],
      hdfsTell |-> [needs |-> {"in", "out"}, calls |-> {<<>>}],
      hdfsRead |-> [needs |-> {"in"}, calls |-> {<<>>, <<"getBlockLocations">>}],
      hdfsWrite |-> [needs |-> {"out"}, calls |-> {<<>>, <<"addBlock">>}],
      hdfsSync |-> [needs |-> {"out"}, calls |-> {<<>>, <<"fsync">>}],
      hdfsAvailable |-> [needs |-> {"in"}, calls |-> {<<>>}] ]

\* hdfsOpenFile: O_CREAT, O_WRONLY|O_APPEND, O_WRONLY and O_APPEND alone as
\* the flags of createOrAppend, which refuses the last.
OpenFunctions ==
    [ openCreate |-> {"Create"}, openAppend |-> {"Create", "Append"},
      openWrite |-> {"Create", "Overwrite"}, openAppendOnly |-> {} ]

createOrAppend(flags) ==
    IF "Append" \in flags THEN <<"getFileStatus", "append">> ELSE <<"create">>

ListFunctions == {"hdfsListDirectory", "DirectoryIterator"}

\* Functions without a remote call; hdfsCopy and hdfsMove only report ENOTSUP.
CopyFunctions == [ hdfsCopy |-> "ENOTSUP", hdfsMove |-> "ENOTSUP" ]
WorkingDirectoryFunctions ==
    [ hdfsGetWorkingDirectory |-> None, hdfsSetWorkingDirectory |-> None ]
DefaultFunctions == [ hdfsGetDefaultBlockSize |-> None ]
LocalFunctions == CopyFunctions ++ WorkingDirectoryFunctions ++ DefaultFunctions

AllFunctions ==
    DOMAIN CFunctions \cup DOMAIN CStreamFunctions \cup DOMAIN OpenFunctions
    \cup DOMAIN LocalFunctions \cup ListFunctions
    \cup {"hdfsConnect", "hdfsDisconnect", "openRead", "hdfsCloseFile"}

FileFunctions == DOMAIN CStreamFunctions \cup {"hdfsCloseFile"}

ASSUME HdfsClientAssumption ==
    /\ \A s \in Scenarios : s.functions \in [Threads -> SUBSET AllFunctions]
    /\ Servers = 0 .. 1 /\ Names \subseteq Nat /\ PageSize \in Nat \ {0}
    /\ MaxHARetry \in Nat
    /\ IsFiniteSet(Threads) /\ "handle" \notin Threads

Init ==
    /\ RpcInit /\ NNInit
    /\ namenodes = 0 /\ enableNamenodeHA = FALSE
    /\ handle = None /\ implRefs = {}
    /\ file = [t \in Threads |-> None]
    /\ fn = [t \in Threads |-> None] /\ arg = [t \in Threads |-> "full"]
    /\ todo = [t \in Threads |-> <<>>]
    /\ ret = [t \in Threads |-> None] /\ errno = [t \in Threads |-> None]
    /\ dir = {} /\ changes = 0
    /\ items = [t \in Threads |-> <<>>]
    /\ before = [t \in Threads |-> {}] /\ during = [t \in Threads |-> {}]

\* The process is there as long as the destructor of the client has not run.
Alive == destructor # "done"

(***************************************************************************)
(* Entering a function.  A handle is passed only while it is connected,    *)
(* and to hdfsDisconnect only when no other thread is in a function that   *)
(* uses it; functions on an open file do not look at the handle.           *)
(***************************************************************************)
enter(t, f, form, calls) ==
    /\ fn' = [fn EXCEPT ![t] = f] /\ arg' = [arg EXCEPT ![t] = form]
    /\ todo' = [todo EXCEPT ![t] = calls]
    /\ pc' = [pc EXCEPT ![t] = "function"]
    /\ UNCHANGED <<exc, name, ret, method, path, count, oldValue, server, active, executed, lost, calm,
                   budget, errno, file, rpcVars>>

\* A function that ends where it began: PARAMETER_ASSERT and local functions.
leaveAtOnce(t, e) ==
    /\ ret' = [ret EXCEPT ![t] = IF e = None THEN "ok" ELSE "error"]
    /\ pc' = [pc EXCEPT ![t] = "returned"]
    /\ errno' = [errno EXCEPT ![t] = IF e = None THEN @ ELSE e]
    /\ UNCHANGED <<exc, name, namenodes, enableNamenodeHA, currentNamenode, method, path,
                   count, oldValue, server, active, executed, lost, calm, budget, handle, implRefs, file, fn, arg, todo, listVars, rpcVars>>

Ready(t, f) == Alive /\ pc[t] = "idle" /\ f \in scenario.functions[t]
SameProxy == UNCHANGED <<namenodes, enableNamenodeHA, currentNamenode>>

\* hdfsBuilderConnect and FileSystem::connect: a new FileSystemImpl with a
\* proxy for one namenode or for the two of an HA service, then getFsStats.
callConnect(t) ==
    /\ Ready(t, "hdfsConnect") /\ handle = None /\ implRefs = {}
    /\ enter(t, "hdfsConnect", "full", <<"getFsStats">>)
    /\ handle' = "connecting" /\ implRefs' = {"handle"}
    /\ \E n \in {1, 2} : namenodes' = n /\ enableNamenodeHA' = (n > 1)
    /\ currentNamenode' = 0
    /\ UNCHANGED listVars

\* The forms of the path that function f may be given.
PathForms(f) == IF ImplOps[CFunctions[f].op].path = None THEN {"full"} ELSE {"full", "relative"}

callFunction(t) ==
    /\ handle = "connected"
    /\ \E f \in DOMAIN CFunctions : \E form \in PathForms(f) :
          /\ Ready(t, f)
          /\ enter(t, f, form, <<CFunctions[f].op>>)
    /\ SameProxy /\ UNCHANGED <<handle, implRefs, listVars>>

callLocal(t) ==
    /\ handle = "connected"
    /\ \E f \in DOMAIN LocalFunctions :
          Ready(t, f) /\ \E e \in {LocalFunctions[f], "EINVAL"} : leaveAtOnce(t, e)

callOpen(t) ==
    /\ handle = "connected" /\ file[t] = None
    /\ \/ /\ Ready(t, "openRead")       \* the path is standardised here
          /\ enter(t, "openRead", "full", <<"getBlockLocations">>)
       \/ \E f \in DOMAIN OpenFunctions, form \in {"full", "relative"} :
             /\ Ready(t, f) /\ OpenFunctions[f] # {}
             /\ enter(t, f, form, createOrAppend(OpenFunctions[f]))
    /\ SameProxy /\ UNCHANGED <<handle, implRefs, listVars>>

callOpenRefused(t) ==
    /\ handle = "connected" /\ file[t] = None
    /\ \E f \in DOMAIN OpenFunctions : Ready(t, f) /\ OpenFunctions[f] = {}
    /\ leaveAtOnce(t, handleException("InvalidParameter"))

callStream(t) ==
    /\ file[t] # None
    /\ \E f \in DOMAIN CStreamFunctions : \E calls \in CStreamFunctions[f].calls :
          /\ Ready(t, f) /\ file[t] \in CStreamFunctions[f].needs
          /\ enter(t, f, "full", calls)
    /\ SameProxy /\ UNCHANGED <<handle, implRefs, listVars>>

callStreamRefused(t) ==
    /\ file[t] # None
    /\ \E f \in DOMAIN CStreamFunctions :
          Ready(t, f) /\ file[t] \notin CStreamFunctions[f].needs
    /\ leaveAtOnce(t, "EINVAL")

callClose(t) ==
    /\ Ready(t, "hdfsCloseFile") /\ file[t] # None
    /\ enter(t, "hdfsCloseFile", "full",
             IF file[t] = "out" THEN <<"complete">> ELSE <<>>)
    /\ SameProxy /\ UNCHANGED <<handle, implRefs, listVars>>

callList(t) ==
    /\ handle = "connected"
    /\ \E f \in ListFunctions : Ready(t, f) /\ enter(t, f, "full", <<"listDirectory">>)
    /\ \A u \in Threads : fn[u] \notin ListFunctions
    /\ dir' \in SUBSET Names
    /\ before' = [before EXCEPT ![t] = dir'] /\ during' = [during EXCEPT ![t] = dir']
    /\ SameProxy /\ UNCHANGED <<handle, implRefs, items, changes>>

dropRefAndClose(owner) ==
    /\ implRefs' = implRefs \ {owner} /\ namenodes' = 0
    /\ UNCHANGED <<enableNamenodeHA, currentNamenode>>

\* The owners that are left; ~FileSystemImpl closes the proxy.
dropRef(owner) ==
    /\ implRefs' = implRefs \ {owner}
    /\ namenodes' = IF implRefs' = {} THEN 0 ELSE namenodes
    /\ UNCHANGED <<enableNamenodeHA, currentNamenode>>

callDisconnect(t) ==
    /\ Ready(t, "hdfsDisconnect") /\ handle = "connected"
    /\ \A u \in Threads : fn[u] \in FileFunctions \cup {None}
    /\ handle' = None /\ dropRef("handle")
    /\ ret' = [ret EXCEPT ![t] = "ok"] /\ pc' = [pc EXCEPT ![t] = "returned"]
    /\ UNCHANGED <<method, path, count, oldValue, server, exc, name, active, executed,
                   lost, calm, budget, file, fn, arg, todo, errno, listVars, rpcVars>>

(***************************************************************************)
(* Inside a function.                                                      *)
(***************************************************************************)
InFunction(t) == pc[t] = "function"

\* The form in which operation o passes the path of the function on.
sentPath(t, o) ==
    CASE ImplOps[o].path = "standard" -> "full"
      [] ImplOps[o].path = "raw" -> arg[t]
      [] OTHER -> None

\* The next call of the proxy.
nextCall(t) ==
    /\ InFunction(t) /\ exc[t] = NoException /\ todo[t] # <<>>
    /\ LET o == Head(todo[t]) IN proxyCall(t, ImplOps[o].method, sentPath(t, o))
    /\ todo' = [todo EXCEPT ![t] = Tail(@)]
    /\ UNCHANGED <<handle, implRefs, file, fn, arg, ret, errno, listVars, rpcVars>>

\* createOrAppend: the file to append to does not exist, so it is created.
AppendMissed(t) ==
    /\ fn[t] \in DOMAIN OpenFunctions /\ {"Append", "Create"} \subseteq OpenFunctions[fn[t]]
    /\ exc[t] = "FileNotFoundException" /\ method[t] \in {"getFileInfo", "append"}

createInstead(t) ==
    /\ InFunction(t) /\ AppendMissed(t)
    /\ todo' = [todo EXCEPT ![t] = <<"create">>]
    /\ exc' = [exc EXCEPT ![t] = NoException] /\ name' = [name EXCEPT ![t] = NoException]
    /\ SameProxy
    /\ UNCHANGED <<pc, method, path, count, oldValue, server, active, executed, lost, calm,
                   budget, handle, implRefs, file, fn, arg, ret, errno,
                   listVars, rpcVars>>

\* The end of a function: r is ok, false (-1 without an error) or error.
leave(t, r, e) ==
    /\ ret' = [ret EXCEPT ![t] = r]
    /\ errno' = [errno EXCEPT ![t] = IF r = "error" THEN e ELSE @]
    /\ fn' = [fn EXCEPT ![t] = None] /\ todo' = [todo EXCEPT ![t] = <<>>]
    /\ pc' = [pc EXCEPT ![t] = "returned"]
    /\ UNCHANGED <<method, path, count, oldValue, server, name, active, executed, lost, calm,
                   scenario, faults, switches, arg, rpcVars>>

\* What a function owns is given up when it fails: a handle that could not
\* connect, the file that hdfsCloseFile deletes in any case.
failFunction(t) ==
    /\ InFunction(t) /\ exc[t] # NoException /\ ~AppendMissed(t)
    /\ IF fn[t] = "hdfsExists" /\ exc[t] = "FileNotFoundException"
       THEN leave(t, "false", None)
       ELSE leave(t, "error", handleException(exc[t]))
    /\ CASE fn[t] = "hdfsConnect" -> handle' = None /\ dropRef("handle") /\ UNCHANGED file
         [] fn[t] = "hdfsCloseFile" ->
                /\ file' = [file EXCEPT ![t] = None] /\ dropRef(t) /\ UNCHANGED handle
         [] OTHER -> SameProxy /\ UNCHANGED <<handle, implRefs, file>>
    /\ UNCHANGED <<exc, errors, listVars>>

AllCallsDone(t) == InFunction(t) /\ exc[t] = NoException /\ todo[t] = <<>>

\* The namenode lists names in their order.
InOrder(names) ==
    CHOOSE s \in [1 .. Cardinality(names) -> names] : \A i, j \in DOMAIN s : i < j => s[i] < s[j]

listingFrom(n) == InOrder({m \in dir : m >= n})

\* FileSystemImpl::listAllDirectoryItems and DirectoryIterator read one page
\* after another, from behind the last name they got.  The page is what the
\* directory holds when the answer is used; nothing tells that from what it
\* held a moment before.
listingAfter(n) == InOrder({m \in dir : m > n})

listPage(t) ==
    /\ AllCallsDone(t) /\ fn[t] \in ListFunctions
    /\ LET startAfter == IF items[t] = <<>> THEN 0 ELSE items[t][Len(items[t])]
           rest == listingAfter(startAfter)
           page == SubSeq(rest, 1, Min({PageSize, Len(rest)}))
           more == Len(rest) > PageSize
       IN  /\ items' = [items EXCEPT ![t] = @ \o page]
           /\ IF more \/ (fn[t] = "DirectoryIterator" /\ page # <<>>)
              THEN /\ todo' = [todo EXCEPT ![t] = <<"listDirectory">>]
                   /\ UNCHANGED <<method, path, count, oldValue, server, name, active,
                          executed, lost, calm, scenario, faults, switches, arg, rpcVars, fn, pc, ret,
                          errno>>
              ELSE leave(t, "ok", None)
    /\ SameProxy
    /\ UNCHANGED <<exc, errors, handle, implRefs, file, dir, changes, before, during>>

\* Another client adds or deletes a name while a listing goes on.
changeDirectory ==
    /\ changes < MaxChanges /\ changes' = changes + 1
    /\ \E t \in Threads : fn[t] \in ListFunctions
    /\ \E n \in Names : dir' = (IF n \in dir THEN dir \ {n} ELSE dir \cup {n})
    /\ before' = [t \in Threads |-> before[t] \cap dir']
    /\ during' = [t \in Threads |-> during[t] \cup dir']
    /\ UNCHANGED <<items, rpcVars, nnVars, apiVars>>

finishFunction(t) ==
    /\ AllCallsDone(t) /\ fn[t] \notin ListFunctions \cup DOMAIN OpenFunctions
    /\ fn[t] # "openRead"
    /\ \/ leave(t, "ok", None)
       \/ /\ fn[t] \in DOMAIN CFunctions \ {"hdfsExists"} /\ CFunctions[fn[t]].bool
          /\ leave(t, "false", None)
    /\ CASE fn[t] = "hdfsConnect" ->
                handle' = "connected" /\ SameProxy /\ UNCHANGED <<implRefs, file>>
         [] fn[t] = "hdfsCloseFile" ->
                /\ file' = [file EXCEPT ![t] = None] /\ dropRef(t) /\ UNCHANGED handle
         [] OTHER -> SameProxy /\ UNCHANGED <<handle, implRefs, file>>
    /\ UNCHANGED <<exc, errors, listVars>>

\* The last step of hdfsOpenFile: the stream is opened and keeps the
\* FileSystemImpl; when opening it fails the stream and the file are deleted.
openStream(t) ==
    /\ AllCallsDone(t) /\ fn[t] \in DOMAIN OpenFunctions \cup {"openRead"}
    /\ \/ /\ leave(t, "ok", None)
          /\ file' = [file EXCEPT ![t] = IF fn[t] = "openRead" THEN "in" ELSE "out"]
          /\ implRefs' = implRefs \cup {t}
          /\ UNCHANGED <<exc, errors>>
       \/ /\ errors < scenario.errors /\ errors' = errors + 1
          /\ leave(t, "error", handleException("HdfsIOException"))
          /\ exc' = [exc EXCEPT ![t] = "HdfsIOException"]
          /\ UNCHANGED <<file, implRefs>>
    /\ SameProxy /\ UNCHANGED <<handle, listVars>>

\* The application looks at what it got; the locals of the function are gone.
takeResult(t) ==
    /\ pc[t] = "returned"
    /\ pc' = [pc EXCEPT ![t] = "idle"]
    /\ method' = [method EXCEPT ![t] = None] /\ path' = [path EXCEPT ![t] = None]
    /\ count' = [count EXCEPT ![t] = 0] /\ oldValue' = [oldValue EXCEPT ![t] = 0]
    /\ server' = [server EXCEPT ![t] = 0]
    /\ exc' = [exc EXCEPT ![t] = NoException] /\ name' = [name EXCEPT ![t] = NoException]
    /\ executed' = [executed EXCEPT ![t] = 0] /\ lost' = [lost EXCEPT ![t] = FALSE]
    /\ calm' = [calm EXCEPT ![t] = TRUE]
    /\ ret' = [ret EXCEPT ![t] = None] /\ errno' = [errno EXCEPT ![t] = None]
    /\ arg' = [arg EXCEPT ![t] = "full"]
    /\ items' = [items EXCEPT ![t] = <<>>]
    /\ before' = [before EXCEPT ![t] = {}] /\ during' = [during EXCEPT ![t] = {}]
    /\ LET listing == \E u \in Threads : fn[u] \in ListFunctions
       IN  dir' = (IF listing THEN dir ELSE {}) /\ changes' = (IF listing THEN changes ELSE 0)
    /\ SameProxy
    /\ UNCHANGED <<active, budget, handle, implRefs, file, fn, todo, rpcVars>>

threadStep(t) ==
    /\ pc[t] # "idle"
    /\ \/ proxyStep(t) /\ UNCHANGED <<apiVars, listVars>>
       \/ nextCall(t) \/ createInstead(t) \/ failFunction(t) \/ listPage(t)
       \/ finishFunction(t) \/ openStream(t) \/ takeResult(t)

call(t) ==
    /\ pc[t] = "idle"
    /\ \/ callConnect(t) \/ callFunction(t) \/ callLocal(t) \/ callOpen(t)
       \/ callOpenRefused(t) \/ callStream(t) \/ callStreamRefused(t) \/ callClose(t)
       \/ callList(t) \/ callDisconnect(t)

background ==
    /\ \/ scenario.idle /\ (cleanRound \/ cleanEnd)
       \/ scenario.exit /\ destroyBegin
       \/ destroyJoin \/ destroyDrained
    /\ UNCHANGED <<nnVars, apiVars, listVars>>

Next ==
    \/ \E t \in Threads : Alive /\ (call(t) \/ threadStep(t))
    \/ switchActive /\ UNCHANGED <<apiVars, listVars>>
    \/ background
    \/ changeDirectory

(***************************************************************************)
(* Every thread inside a function is scheduled; so are the cleaner, whose  *)
(* wait has a timeout, and the destructor once it has begun.               *)
(***************************************************************************)
Spec ==
    /\ Init /\ [][Next]_vars
    /\ \A t \in Threads : WF_vars(Alive /\ threadStep(t))
    /\ WF_vars(scenario.idle /\ (cleanRound \/ cleanEnd) /\ UNCHANGED <<nnVars, apiVars, listVars>>)
    /\ WF_vars((destroyJoin \/ destroyDrained) /\ UNCHANGED <<nnVars, apiVars, listVars>>)

(***************************************************************************)
(* Properties.                                                             *)
(***************************************************************************)

Returned(t) == pc[t] = "returned"

\* What a call uses outlives it.  The proxy is open as long as a call is in it: a
\* FileSystemImpl lives as long as the handle or a stream that uses it, so that
\* getActiveNamenode never finds the proxy closed and failoverToNextNamenode
\* never divides by zero; and it is closed once nobody uses it.  A channel is in
\* the map, which owns it, with the calls on it counted: neither the cleaner nor
\* the destructor of RpcClientImpl destroys it under one, and no path of
\* NamenodeImpl::invoke forgets to give it back.
NothingGoesUnderCall ==
    LET Users(s) == {t \in Threads : pc[t] \in {"invoke", "release"} /\ server[t] = s}
    IN  /\ \A t \in Threads :
              /\ pc[t] # "abort" /\ exc[t] # "HdfsFileSystemClosed"
              /\ pc[t] \in {"active", "channel", "invoke", "release", "decide", "failover"}
                    => namenodes > 0
        /\ implRefs = {} => namenodes = 0
        /\ \A s \in Servers :
              /\ Users(s) # {} => s \in allChannels
              /\ s \in allChannels => refs[s] = Cardinality(Users(s))

ExpectedErrno ==
    [ AccessControlException |-> "EACCES", FileNotFoundException |-> "ENOENT",
      UnresolvedLinkException |-> "EACCES", HdfsIOException |-> "EIO",
      SafeModeException |-> "EIO", AlreadyBeingCreatedException |-> "EBUSY",
      DSQuotaExceededException |-> "ENOSPC", FileAlreadyExistsException |-> "EEXIST",
      ParentNotDirectoryException |-> "EACCES", NSQuotaExceededException |-> "EINVAL",
      UnsupportedOperationException |-> "ENOTSUP", NotReplicatedYetException |-> "EINVAL" ]

\* An error that server/Namenode.h documents for a call reaches the
\* application with the errno of its own class, through the channel, the
\* UnWrapper of the method, the retry loop and handleException; and none that
\* only the layers use among themselves does (handleException's EINTERNAL).
DocumentedErrorsArrive ==
    \A t \in Threads :
        /\ errno[t] # "EINTERNAL"
        /\ (/\ Returned(t) /\ method[t] \in DOMAIN DocumentedErrors
            /\ name[t] \in DocumentedErrors[method[t]])
               => \/ ret[t] = "error" /\ errno[t] = ExpectedErrno[name[t]]
                  \/ ret[t] = "false" /\ name[t] = "FileNotFoundException"

\* A function that reports success has taken effect at a namenode, and a call
\* that is not idempotent has then taken effect once, unless a try that took
\* effect was broken by a timeout before its answer came.  It was told the full
\* path, whatever form the caller gave it (createOrAppend sends it as it is).
SuccessIsExactlyOnce ==
    \A t \in Threads :
        /\ (Returned(t) /\ ret[t] = "ok" /\ method[t] # None) => executed[t] >= 1
        /\ (executed[t] > 1 /\ ~Methods[method[t]].idempotent) => lost[t]
        /\ path[t] = "relative" => method[t] \in {"create", "append"}

\* A call during which nothing breaks and the active namenode does not change
\* never fails because a namenode is standby: the retry loop finds the active
\* one, although other threads move currentNamenode at the same time and the
\* value it looked up may be stale.  It is judged where the function that made
\* the call gets its outcome.  (After two disturbances a stale value can
\* be current again, and the loop may run out of tries.)
FailoverFindsActive ==
    \A t \in Threads :
        (InFunction(t) /\ enableNamenodeHA /\ calm[t] /\ faults + switches <= 1)
            => exc[t] # "NameNodeStandbyException"

\* A listing of several pages holds every name once and in order, every name
\* that was there all the time and none that never was, although the
\* directory changes between two pages.
ListingIsExact ==
    \A t \in Threads :
        /\ \A i, j \in DOMAIN items[t] : i < j => items[t][i] < items[t][j]
        /\ Range(items[t]) \subseteq during[t]
        /\ (Returned(t) /\ ret[t] = "ok") => before[t] \subseteq Range(items[t])

\* Every function returns, unless the process is gone, and the destructor of the
\* client ends: calls in progress fail or finish, the cleaner leaves, and nobody
\* keeps a channel.
CallsAndDestructorEnd ==
    /\ \A t \in Threads : pc[t] # "idle" ~> pc[t] \in {"idle", "returned"} \/ ~Alive
    /\ destructor # "none" ~> destructor = "done"
=============================================================================
