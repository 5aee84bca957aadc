------------------------- MODULE HdfsProxyProofs --------------------------
(***************************************************************************)
(* Two invariants of HdfsClient.  IInv is behind two of its properties:    *)
(* nothing that a call uses goes away under it, and a call that reports    *)
(* success has taken effect.  FailoverInvariant is behind a third: the     *)
(* retry loop finds the active namenode.  Here are the invariants, what    *)
(* the tables of methods and functions hold, who owns what a call uses,    *)
(* and the steps of a call inside of the proxy.                            *)
(***************************************************************************)
EXTENDS HdfsClient, TLAPS

-----------------------------------------------------------------------------
(* The invariant.                                                          *)

\* Where a thread is inside of the proxy, and where it has a channel.
InProxy == {"active", "channel", "invoke", "release", "decide", "failover"}
OnChannel == {"invoke", "release"}

Errors == ReflexNames \cup {NoException, "HdfsRpcServerException", "HdfsFailoverException",
                            "HdfsRpcException"}

ProxyType ==
    /\ namenodes \in 0..2 /\ currentNamenode \in Nat
    /\ pc \in [Threads -> InProxy \cup {"idle", "function", "returned"}]
    /\ server \in [Threads -> Servers]
    /\ exc \in [Threads -> Errors]
    /\ name \in [Threads -> ReflexNames \cup {NoException}]
    /\ method \in [Threads -> ProxyMethods \cup {None}] /\ DOMAIN path = Threads
    /\ executed \in [Threads -> Nat] /\ lost \in [Threads -> BOOLEAN]

ApiType ==
    /\ handle \in {None, "connecting", "connected"}
    /\ implRefs \subseteq Threads \cup {"handle"}
    /\ file \in [Threads -> {None, "in", "out"}]
    /\ fn \in [Threads -> AllFunctions \cup {None}]
    /\ DOMAIN todo = Threads /\ DOMAIN arg = Threads /\ DOMAIN ret = Threads

TypeOK == ProxyType /\ ApiType

\* Who owns the FileSystemImpl: the handle and the open files.  A thread that is in a
\* function uses one of the two.
InFn == InProxy \cup {"function"}

OwnerInv ==
    /\ implRefs = {} <=> namenodes = 0
    /\ "handle" \in implRefs <=> handle # None
    /\ \A t \in Threads :
          /\ t \in implRefs <=> file[t] # None
          /\ fn[t] # None <=> pc[t] \in InFn
          /\ fn[t] \in FileFunctions => file[t] # None
          /\ fn[t] \notin FileFunctions \cup {None} => handle # None
          /\ fn[t] = "hdfsConnect" => /\ handle = "connecting"
                                      /\ \A u \in Threads \ {t} : fn[u] # "hdfsConnect"
          /\ handle = "connecting" => file[t] = None /\ fn[t] \in {None, "hdfsConnect"}

\* What a try of a call leaves behind: only one that timed out is followed by another,
\* and one that ended without an exception took effect.
TryInv(t) ==
    /\ pc[t] = "idle" => method[t] = None
    /\ pc[t] \in InProxy => method[t] # None
    /\ executed[t] > 1 => lost[t]
    /\ pc[t] \in {"active", "channel", "invoke", "failover"} /\ executed[t] > 0 => lost[t]
    /\ pc[t] \in {"release", "decide"} =>
          /\ exc[t] = NoException => executed[t] > 0
          /\ exc[t] \in RetriedExceptions /\ executed[t] > 0 => lost[t]
    /\ pc[t] = "function" /\ exc[t] = NoException /\ todo[t] = <<>> /\ method[t] # None => executed[t] > 0
    /\ pc[t] = "returned" /\ ret[t] = "ok" /\ method[t] # None => executed[t] > 0

\* The operations that may be given a relative path.
PathOps == {o \in DOMAIN ImplOps : ImplOps[o].path = "raw" => ImplOps[o].method \in {"create", "append"}}

PathCalls == Seq(PathOps)

PathInv(t) ==
    /\ path[t] = "relative" => method[t] \in {"create", "append"}
    /\ arg[t] = "full" \/ todo[t] \in PathCalls

CallInv == \A t \in Threads : TryInv(t) /\ PathInv(t)

IInv == TypeOK /\ OwnerInv /\ CallInv

-----------------------------------------------------------------------------
(* The methods of the namenode.                                            *)

\* An entry of two tables is an entry of one of them.
LEMMA MergeFacts ==
    ASSUME NEW f, NEW g
    PROVE  /\ DOMAIN (f ++ g) = DOMAIN f \cup DOMAIN g
           /\ \A x \in DOMAIN f : (f ++ g)[x] = f[x]
           /\ \A x \in DOMAIN g \ DOMAIN f : (f ++ g)[x] = g[x]
BY Zenon DEF ++

Keys(f, names) == DOMAIN f = names

LEMMA MergeKeys ==
    ASSUME NEW f, NEW g, NEW fs, NEW gs, Keys(f, fs), Keys(g, gs)
    PROVE  Keys(f ++ g, fs \cup gs)
BY MergeFacts, Zenon DEF Keys

\* No method throws, for a server error or for an empty answer, what the retry loop
\* of the proxy catches, or nothing at all.
Sound(r) == /\ r.empty \in {NoException, "HdfsIOException", "FileNotFoundException"}
            /\ r.throws \subseteq ReflexNames
            /\ r.throws \cap RetriedExceptions = {}

AllSound(f) == \A m \in DOMAIN f : Sound(f[m])

LEMMA MergeSound ==
    ASSUME NEW f, NEW g, AllSound(f), AllSound(g)
    PROVE  AllSound(f ++ g)
<1> SUFFICES ASSUME NEW m \in DOMAIN (f ++ g) PROVE Sound((f ++ g)[m])
  BY Zenon DEF AllSound
<1>1. CASE m \in DOMAIN f
  BY <1>1, MergeFacts, Zenon DEF AllSound
<1>2. CASE m \notin DOMAIN f
  <2>1. m \in DOMAIN g BY <1>2, MergeFacts, Zenon
  <2>2. (f ++ g)[m] = g[m] BY <1>2, <2>1, Zenon DEF ++
  <2> QED BY <2>1, <2>2, Zenon DEF AllSound
<1> QED BY <1>1, <1>2, Zenon

\* What the UnWrapper lists of NamenodeImpl restore is never what the proxy retries,
\* and every method of the proxy has its list.
LEMMA MethodsSound == AllSound(Methods) /\ ProxyMethods \subseteq DOMAIN Methods
<1> USE DEF AllSound, Sound, Method, Path, Link, NoException, RetriedExceptions, ReflexNames
<1>1. AllSound(FileMethods) BY DEF FileMethods
<1>2. AllSound(AttributeMethods) BY DEF AttributeMethods
<1>3. AllSound(BlockMethods) BY DEF BlockMethods
<1>4. AllSound(RenameMethods) BY DEF RenameMethods
<1>5. AllSound(LeaseMethods) BY DEF LeaseMethods
<1>6. AllSound(DirectoryMethods) BY DEF DirectoryMethods
<1>7. AllSound(StatsMethods) BY DEF StatsMethods
<1>8. AllSound(StatusMethods) BY DEF StatusMethods
<1>9. AllSound(SyncMethods) BY DEF SyncMethods
<1>10. AllSound(PipelineMethods) BY DEF PipelineMethods
<1> HIDE DEF AllSound, Sound, Method, Path, Link, NoException, RetriedExceptions, ReflexNames
<1>11. AllSound(FileMethods ++ AttributeMethods ++ BlockMethods ++ RenameMethods)
  BY <1>1, <1>2, <1>3, <1>4, MergeSound, Zenon
<1>12. AllSound(FileMethods ++ AttributeMethods ++ BlockMethods ++ RenameMethods
                ++ LeaseMethods ++ DirectoryMethods ++ StatsMethods)
  BY <1>11, <1>5, <1>6, <1>7, MergeSound, Zenon
<1>13. AllSound(Methods)
  BY <1>12, <1>8, <1>9, <1>10, MergeSound, Zenon DEF Methods
<1>14. DOMAIN Methods = DOMAIN FileMethods \cup DOMAIN AttributeMethods \cup DOMAIN BlockMethods
           \cup DOMAIN RenameMethods \cup DOMAIN LeaseMethods \cup DOMAIN DirectoryMethods
           \cup DOMAIN StatsMethods \cup DOMAIN StatusMethods \cup DOMAIN SyncMethods
           \cup DOMAIN PipelineMethods
  <2>1. \A f : Keys(f, DOMAIN f) BY Zenon DEF Keys
  <2>2. Keys(FileMethods ++ AttributeMethods ++ BlockMethods ++ RenameMethods ++ LeaseMethods,
             DOMAIN FileMethods \cup DOMAIN AttributeMethods \cup DOMAIN BlockMethods
              \cup DOMAIN RenameMethods \cup DOMAIN LeaseMethods)
    BY <2>1, MergeKeys, Zenon
  <2>3. Keys(Methods, DOMAIN FileMethods
              \cup DOMAIN AttributeMethods
              \cup DOMAIN BlockMethods
              \cup DOMAIN RenameMethods
              \cup DOMAIN LeaseMethods
              \cup DOMAIN DirectoryMethods
              \cup DOMAIN StatsMethods
              \cup DOMAIN StatusMethods
              \cup DOMAIN SyncMethods
              \cup DOMAIN PipelineMethods)
    BY <2>1, <2>2, MergeKeys, Zenon DEF Methods
  <2> QED BY <2>3, Zenon DEF Keys
<1>15. ProxyFileMethods \subseteq DOMAIN Methods
  BY <1>14, Zenon DEF ProxyFileMethods, FileMethods, AttributeMethods, BlockMethods
<1>16. ProxyNamespaceMethods \subseteq DOMAIN Methods
  BY <1>14, Zenon DEF ProxyNamespaceMethods, RenameMethods, LeaseMethods, DirectoryMethods
<1>17. ProxyStatusMethods \subseteq DOMAIN Methods
  BY <1>14, Zenon DEF ProxyStatusMethods, StatsMethods, StatusMethods, SyncMethods,
     PipelineMethods
<1> QED BY <1>13, <1>15, <1>16, <1>17, Zenon DEF ProxyMethods

-----------------------------------------------------------------------------
(* The functions and the operations they are made of.                      *)

\* An entry of five tables is that of the first of them that has one.
FirstOf(table, a, b, c, d, e) ==
    /\ DOMAIN table = DOMAIN a \cup DOMAIN b \cup DOMAIN c \cup DOMAIN d \cup DOMAIN e
    /\ \A x \in DOMAIN a : table[x] = a[x]
    /\ \A x \in DOMAIN b \ DOMAIN a : table[x] = b[x]
    /\ \A x \in DOMAIN c \ (DOMAIN a \cup DOMAIN b) : table[x] = c[x]
    /\ \A x \in DOMAIN d \ (DOMAIN a \cup DOMAIN b \cup DOMAIN c) : table[x] = d[x]
    /\ \A x \in DOMAIN e \ (DOMAIN a \cup DOMAIN b \cup DOMAIN c \cup DOMAIN d) : table[x] = e[x]

LEMMA MergeFive ==
    ASSUME NEW a, NEW b, NEW c, NEW d, NEW e
    PROVE  FirstOf(a ++ b ++ c ++ d ++ e, a, b, c, d, e)
<1> DEFINE Two == a ++ b
           Three == Two ++ c
           Four == Three ++ d
           Five == Four ++ e
<1>1. /\ DOMAIN Two = DOMAIN a \cup DOMAIN b
      /\ \A x \in DOMAIN a : Two[x] = a[x]
      /\ \A x \in DOMAIN b \ DOMAIN a : Two[x] = b[x]
  BY DEF ++
<1> HIDE DEF Two
<1>2. /\ DOMAIN Three = DOMAIN Two \cup DOMAIN c
      /\ \A x \in DOMAIN Two : Three[x] = Two[x]
      /\ \A x \in DOMAIN c \ DOMAIN Two : Three[x] = c[x]
  BY SMTT(30) DEF ++
<1> HIDE DEF Three
<1>3. /\ DOMAIN Four = DOMAIN Three \cup DOMAIN d
      /\ \A x \in DOMAIN Three : Four[x] = Three[x]
      /\ \A x \in DOMAIN d \ DOMAIN Three : Four[x] = d[x]
  BY Zenon DEF ++
<1> HIDE DEF Four
<1>4. /\ DOMAIN Five = DOMAIN Four \cup DOMAIN e
      /\ \A x \in DOMAIN Four : Five[x] = Four[x]
      /\ \A x \in DOMAIN e \ DOMAIN Four : Five[x] = e[x]
  BY DEF ++
<1> HIDE DEF Five
<1>5. FirstOf(Five, a, b, c, d, e)
  BY <1>1, <1>2, <1>3, <1>4 DEF FirstOf
<1> QED BY <1>5, Zenon DEF Two, Three, Four, Five

\* A function on a file is never one on the handle, and no function is called none.
LEMMA FunctionNames ==
    /\ None \notin AllFunctions
    /\ \A f \in DOMAIN CFunctions \cup DOMAIN OpenFunctions \cup ListFunctions \cup {"openRead"} :
          f \notin FileFunctions \cup {None, "hdfsConnect"}
    /\ "hdfsConnect" \notin FileFunctions \cup {None}
    /\ None \notin FileFunctions
    /\ \A f \in FileFunctions : f \notin {None, "hdfsConnect", "openRead"}
<1>1. DOMAIN CFunctions =
        {"hdfsExists", "hdfsDelete", "hdfsRename", "hdfsCreateDirectory", "hdfsSetReplication",
         "hdfsGetPathInfo", "hdfsGetHosts", "hdfsGetCapacity", "hdfsGetUsed", "hdfsChown",
         "hdfsChmod", "hdfsUtime", "hdfsTruncate", "hdfsGetDelegationToken",
         "hdfsRenewDelegationToken", "hdfsCancelDelegationToken", "hdfsGetFileBlockLocations"}
  <2>1. Keys(CFunctions, DOMAIN CExistsFunctions
              \cup DOMAIN CNamespaceFunctions
              \cup DOMAIN CDirectoryFunctions
              \cup DOMAIN CStatusFunctions
              \cup DOMAIN CHostFunctions
              \cup DOMAIN CAttributeFunctions
              \cup DOMAIN CTokenFunctions
              \cup DOMAIN CLocationFunctions)
    <3>1. \A f : Keys(f, DOMAIN f) BY DEF Keys
    <3> QED BY <3>1, MergeKeys, Zenon DEF CFunctions
  <2> QED
    BY <2>1, Zenon DEF Keys, CExistsFunctions, CNamespaceFunctions, CDirectoryFunctions,
       CStatusFunctions,
           CHostFunctions, CAttributeFunctions, CTokenFunctions, CLocationFunctions
<1>2. DOMAIN LocalFunctions = {"hdfsCopy", "hdfsMove", "hdfsGetWorkingDirectory",
                               "hdfsSetWorkingDirectory", "hdfsGetDefaultBlockSize"}
  <2>1. Keys(LocalFunctions, DOMAIN CopyFunctions
              \cup DOMAIN WorkingDirectoryFunctions
              \cup DOMAIN DefaultFunctions)
    <3>1. \A f : Keys(f, DOMAIN f) BY DEF Keys
    <3> QED BY <3>1, MergeKeys, Zenon DEF LocalFunctions
  <2> QED BY <2>1, Zenon DEF Keys, CopyFunctions, WorkingDirectoryFunctions, DefaultFunctions
<1>3. DOMAIN CStreamFunctions = {"hdfsSeek", "hdfsTell", "hdfsRead", "hdfsWrite", "hdfsSync",
                                 "hdfsAvailable"}
  BY Zenon DEF CStreamFunctions
<1>4. DOMAIN OpenFunctions = {"openCreate", "openAppend", "openWrite", "openAppendOnly"}
  BY Zenon DEF OpenFunctions
<1> QED BY <1>1, <1>2, <1>3, <1>4, Zenon DEF AllFunctions, FileFunctions, ListFunctions, None

\* The operations of FileSystemImpl that pass a path on as they got it are those of the
\* streams.  Of these the functions of the handle use only create and append.
LEMMA PathOpsFacts ==
    /\ \A f \in DOMAIN CFunctions : CFunctions[f].op \in PathOps
    /\ {"getFileStatus", "listDirectory", "create", "append"} \subseteq PathOps
<1>1. /\ DOMAIN ImplOps = DOMAIN ImplNamespaceOps \cup DOMAIN ImplListingOps
                        \cup DOMAIN ImplAttributeOps \cup DOMAIN ImplStatusOps \cup DOMAIN ImplStreamOps
      /\ \A o \in DOMAIN ImplNamespaceOps : ImplOps[o] = ImplNamespaceOps[o]
      /\ \A o \in DOMAIN ImplListingOps \ DOMAIN ImplNamespaceOps : ImplOps[o] = ImplListingOps[o]
      /\ \A o \in DOMAIN ImplAttributeOps \ (DOMAIN ImplNamespaceOps \cup DOMAIN ImplListingOps) :
            ImplOps[o] = ImplAttributeOps[o]
      /\ \A o \in DOMAIN ImplStatusOps \ (DOMAIN ImplNamespaceOps \cup DOMAIN ImplListingOps
                                          \cup DOMAIN ImplAttributeOps) :
            ImplOps[o] = ImplStatusOps[o]
      /\ \A o \in DOMAIN ImplStreamOps \ (DOMAIN ImplNamespaceOps \cup DOMAIN ImplListingOps
                                          \cup DOMAIN ImplAttributeOps \cup DOMAIN ImplStatusOps) :
            ImplOps[o] = ImplStreamOps[o]
  <2>1. FirstOf(ImplOps, ImplNamespaceOps, ImplListingOps, ImplAttributeOps,
                ImplStatusOps, ImplStreamOps)
    BY MergeFive, Zenon DEF ImplOps
  <2> QED BY <2>1, Zenon DEF FirstOf
<1>2. /\ DOMAIN ImplNamespaceOps = {"deletePath", "mkdir", "mkdirs", "getFileStatus"}
      /\ DOMAIN ImplListingOps = {"getFileBlockLocations", "listDirectory", "listAllDirectoryItems"}
      /\ DOMAIN ImplAttributeOps = {"setOwner", "setTimes", "setPermission", "setReplication", "rename"}
      /\ DOMAIN ImplStatusOps = {"exist", "getFsStats", "truncate", "getDelegationToken",
                                 "renewDelegationToken", "cancelDelegationToken"}
      /\ {"create", "append"} \subseteq DOMAIN ImplStreamOps
  BY Zenon DEF ImplNamespaceOps, ImplListingOps, ImplAttributeOps, ImplStatusOps, ImplStreamOps
<1>3. \A o \in DOMAIN ImplListingOps : o \in DOMAIN ImplOps /\ ImplOps[o] = ImplListingOps[o]
  BY <1>1, <1>2, Zenon
<1>4. \A o \in DOMAIN ImplAttributeOps : o \in DOMAIN ImplOps /\ ImplOps[o] = ImplAttributeOps[o]
  BY <1>1, <1>2, Zenon
<1>5. \A o \in DOMAIN ImplStatusOps : o \in DOMAIN ImplOps /\ ImplOps[o] = ImplStatusOps[o]
  BY <1>1, <1>2, Zenon
<1>6. \A o \in {"create", "append"} : o \in DOMAIN ImplOps /\ ImplOps[o] = ImplStreamOps[o]
  BY <1>1, <1>2, Zenon
<1>7. DOMAIN ImplNamespaceOps \subseteq PathOps
  BY <1>1 DEF PathOps, ImplNamespaceOps, Op
<1>8. DOMAIN ImplListingOps \subseteq PathOps
  BY <1>3 DEF PathOps, ImplListingOps, Op
<1>9. DOMAIN ImplAttributeOps \subseteq PathOps
  BY <1>4 DEF PathOps, ImplAttributeOps, Op
<1>10. DOMAIN ImplStatusOps \subseteq PathOps
  BY <1>5 DEF PathOps, ImplStatusOps, Op, None
<1>11. {"create", "append"} \subseteq PathOps
  BY <1>6 DEF PathOps, ImplStreamOps, Op
<1>12. {"getFileStatus", "listDirectory", "create", "append"} \subseteq PathOps
  BY <1>7, <1>8, <1>11, Zenon DEF ImplNamespaceOps, ImplListingOps
<1>13. \A o \in {"deletePath", "mkdirs", "getFileStatus", "getFileBlockLocations", "setOwner",
               "setTimes", "setPermission", "setReplication", "rename", "exist", "getFsStats",
               "truncate", "getDelegationToken", "renewDelegationToken", "cancelDelegationToken"} :
           o \in PathOps
  BY <1>7, <1>8, <1>9, <1>10, Zenon DEF ImplNamespaceOps, ImplListingOps, ImplAttributeOps,
     ImplStatusOps
<1>14. /\ \A o \in DOMAIN FileSystemPathOps : FileSystemOps[o] = FileSystemPathOps[o]
       /\ \A o \in DOMAIN FileSystemAttributeOps \ DOMAIN FileSystemPathOps :
             FileSystemOps[o] = FileSystemAttributeOps[o]
       /\ \A o \in DOMAIN FileSystemStatusOps \ (DOMAIN FileSystemPathOps
                                                 \cup DOMAIN FileSystemAttributeOps) :
             FileSystemOps[o] = FileSystemStatusOps[o]
       /\ \A o \in DOMAIN FileSystemTokenOps \ (DOMAIN FileSystemPathOps
                          \cup DOMAIN FileSystemAttributeOps \cup DOMAIN FileSystemStatusOps) :
             FileSystemOps[o] = FileSystemTokenOps[o]
  <2>1. FirstOf(FileSystemOps, FileSystemPathOps, FileSystemAttributeOps, FileSystemStatusOps,
                FileSystemTokenOps, FileSystemStreamOps)
    BY MergeFive, Zenon DEF FileSystemOps
  <2> QED BY <2>1, Zenon DEF FirstOf
<1>15. /\ DOMAIN FileSystemPathOps = {"deletePath", "mkdir", "mkdirs", "getFileStatus",
              "getFileBlockLocations", "listDirectory", "listAllDirectoryItems"}
       /\ DOMAIN FileSystemAttributeOps = {"setOwner", "setTimes", "setPermission",
              "setReplication", "rename"}
       /\ DOMAIN FileSystemStatusOps = {"exist", "getStats"}
       /\ DOMAIN FileSystemTokenOps = {"truncate", "getDelegationToken", "renewDelegationToken",
              "cancelDelegationToken"}
  BY Zenon DEF FileSystemPathOps, FileSystemAttributeOps, FileSystemStatusOps,
     FileSystemTokenOps
<1>g. /\ \A o \in DOMAIN FileSystemPathOps : FileSystemPathOps[o] = o
      /\ \A o \in DOMAIN FileSystemAttributeOps : FileSystemAttributeOps[o] = o
      /\ \A o \in DOMAIN FileSystemTokenOps : FileSystemTokenOps[o] = o
  BY Zenon DEF FileSystemPathOps, FileSystemAttributeOps, FileSystemTokenOps
<1>e. \A o \in {"deletePath", "mkdirs", "getFileStatus", "getFileBlockLocations"} :
         FileSystemOps[o] \in PathOps
  BY <1>13, <1>14, <1>15, <1>g
<1>f. \A o \in {"setOwner", "setTimes", "setPermission", "setReplication", "rename"} :
         FileSystemOps[o] \in PathOps
  BY <1>13, <1>14, <1>15, <1>g
<1>16. FileSystemOps["exist"] \in PathOps /\ FileSystemOps["getStats"] \in PathOps
  <2>1. FileSystemOps["exist"] = FileSystemStatusOps.exist
    BY <1>14, <1>15, Zenon
  <2>2. FileSystemOps["getStats"] = FileSystemStatusOps.getStats
    BY <1>14, <1>15, Zenon
  <2> QED BY <1>13, <2>1, <2>2, Zenon DEF FileSystemStatusOps
<1>17. \A o \in {"truncate", "getDelegationToken", "renewDelegationToken", "cancelDelegationToken"} :
          FileSystemOps[o] \in PathOps
  BY <1>13, <1>14, <1>15, <1>g, SMTT(30)
<1> DEFINE Good(f) == \A x \in DOMAIN f : f[x].op \in PathOps
<1>18. ASSUME NEW f, NEW g, Good(f), Good(g) PROVE Good(f ++ g)
  BY <1>18, Zenon DEF ++
<1>19. Good(CExistsFunctions) BY <1>16 DEF CExistsFunctions, CFunction
<1>20. Good(CNamespaceFunctions) BY <1>e, <1>f DEF CNamespaceFunctions, CFunction
<1>21. Good(CDirectoryFunctions) BY <1>e, <1>f DEF CDirectoryFunctions, CFunction
<1>22. Good(CStatusFunctions) BY <1>e, <1>f DEF CStatusFunctions, CFunction
<1>23. Good(CHostFunctions) BY <1>e, <1>f DEF CHostFunctions, CFunction
<1>24. Good(CAttributeFunctions) BY <1>f, <1>16, <1>17 DEF CAttributeFunctions, CFunction
<1>25. Good(CTokenFunctions) BY <1>17 DEF CTokenFunctions, CFunction
<1>26. Good(CLocationFunctions) BY <1>e, <1>f DEF CLocationFunctions, CFunction
<1> HIDE DEF Good
<1>27. Good(CExistsFunctions ++ CNamespaceFunctions ++ CDirectoryFunctions ++ CStatusFunctions)
  BY <1>18, <1>19, <1>20, <1>21, <1>22, Zenon
<1>28. Good(CFunctions)
  BY <1>18, <1>27, <1>23, <1>24, <1>25, <1>26, Zenon DEF CFunctions
<1> QED BY <1>12, <1>28, Zenon DEF Good

\* Lists of operations that may be given a relative path.
LEMMA PathCallsFacts ==
    /\ <<>> \in PathCalls
    /\ \A o \in PathOps : <<o>> \in PathCalls
    /\ \A o, q \in PathOps : <<o, q>> \in PathCalls
    /\ \A s \in PathCalls : s # <<>> => Head(s) \in PathOps /\ Tail(s) \in PathCalls
<1>1. <<>> \in PathCalls BY DEF PathCalls
<1>2. \A o \in PathOps : <<o>> \in PathCalls BY DEF PathCalls
<1>3. \A o, q \in PathOps : <<o, q>> \in PathCalls BY DEF PathCalls
<1>4. \A s \in PathCalls : s # <<>> => Head(s) \in PathOps /\ Tail(s) \in PathCalls
  BY DEF PathCalls
<1> QED BY <1>1, <1>2, <1>3, <1>4, Zenon

-----------------------------------------------------------------------------
(* What a step leaves alone.                                               *)

\* The call of thread u is not touched.
SameCall(u) ==
    /\ pc'[u] = pc[u] /\ method'[u] = method[u] /\ path'[u] = path[u]
    /\ executed'[u] = executed[u] /\ lost'[u] = lost[u] /\ exc'[u] = exc[u]
    /\ todo'[u] = todo[u] /\ arg'[u] = arg[u] /\ ret'[u] = ret[u]

LEMMA SameCallInv ==
    ASSUME NEW u, TryInv(u), PathInv(u), SameCall(u)
    PROVE  TryInv(u)' /\ PathInv(u)'
<1>1. TryInv(u)' BY Zenon DEF TryInv, SameCall
<1>2. PathInv(u)' BY Zenon DEF PathInv, SameCall
<1> QED BY <1>1, <1>2, Zenon

\* A step of thread t that ends well for t and does not touch the others.
LEMMA OneCallInv ==
    ASSUME NEW t \in Threads, CallInv, TryInv(t)', PathInv(t)',
           \A u \in Threads \ {t} : SameCall(u)
    PROVE  CallInv'
<1> SUFFICES ASSUME NEW u \in Threads PROVE TryInv(u)' /\ PathInv(u)'
  BY Zenon DEF CallInv
<1>1. CASE u = t BY <1>1, Zenon
<1>2. CASE u # t
  <2>1. TryInv(u) /\ PathInv(u) BY Zenon DEF CallInv
  <2>2. SameCall(u) BY <1>2, Zenon
  <2> QED BY <2>1, <2>2, SameCallInv, Zenon
<1> QED BY <1>1, <1>2, Zenon

\* Nobody enters or leaves a function.
SameOwners ==
    /\ UNCHANGED <<handle, implRefs, namenodes, file, fn>>
    /\ \A u \in Threads : pc'[u] \in InFn <=> pc[u] \in InFn

LEMMA SameOwnersInv == OwnerInv /\ SameOwners => OwnerInv'
BY DEF OwnerInv, SameOwners

\* Nobody takes or gives back a channel.
SameChannels ==
    /\ allChannels' = allChannels /\ refs' = refs
    /\ \A u \in Threads : /\ pc'[u] \in OnChannel <=> pc[u] \in OnChannel
                          /\ pc[u] \in OnChannel => server'[u] = server[u]

\* A call takes a channel of its server and gives it back; the cleaner and the destructor
\* drop channels that nobody counts on.
TakesChannel(t) ==
    /\ pc[t] = "channel" /\ pc' = [pc EXCEPT ![t] = "invoke"] /\ server' = server
    /\ getChannel(server[t])

GivesChannelBack(t) ==
    /\ pc[t] = "release" /\ pc' = [pc EXCEPT ![t] = "decide"] /\ server' = server
    /\ releaseChannel(server[t])

DropsIdle ==
    /\ UNCHANGED <<pc, server, refs>> /\ allChannels' \subseteq allChannels
    /\ \A s \in allChannels \ allChannels' : refs[s] = 0

ChannelStep ==
    SameChannels \/ DropsIdle \/ \E t \in Threads : TakesChannel(t) \/ GivesChannelBack(t)

\* A thread in a function uses a FileSystemImpl that somebody owns, whose proxy is open.
LEMMA ProxyOpen ==
    ASSUME TypeOK, OwnerInv, NEW t \in Threads, pc[t] \in InFn
    PROVE  namenodes \in 1..2
<1>1. fn[t] # None BY Zenon DEF OwnerInv
<1>2. implRefs # {}
  <2>1. CASE fn[t] \in FileFunctions BY <2>1, Zenon DEF OwnerInv
  <2>2. CASE fn[t] \notin FileFunctions BY <1>1, <2>2, Zenon DEF OwnerInv
  <2> QED BY <2>1, <2>2, Zenon
<1>3. namenodes # 0 BY <1>2, Zenon DEF OwnerInv
<1> QED BY <1>3 DEF TypeOK, ProxyType

-----------------------------------------------------------------------------
(* Entering and leaving a function, and the owners of the FileSystemImpl.  *)

\* A function on a file is entered by a thread that has one.
LEMMA EnterFileFunction ==
    ASSUME TypeOK, OwnerInv, NEW t \in Threads, NEW f \in FileFunctions, file[t] # None,
           pc' = [pc EXCEPT ![t] = "function"], fn' = [fn EXCEPT ![t] = f],
           UNCHANGED <<handle, implRefs, namenodes, file>>
    PROVE  OwnerInv'
<1>1. f \notin {None, "hdfsConnect"} BY FunctionNames, Zenon
<1>2. handle # "connecting" BY Zenon DEF OwnerInv
<1>3. /\ fn'[t] = f /\ pc'[t] \in InFn
      /\ \A u \in Threads \ {t} : fn'[u] = fn[u] /\ pc'[u] = pc[u]
  BY Zenon DEF TypeOK, ProxyType, ApiType, InFn
<1> QED BY <1>1, <1>2, <1>3 DEF OwnerInv

\* One on the handle is entered while it is connected.
LEMMA EnterFunction ==
    ASSUME TypeOK, OwnerInv, NEW t \in Threads, handle = "connected",
           NEW f, f \notin FileFunctions \cup {None, "hdfsConnect"},
           pc' = [pc EXCEPT ![t] = "function"], fn' = [fn EXCEPT ![t] = f],
           UNCHANGED <<handle, implRefs, namenodes, file>>
    PROVE  OwnerInv'
<1>1. handle # None /\ handle # "connecting" BY Zenon DEF None
<1>2. /\ fn'[t] = f /\ pc'[t] \in InFn
      /\ \A u \in Threads \ {t} : fn'[u] = fn[u] /\ pc'[u] = pc[u]
  BY Zenon DEF TypeOK, ProxyType, ApiType, InFn
<1> QED BY <1>1, <1>2 DEF OwnerInv

\* hdfsConnect begins when nobody is left of what was connected before.
LEMMA EnterConnect ==
    ASSUME TypeOK, OwnerInv, NEW t \in Threads, handle = None, implRefs = {},
           pc' = [pc EXCEPT ![t] = "function"], fn' = [fn EXCEPT ![t] = "hdfsConnect"],
           handle' = "connecting", implRefs' = {"handle"}, namenodes' \in {1, 2}, file' = file
    PROVE  OwnerInv'
<1>1. \A u \in Threads : fn[u] = None /\ file[u] = None
  BY Zenon DEF OwnerInv
<1>2. /\ fn'[t] = "hdfsConnect" /\ pc'[t] \in InFn
      /\ \A u \in Threads \ {t} : fn'[u] = fn[u] /\ pc'[u] = pc[u]
  BY Zenon DEF TypeOK, ProxyType, ApiType, InFn
<1>3. "hdfsConnect" \notin FileFunctions \cup {None} /\ None \notin FileFunctions
  BY FunctionNames, Zenon
<1>4. "handle" \notin Threads BY HdfsClientAssumption, Zenon
<1>5. None # "connecting" /\ None # "hdfsConnect" BY Zenon DEF None
<1>6. namenodes' # 0 OBVIOUS
<1> QED BY <1>1, <1>2, <1>3, <1>4, <1>5, <1>6 DEF OwnerInv

\* A thread leaves a function that neither gives up nor takes anything.
LEMMA LeavePlain ==
    ASSUME TypeOK, OwnerInv, NEW t \in Threads,
           pc' = [pc EXCEPT ![t] = "returned"], fn' = [fn EXCEPT ![t] = None],
           UNCHANGED <<handle, implRefs, namenodes, file>>
    PROVE  OwnerInv'
<1>1. /\ fn'[t] = None /\ pc'[t] \notin InFn
      /\ \A u \in Threads \ {t} : fn'[u] = fn[u] /\ pc'[u] = pc[u]
  BY Zenon DEF TypeOK, ProxyType, ApiType, InFn, InProxy
<1>2. None \notin FileFunctions /\ None # "hdfsConnect" BY FunctionNames, Zenon
<1> QED BY <1>1, <1>2 DEF OwnerInv

\* hdfsConnect ends with a handle ...
LEMMA LeaveConnect ==
    ASSUME TypeOK, OwnerInv, NEW t \in Threads, fn[t] = "hdfsConnect",
           pc' = [pc EXCEPT ![t] = "returned"], fn' = [fn EXCEPT ![t] = None],
           handle' = "connected", UNCHANGED <<implRefs, namenodes, file>>
    PROVE  OwnerInv'
<1>1. /\ fn'[t] = None /\ pc'[t] \notin InFn
      /\ \A u \in Threads \ {t} : fn'[u] = fn[u] /\ pc'[u] = pc[u]
  BY Zenon DEF TypeOK, ProxyType, ApiType, InFn, InProxy
<1>2. None \notin FileFunctions /\ None # "hdfsConnect" BY FunctionNames, Zenon
<1>3. handle = "connecting" /\ \A u \in Threads \ {t} : fn[u] = None
  BY Zenon DEF OwnerInv
<1>4. handle # None /\ handle' # None /\ handle' # "connecting"
  BY <1>3, Zenon DEF None
<1> QED BY <1>1, <1>2, <1>3, <1>4 DEF OwnerInv

\* ... or gives up the FileSystemImpl it made.
LEMMA LeaveConnectFailed ==
    ASSUME TypeOK, OwnerInv, NEW t \in Threads, fn[t] = "hdfsConnect",
           pc' = [pc EXCEPT ![t] = "returned"], fn' = [fn EXCEPT ![t] = None],
           handle' = None, dropRef("handle"), file' = file
    PROVE  OwnerInv'
<1>1. /\ fn'[t] = None /\ pc'[t] \notin InFn
      /\ \A u \in Threads \ {t} : fn'[u] = fn[u] /\ pc'[u] = pc[u]
  BY Zenon DEF TypeOK, ProxyType, ApiType, InFn, InProxy
<1>2. None \notin FileFunctions /\ None # "hdfsConnect" /\ None # "connecting"
  BY FunctionNames, Zenon DEF None
<1>3. /\ handle = "connecting" /\ \A u \in Threads \ {t} : fn[u] = None
      /\ \A u \in Threads : file[u] = None
  BY Zenon DEF OwnerInv
<1>4. implRefs \subseteq {"handle"}
  BY <1>3, Zenon DEF OwnerInv, TypeOK, ApiType
<1>5. implRefs' = {} /\ namenodes' = 0
  BY <1>4, Zenon DEF dropRef
<1>6. \A u \in Threads : pc'[u] \notin InFn /\ fn'[u] = None
  BY <1>1, <1>3 DEF OwnerInv
<1> QED BY <1>2, <1>3, <1>5, <1>6 DEF OwnerInv

\* hdfsCloseFile deletes the file in any case.
LEMMA LeaveClose ==
    ASSUME TypeOK, OwnerInv, NEW t \in Threads, fn[t] = "hdfsCloseFile",
           pc' = [pc EXCEPT ![t] = "returned"], fn' = [fn EXCEPT ![t] = None],
           handle' = handle, dropRef(t), file' = [file EXCEPT ![t] = None]
    PROVE  OwnerInv'
<1>1. /\ fn'[t] = None /\ pc'[t] \notin InFn /\ file'[t] = None
      /\ \A u \in Threads \ {t} : fn'[u] = fn[u] /\ pc'[u] = pc[u] /\ file'[u] = file[u]
  BY Zenon DEF TypeOK, ProxyType, ApiType, InFn, InProxy
<1>2. None \notin FileFunctions /\ None # "hdfsConnect" BY FunctionNames, Zenon
<1>3. t \in implRefs BY Zenon DEF OwnerInv, FileFunctions
<1>4. "handle" # t BY HdfsClientAssumption, Zenon
<1>5. implRefs' = implRefs \ {t} BY Zenon DEF dropRef
<1>6. implRefs' = {} <=> namenodes' = 0
  BY <1>3, Zenon DEF dropRef, OwnerInv
<1> QED BY <1>1, <1>2, <1>4, <1>5, <1>6 DEF OwnerInv

\* hdfsOpenFile ends with a file that keeps the FileSystemImpl.
LEMMA LeaveOpen ==
    ASSUME TypeOK, OwnerInv, NEW t \in Threads, NEW d \in {"in", "out"},
           fn[t] \in DOMAIN OpenFunctions \cup {"openRead"},
           pc' = [pc EXCEPT ![t] = "returned"], fn' = [fn EXCEPT ![t] = None],
           UNCHANGED <<handle, namenodes>>, implRefs' = implRefs \cup {t},
           file' = [file EXCEPT ![t] = d]
    PROVE  OwnerInv'
<1>1. /\ fn'[t] = None /\ pc'[t] \notin InFn /\ file'[t] = d
      /\ \A u \in Threads \ {t} : fn'[u] = fn[u] /\ pc'[u] = pc[u] /\ file'[u] = file[u]
  BY Zenon DEF TypeOK, ProxyType, ApiType, InFn, InProxy
<1>2. None \notin FileFunctions /\ None # "hdfsConnect" /\ d # None BY FunctionNames,
   Zenon DEF None
<1>3. fn[t] \notin FileFunctions \cup {None, "hdfsConnect"} BY FunctionNames, Zenon
<1>4. handle # None /\ handle # "connecting" BY <1>3, Zenon DEF OwnerInv
<1>5. "handle" # t BY HdfsClientAssumption, Zenon
<1>6. implRefs # {} /\ namenodes # 0
  BY <1>4, Zenon DEF OwnerInv
<1> QED BY <1>1, <1>2, <1>4, <1>5, <1>6 DEF OwnerInv

\* hdfsDisconnect, while no other thread is in a function on the handle.
LEMMA DisconnectOwners ==
    ASSUME TypeOK, OwnerInv, NEW t \in Threads, handle = "connected", pc[t] = "idle",
           \A u \in Threads : fn[u] \in FileFunctions \cup {None},
           pc' = [pc EXCEPT ![t] = "returned"], handle' = None, dropRef("handle"),
           UNCHANGED <<fn, file>>
    PROVE  OwnerInv'
<1>1. \A u \in Threads : pc'[u] \in InFn <=> pc[u] \in InFn
  BY Zenon DEF TypeOK, ProxyType, InFn, InProxy
<1>2. "hdfsConnect" \notin FileFunctions \cup {None} /\ None # "connecting"
  BY FunctionNames, Zenon DEF None
<1>3. "handle" \notin Threads BY HdfsClientAssumption, Zenon
<1>4. "handle" \in implRefs BY Zenon DEF OwnerInv, None
<1>5. implRefs' = implRefs \ {"handle"} BY Zenon DEF dropRef
<1>6. implRefs' = {} <=> namenodes' = 0
  BY <1>4, Zenon DEF dropRef, OwnerInv
<1> QED BY <1>1, <1>2, <1>3, <1>5, <1>6 DEF OwnerInv

-----------------------------------------------------------------------------
(* The steps of the proxy.                                                 *)

LEMMA GetActiveNamenodeInv ==
    ASSUME IInv, NEW t \in Threads, getActiveNamenode(t), UNCHANGED apiVars
    PROVE  IInv' /\ SameChannels
<1> USE DEF IInv
<1>1. namenodes \in 1..2
  BY ProxyOpen, Zenon DEF getActiveNamenode, InFn, InProxy
<1>2. /\ pc[t] = "active" /\ pc' = [pc EXCEPT ![t] = "channel"]
      /\ server' = [server EXCEPT ![t] = currentNamenode % namenodes]
      /\ UNCHANGED <<namenodes, currentNamenode, method, path, exc, name, executed, lost,
                     allChannels, refs>>
  BY <1>1 DEF getActiveNamenode, rpcVars
<1>3. UNCHANGED <<handle, implRefs, file, fn, arg, todo, ret>>
  BY Zenon DEF apiVars
<1>4. (currentNamenode % namenodes) \in Servers
  BY <1>1, HdfsClientAssumption DEF TypeOK, ProxyType
<1>5. TypeOK'
  BY <1>2, <1>3, <1>4, Zenon DEF TypeOK, ProxyType, ApiType, InProxy
<1>6. TryInv(t)' /\ PathInv(t)'
  <2>1. TryInv(t) /\ PathInv(t) BY Zenon DEF CallInv
  <2>2. pc'[t] = "channel" BY <1>2, Zenon DEF TypeOK, ProxyType
  <2>3. TryInv(t)' BY <1>2, <1>3, <2>1, <2>2, Zenon DEF TryInv, InProxy
  <2>4. PathInv(t)' BY <1>2, <1>3, <2>1, Zenon DEF PathInv
  <2> QED BY <2>3, <2>4
<1>7. \A u \in Threads \ {t} : SameCall(u)
  BY <1>2, <1>3, Zenon DEF SameCall, TypeOK, ProxyType
<1>8. SameOwners
  BY <1>2, <1>3 DEF SameOwners, TypeOK, ProxyType, InFn, InProxy
<1>9. SameChannels
  BY <1>2, SMTT(30) DEF SameChannels, TypeOK, ProxyType, OnChannel
<1> QED BY <1>5, <1>6, <1>7, <1>8, <1>9, OneCallInv, SameOwnersInv

LEMMA RetryLoopInv ==
    ASSUME IInv, NEW t \in Threads, retryLoop(t), UNCHANGED apiVars
    PROVE  IInv' /\ SameChannels
<1> USE DEF IInv
<1>1. /\ pc[t] = "decide" /\ pc' = [pc EXCEPT ![t] = pc'[t]]
      /\ exc' = [exc EXCEPT ![t] = exc'[t]]
      /\ \/ pc'[t] = "function" /\ exc'[t] = exc[t] /\ exc[t] \notin RetriedExceptions
         \/ /\ pc'[t] = "function" /\ exc[t] \in RetriedExceptions
            /\ exc'[t] \in {"NameNodeStandbyException", "HdfsRpcException"}
         \/ pc'[t] = "failover" /\ exc[t] \in RetriedExceptions /\ exc'[t] = NoException
  BY DEF retryLoop, TypeOK, ProxyType, RetriedExceptions, HandleHdfsFailoverException
<1>2. UNCHANGED <<namenodes, currentNamenode, method, path, server, name, executed, lost,
                  allChannels, refs>>
  BY Zenon DEF retryLoop, rpcVars
<1>3. UNCHANGED <<handle, implRefs, file, fn, arg, todo, ret>>
  BY DEF apiVars
<1>5. TypeOK'
  <2>1. exc'[t] \in Errors
    BY <1>1, Zenon DEF TypeOK, ProxyType, Errors, ReflexNames, NoException
  <2>2. pc'[t] \in InProxy \cup {"idle", "function", "returned"}
    BY <1>1 DEF InProxy
  <2> QED BY <1>1, <1>2, <1>3, <2>1, <2>2, SMTT(30) DEF TypeOK, ProxyType, ApiType
<1>6. TryInv(t)' /\ PathInv(t)'
  <2>1. TryInv(t) /\ PathInv(t) BY DEF CallInv
  <2>2. executed[t] \in Nat BY Zenon DEF TypeOK, ProxyType
  <2>3. TryInv(t)'
    BY <1>1, <1>2, <1>3, <2>1, <2>2, Zenon DEF TryInv, InProxy, NoException
  <2>4. PathInv(t)' BY <1>2, <1>3, <2>1, Zenon DEF PathInv
  <2> QED BY <2>3, <2>4
<1>7. \A u \in Threads \ {t} : SameCall(u)
  BY <1>1, <1>2, <1>3 DEF SameCall, TypeOK, ProxyType
<1>8. SameOwners
  BY <1>1, <1>2, <1>3, SMTT(30) DEF SameOwners, TypeOK, ProxyType, InFn, InProxy
<1>9. SameChannels
  BY <1>1, <1>2 DEF SameChannels, TypeOK, ProxyType, OnChannel
<1> QED BY <1>5, <1>6, <1>7, <1>8, <1>9, OneCallInv, SameOwnersInv

LEMMA FailoverInv ==
    ASSUME IInv, NEW t \in Threads, failoverToNextNamenode(t), UNCHANGED apiVars
    PROVE  IInv' /\ SameChannels
<1> USE DEF IInv
<1>1. namenodes \in 1..2
  BY ProxyOpen, Zenon DEF failoverToNextNamenode, InFn, InProxy
<1>2. /\ pc[t] = "failover" /\ pc' = [pc EXCEPT ![t] = "active"]
      /\ currentNamenode' \in {currentNamenode, (currentNamenode + 1) % namenodes}
      /\ UNCHANGED <<namenodes, method, path, server, exc, name, executed, lost,
                     allChannels, refs>>
  BY <1>1 DEF failoverToNextNamenode, rpcVars
<1>3. UNCHANGED <<handle, implRefs, file, fn, arg, todo, ret>>
  BY DEF apiVars
<1>4. currentNamenode' \in Nat
  BY <1>1, <1>2, SMTT(30) DEF TypeOK, ProxyType
<1>5. TypeOK'
  BY <1>2, <1>3, <1>4 DEF TypeOK, ProxyType, ApiType, InProxy
<1>6. TryInv(t)' /\ PathInv(t)'
  <2>1. TryInv(t) /\ PathInv(t) BY DEF CallInv
  <2>2. pc'[t] = "active" BY <1>2, Zenon DEF TypeOK, ProxyType
  <2>3. TryInv(t)' BY <1>2, <1>3, <2>1, <2>2, Zenon DEF TryInv, InProxy
  <2>4. PathInv(t)' BY <1>2, <1>3, <2>1, Zenon DEF PathInv
  <2> QED BY <2>3, <2>4
<1>7. \A u \in Threads \ {t} : SameCall(u)
  BY <1>2, <1>3, Zenon DEF SameCall, TypeOK, ProxyType
<1>8. SameOwners
  BY <1>2, <1>3 DEF SameOwners, TypeOK, ProxyType, InFn, InProxy
<1>9. SameChannels
  BY <1>2, Zenon DEF SameChannels, TypeOK, ProxyType, OnChannel
<1> QED BY <1>5, <1>6, <1>7, <1>8, <1>9, OneCallInv, SameOwnersInv

\* What comes out of a channel: only a call that took effect ends without an exception,
\* and of those that took effect only one that timed out is retried.
RpcOutcome(t, e, n, effect) ==
    /\ rpcEnds(t, e, n, effect)
    /\ e = NoException => effect
    /\ e \in RetriedExceptions /\ effect => e = "HdfsFailoverException"

SomeOutcome(t) ==
    \E e \in Errors, n \in ReflexNames \cup {NoException}, effect \in BOOLEAN :
        RpcOutcome(t, e, n, effect)

LEMMA RpcOutcomes ==
    ASSUME TypeOK, NEW t \in Threads, rpcInvoke(t), method[t] \in ProxyMethods
    PROVE  SomeOutcome(t)
<1>1. ASSUME NEW e \in Errors, NEW n \in ReflexNames \cup {NoException}, NEW effect \in BOOLEAN,
             rpcEnds(t, e, n, effect), e = NoException => effect,
             e \in RetriedExceptions /\ effect => e = "HdfsFailoverException"
      PROVE  SomeOutcome(t)
  <2>1. RpcOutcome(t, e, n, effect) BY <1>1 DEF RpcOutcome
  <2> QED BY <2>1, Zenon DEF SomeOutcome
<1>2. Methods[method[t]].empty \in {NoException, "HdfsIOException", "FileNotFoundException"}
  BY MethodsSound DEF AllSound, Sound
<1>3. CASE rpcEnds(t, NoException, NoException, TRUE)
  BY <1>1, <1>3, Zenon DEF Errors, RetriedExceptions, NoException
<1>4. CASE \E n \in ReflexNames \ {"NameNodeStandbyException"} :
              rpcEnds(t, HandlerRpcResponseException(n), n, FALSE)
  <2>1. PICK n \in ReflexNames \ {"NameNodeStandbyException"} :
              rpcEnds(t, HandlerRpcResponseException(n), n, FALSE)
    BY <1>4, Zenon
  <2>2. HandlerRpcResponseException(n) \in Errors \ {NoException}
    BY DEF HandlerRpcResponseException, Errors, ReflexNames, NoException
  <2> QED BY <1>1, <2>1, <2>2, Zenon
<1>5. CASE /\ Methods[method[t]].empty # NoException
           /\ \E effect \in BOOLEAN : rpcEnds(t, Methods[method[t]].empty, NoException, effect)
  <2>1. PICK effect \in BOOLEAN : rpcEnds(t, Methods[method[t]].empty, NoException, effect)
    BY <1>5, Zenon
  <2>2. /\ Methods[method[t]].empty \in Errors /\ Methods[method[t]].empty # NoException
        /\ Methods[method[t]].empty \notin RetriedExceptions
    BY <1>2, <1>5 DEF Errors, ReflexNames, NoException, RetriedExceptions
  <2> QED BY <1>1, <2>1, <2>2, Zenon
<1>6. CASE rpcEnds(t, HandlerRpcResponseException("NameNodeStandbyException"), NoException, FALSE)
  <2>1. HandlerRpcResponseException("NameNodeStandbyException") \in Errors \ {NoException}
    BY Zenon DEF HandlerRpcResponseException, Errors, ReflexNames, NoException
  <2> QED BY <1>1, <1>6, <2>1, Zenon
<1>7. CASE \E e \in {"HdfsFailoverException", "HdfsRpcException"}, effect \in BOOLEAN :
              /\ effect => active = server[t]
              /\ rpcEnds(t, e, NoException, effect)
  <2>1. PICK e \in {"HdfsFailoverException", "HdfsRpcException"}, effect \in BOOLEAN :
              rpcEnds(t, e, NoException, effect)
    BY <1>7, Zenon
  <2>2. /\ e \in Errors /\ e # NoException
        /\ e \in RetriedExceptions => e = "HdfsFailoverException"
    BY Zenon DEF Errors, NoException, RetriedExceptions
  <2> QED BY <1>1, <2>1, <2>2
<1>8. CASE \E effect \in BOOLEAN : rpcEnds(t, "HdfsRpcException", NoException,
                                            effect /\ active = server[t])
  <2>1. PICK effect \in BOOLEAN : rpcEnds(t, "HdfsRpcException", NoException,
                                          effect /\ active = server[t])
    BY <1>8, Zenon
  <2>2. (effect /\ active = server[t]) \in BOOLEAN
    BY Zenon
  <2>3. /\ "HdfsRpcException" \in Errors /\ "HdfsRpcException" # NoException
        /\ "HdfsRpcException" \notin RetriedExceptions
    BY Zenon DEF Errors, NoException, RetriedExceptions
  <2> QED BY <1>1, <2>1, <2>2, <2>3, Zenon
<1>9. \/ rpcEnds(t, NoException, NoException, TRUE)
      \/ \E n \in ReflexNames \ {"NameNodeStandbyException"} :
            rpcEnds(t, HandlerRpcResponseException(n), n, FALSE)
      \/ /\ Methods[method[t]].empty # NoException
         /\ \E effect \in BOOLEAN : rpcEnds(t, Methods[method[t]].empty, NoException, effect)
      \/ rpcEnds(t, HandlerRpcResponseException("NameNodeStandbyException"), NoException, FALSE)
      \/ \E e \in {"HdfsFailoverException", "HdfsRpcException"}, effect \in BOOLEAN :
            /\ effect => active = server[t]
            /\ rpcEnds(t, e, NoException, effect)
      \/ \E effect \in BOOLEAN : rpcEnds(t, "HdfsRpcException", NoException,
                                         effect /\ active = server[t])
  BY Zenon DEF rpcInvoke
<1> QED
  BY <1>3, <1>4, <1>5, <1>6, <1>7, <1>8, <1>9, Zenon

LEMMA RpcInvokeInv ==
    ASSUME IInv, NEW t \in Threads, rpcInvoke(t), UNCHANGED apiVars
    PROVE  IInv' /\ SameChannels
<1> USE DEF IInv
<1>1. TryInv(t) /\ PathInv(t) BY DEF CallInv
<1>2. pc[t] = "invoke" BY Zenon DEF rpcInvoke
<1>3. method[t] \in ProxyMethods
  BY <1>1, <1>2 DEF TypeOK, ProxyType, TryInv, InProxy
<1>4. PICK e \in Errors, n \in ReflexNames \cup {NoException}, effect \in BOOLEAN :
              RpcOutcome(t, e, n, effect)
  BY <1>3, RpcOutcomes, Zenon DEF SomeOutcome
<1>5. UNCHANGED <<namenodes, currentNamenode, method, path, server, allChannels, refs>>
  BY Zenon DEF rpcInvoke, rpcVars
<1>6. UNCHANGED <<handle, implRefs, file, fn, arg, todo, ret>>
  BY Zenon DEF apiVars
<1>7. /\ pc' = [pc EXCEPT ![t] = "release"] /\ exc' = [exc EXCEPT ![t] = e]
      /\ name' = [name EXCEPT ![t] = n]
      /\ executed' = [executed EXCEPT ![t] = executed[t] + (IF effect THEN 1 ELSE 0)]
      /\ lost' = [lost EXCEPT ![t] = lost[t] \/ (effect /\ e = "HdfsFailoverException")]
  BY <1>4, Zenon DEF RpcOutcome, rpcEnds
<1>8. TypeOK'
  <2>1. executed' \in [Threads -> Nat]
    BY <1>7 DEF TypeOK, ProxyType
  <2>2. lost' \in [Threads -> BOOLEAN]
    BY <1>7, Zenon DEF TypeOK, ProxyType
  <2> QED BY <1>5, <1>6, <1>7, <2>1, <2>2 DEF TypeOK, ProxyType, ApiType, InProxy
<1>9. TryInv(t)' /\ PathInv(t)'
  <2>1. executed[t] \in Nat /\ pc'[t] = "release" /\ exc'[t] = e
    BY <1>7, Zenon DEF TypeOK, ProxyType
  <2>2. executed'[t] = executed[t] + (IF effect THEN 1 ELSE 0)
    BY <1>7, Zenon DEF TypeOK, ProxyType
  <2>3. lost'[t] = (lost[t] \/ (effect /\ e = "HdfsFailoverException"))
    BY <1>7, Zenon DEF TypeOK, ProxyType
  <2>5. executed[t] > 0 => lost[t] BY <1>1, <1>2, Zenon DEF TryInv
  <2>6. /\ e = NoException => effect
        /\ e \in RetriedExceptions /\ effect => e = "HdfsFailoverException"
    BY <1>4, Zenon DEF RpcOutcome
  <2>7. /\ executed'[t] > 1 => lost'[t]
        /\ e = NoException => executed'[t] > 0
        /\ e \in RetriedExceptions /\ executed'[t] > 0 => lost'[t]
    <3>1. CASE effect
      <4>1. executed'[t] > 0 /\ (executed'[t] > 1 => executed[t] > 0) BY <2>1, <2>2, <3>1
      <4> QED BY <2>3, <2>5, <2>6, <3>1, <4>1, Zenon
    <3>2. CASE ~effect
      <4>1. executed'[t] > 1 => executed[t] > 0 BY <2>1, <2>2, <3>2
      <4>2. executed'[t] > 0 => executed[t] > 0 BY <2>1, <2>2, <3>2
      <4> QED BY <2>3, <2>5, <2>6, <3>2, <4>1, <4>2, Zenon
    <3> QED BY <3>1, <3>2
  <2>8. TryInv(t)'
    BY <1>1, <1>2, <1>5, <2>1, <2>7, Zenon DEF TryInv, InProxy
  <2>9. PathInv(t)' BY <1>1, <1>5, <1>6, Zenon DEF PathInv
  <2> QED BY <2>8, <2>9, Zenon
<1>10. \A u \in Threads \ {t} : SameCall(u)
  BY <1>5, <1>6, <1>7, Zenon DEF SameCall, TypeOK, ProxyType
<1>11. SameOwners
  BY <1>2, <1>5, <1>6, <1>7, SMTT(30) DEF SameOwners, TypeOK, ProxyType, InFn, InProxy
<1>12. SameChannels
  BY <1>2, <1>5, <1>7 DEF SameChannels, TypeOK, ProxyType, OnChannel
<1> QED BY <1>8, <1>9, <1>10, <1>11, <1>12, OneCallInv, SameOwnersInv, SMTT(30)

LEMMA TakeChannelInv ==
    ASSUME IInv, NEW t \in Threads, takeChannel(t), UNCHANGED apiVars
    PROVE  IInv' /\ (SameChannels \/ TakesChannel(t))
<1> USE DEF IInv
<1>1. UNCHANGED <<namenodes, currentNamenode, method, path, server, name, executed, lost>>
  BY Zenon DEF takeChannel
<1>2. UNCHANGED <<handle, implRefs, file, fn, arg, todo, ret>>
  BY DEF apiVars
<1>3. pc[t] = "channel" BY Zenon DEF takeChannel
<1>4. /\ pc' = [pc EXCEPT ![t] = pc'[t]] /\ exc' = [exc EXCEPT ![t] = exc'[t]]
      /\ \/ /\ getChannel(server[t]) /\ pc' = [pc EXCEPT ![t] = "invoke"]
            /\ pc'[t] = "invoke" /\ exc'[t] = exc[t]
         \/ /\ allChannels' = allChannels /\ refs' = refs
            /\ pc'[t] = "decide" /\ exc'[t] = "HdfsRpcException"
  BY DEF takeChannel, getChannelFails, rpcVars, TypeOK, ProxyType
<1>5. SameChannels \/ TakesChannel(t)
  <2>1. CASE getChannel(server[t]) /\ pc' = [pc EXCEPT ![t] = "invoke"]
    BY <1>1, <1>3, <2>1, Zenon DEF TakesChannel
  <2>2. CASE allChannels' = allChannels /\ refs' = refs /\ pc'[t] = "decide"
    BY <1>1, <1>3, <1>4, <2>2, SMTT(30) DEF SameChannels, TypeOK, ProxyType, OnChannel
  <2> QED BY <1>4, <2>1, <2>2, Zenon
<1>6. TypeOK'
  <2>1. exc'[t] \in Errors
    BY <1>4, Zenon DEF TypeOK, ProxyType, Errors
  <2>2. pc'[t] \in InProxy
    BY <1>4, Zenon DEF InProxy
  <2> QED BY <1>1, <1>2, <1>4, <2>1, <2>2, SMTT(30) DEF TypeOK, ProxyType, ApiType
<1>7. TryInv(t)' /\ PathInv(t)'
  <2>1. TryInv(t) /\ PathInv(t) BY DEF CallInv
  <2>2. "HdfsRpcException" \notin RetriedExceptions \cup {NoException}
    BY Zenon DEF RetriedExceptions, NoException
  <2>3. TryInv(t)'
    BY <1>1, <1>2, <1>3, <1>4, <2>1, <2>2, Zenon DEF TryInv, InProxy
  <2>4. PathInv(t)' BY <1>1, <1>2, <2>1, Zenon DEF PathInv
  <2> QED BY <2>3, <2>4
<1>8. \A u \in Threads \ {t} : SameCall(u)
  BY <1>1, <1>2, <1>4, Zenon DEF SameCall, TypeOK, ProxyType
<1>9. SameOwners
  BY <1>1, <1>2, <1>3, <1>4 DEF SameOwners, TypeOK, ProxyType, InFn, InProxy
<1> QED BY <1>5, <1>6, <1>7, <1>8, <1>9, OneCallInv, SameOwnersInv, SMTT(30)

LEMMA GiveChannelBackInv ==
    ASSUME IInv, NEW t \in Threads, giveChannelBack(t), UNCHANGED apiVars
    PROVE  IInv' /\ GivesChannelBack(t)
<1> USE DEF IInv
<1>1. UNCHANGED <<namenodes, currentNamenode, method, path, server, name, executed, lost>>
  BY Zenon DEF giveChannelBack
<1>2. UNCHANGED <<handle, implRefs, file, fn, arg, todo, ret>>
  BY DEF apiVars
<1>3. /\ pc[t] = "release" /\ pc' = [pc EXCEPT ![t] = "decide"]
      /\ exc' = [exc EXCEPT ![t] = MethodException(method[t], exc[t], name[t])]
  BY Zenon DEF giveChannelBack
<1>4. TryInv(t) /\ PathInv(t) BY Zenon DEF CallInv
<1>5. method[t] \in ProxyMethods
  BY <1>3, <1>4, Zenon DEF TypeOK, ProxyType, TryInv, InProxy
<1>6. exc'[t] = exc[t] \/ exc'[t] \in ReflexNames \ RetriedExceptions
  <2>1. Sound(Methods[method[t]]) BY <1>5, MethodsSound, Zenon DEF AllSound
  <2>2. exc'[t] = MethodException(method[t], exc[t], name[t])
    BY <1>3, Zenon DEF TypeOK, ProxyType
  <2>3. CASE exc[t] # "HdfsRpcServerException"
    BY <2>2, <2>3 DEF MethodException
  <2>4. CASE exc[t] = "HdfsRpcServerException"
    <3>1. exc'[t] \in Methods[method[t]].throws \cup {"HdfsIOException"}
      BY <2>2, <2>4, Zenon DEF MethodException, unwrap
    <3>2. "HdfsIOException" \in ReflexNames \ RetriedExceptions
      BY Zenon DEF ReflexNames, RetriedExceptions
    <3> QED BY <2>1, <3>1, <3>2, Zenon DEF Sound
  <2> QED BY <2>3, <2>4, Zenon
<1>7. GivesChannelBack(t)
  <2>1. releaseChannel(server[t]) BY Zenon DEF giveChannelBack
  <2> QED BY <1>1, <1>3, <2>1 DEF GivesChannelBack
<1>8. TypeOK'
  <2>1. exc'[t] \in Errors
    BY <1>6, Zenon DEF TypeOK, ProxyType, Errors
  <2>2. exc' = [exc EXCEPT ![t] = exc'[t]]
    BY <1>3 DEF TypeOK, ProxyType
  <2> QED BY <1>1, <1>2, <1>3, <2>1, <2>2 DEF TypeOK, ProxyType, ApiType, InProxy
<1>9. TryInv(t)' /\ PathInv(t)'
  <2>1. NoException \notin ReflexNames BY Zenon DEF NoException, ReflexNames
  <2>2. pc'[t] = "decide" BY <1>3, Zenon DEF TypeOK, ProxyType
  <2>3. TryInv(t)'
    BY <1>1, <1>2, <1>3, <1>4, <1>6, <2>1, <2>2, Zenon DEF TryInv, InProxy
  <2>4. PathInv(t)' BY <1>1, <1>2, <1>4, Zenon DEF PathInv
  <2> QED BY <2>3, <2>4
<1>10. \A u \in Threads \ {t} : SameCall(u)
  BY <1>1, <1>2, <1>3, Zenon DEF SameCall, TypeOK, ProxyType
<1>11. SameOwners
  BY <1>1, <1>2, <1>3, Zenon DEF SameOwners, TypeOK, ProxyType, InFn, InProxy
<1> QED BY <1>7, <1>8, <1>9, <1>10, <1>11, OneCallInv, SameOwnersInv, SMTT(30)

-----------------------------------------------------------------------------
(* The failover.  The invariant says who is going to move currentNamenode  *)
(* away from where, before a disturbance (a fault or a switch of the       *)
(* active namenode) and after one.                                         *)

\* A try that has looked currentNamenode up.
Trying == {"channel", "invoke", "release", "decide", "failover"}

\* It is going to move currentNamenode on from what it looked up ...
Doubt(t) ==
    \/ pc[t] = "failover"
    \/ pc[t] \in {"release", "decide"} /\ exc[t] \in RetriedExceptions

\* ... which is the active namenode, so that it moves away from it.
Wrong(t) == Doubt(t) /\ oldValue[t] = active

NobodyWrong == \A x \in Threads : ~Wrong(x)
AtActive(u) == oldValue[u] = active /\ ~Doubt(u)

FailoverType ==
    /\ currentNamenode \in 0..1 /\ active \in 0..1
    /\ oldValue \in [Threads -> 0..1] /\ count \in [Threads -> Nat]
    /\ calm \in [Threads -> BOOLEAN] /\ faults \in Nat /\ switches \in Nat

\* A proxy of two namenodes has HA on.  Its try goes to the namenode it looked up, and
\* nobody else moves currentNamenode while hdfsConnect runs.  No exception is left over.
LookupInv ==
    /\ namenodes # 0 => (enableNamenodeHA <=> namenodes = 2)
    /\ \A t \in Threads :
          /\ pc[t] \in Trying /\ namenodes = 2 => server[t] = oldValue[t]
          /\ pc[t] \in Trying /\ handle = "connecting" => oldValue[t] = currentNamenode
          /\ pc[t] = "idle" => exc[t] = NoException

Quiet == faults = 0 /\ switches = 0

\* Before anything is disturbed a call that ended well was at the active namenode; once
\* hdfsConnect has found it everybody is there.
QuietInv ==
    /\ NobodyWrong
    /\ handle # "connecting" =>
          /\ currentNamenode = active
          /\ \A u \in Threads : pc[u] \in Trying => AtActive(u)
    /\ \A t \in Threads :
          /\ pc[t] \in {"release", "decide"} /\ exc[t] = NoException => oldValue[t] = active
          /\ (/\ pc[t] = "function" /\ fn[t] = "hdfsConnect" /\ todo[t] = <<>>
              /\ exc[t] = NoException) => currentNamenode = active

\* One disturbance lets one thread at most leave the active namenode, when all the others
\* are there.
WrongInv ==
    \A x \in Threads : Wrong(x) =>
        /\ ~calm[x] /\ currentNamenode = active
        /\ \A u \in Threads \ {x} : pc[u] \in Trying => AtActive(u)

\* A call that nothing disturbed and that tries again finds the active namenode.
CalmInv ==
    \A u \in Threads : calm[u] =>
        /\ count[u] # 0 /\ pc[u] \in Trying \cup {"active"} => NobodyWrong
        /\ count[u] # 0 /\ pc[u] = "active" => currentNamenode = active
        /\ count[u] # 0 /\ pc[u] \in Trying /\ pc[u] # "failover" => AtActive(u)
        /\ pc[u] = "function" => exc[u] # "NameNodeStandbyException"

Settled == (Quiet => QuietInv) /\ WrongInv /\ CalmInv

FewDisturbances == namenodes = 2 /\ faults + switches <= 1

FailoverInvariant ==
    /\ FailoverType /\ LookupInv
    /\ FewDisturbances => Settled

-----------------------------------------------------------------------------
(* The failover: what steps have in common.                                *)

SameTry(u) ==
    /\ pc'[u] = pc[u] /\ oldValue'[u] = oldValue[u] /\ server'[u] = server[u]
    /\ count'[u] = count[u] /\ calm'[u] = calm[u] /\ exc'[u] = exc[u]
    /\ fn'[u] = fn[u] /\ todo'[u] = todo[u]

LEMMA SameTryKept ==
    ASSUME NEW u, SameTry(u), active' = active
    PROVE  (Doubt(u)' <=> Doubt(u)) /\ (Wrong(u)' <=> Wrong(u)) /\ (AtActive(u)' <=> AtActive(u))
BY Zenon DEF SameTry, Doubt, Wrong, AtActive

\* A step of the proxy leaves alone what is not of its thread.
ProxyFrame(t) ==
    /\ UNCHANGED <<namenodes, enableNamenodeHA, active, switches, handle, fn, todo>>
    /\ \A u \in Threads \ {t} : SameTry(u)

\* A step after which its thread is not going to move currentNamenode.
TidyStep(t) ==
    /\ ProxyFrame(t) /\ UNCHANGED <<currentNamenode, faults>> /\ calm'[t] = calm[t]
    /\ pc[t] \in Trying \cup {"active"} /\ pc[t] # "failover"
    /\ pc'[t] \in {"channel", "invoke", "release", "decide", "function"}
    /\ pc'[t] # "function" =>
          /\ count'[t] = count[t]
          /\ pc[t] = "active" => oldValue'[t] = currentNamenode
          /\ pc[t] # "active" => oldValue'[t] = oldValue[t]
          /\ namenodes = 2 => server'[t] = oldValue'[t]
    /\ ~Doubt(t)'

\* What is true of it when the call ends well, or without a namenode.
TidyEnd(t) ==
    /\ Quiet /\ pc'[t] \in {"release", "decide"} /\ exc'[t] = NoException => oldValue'[t] = active
    /\ Quiet /\ pc'[t] = "function" /\ fn[t] = "hdfsConnect" /\ exc'[t] = NoException
          => currentNamenode = active
    /\ pc'[t] = "function" /\ calm[t] => exc'[t] # "NameNodeStandbyException"

LEMMA TidyInv ==
    ASSUME FailoverInvariant, NEW t \in Threads, TidyStep(t), FailoverType',
           FewDisturbances => TidyEnd(t)
    PROVE  FailoverInvariant'
<1>0. ProxyFrame(t) BY Zenon DEF TidyStep
<1>1. /\ namenodes' = namenodes /\ enableNamenodeHA' = enableNamenodeHA /\ active' = active
      /\ switches' = switches /\ handle' = handle /\ fn' = fn /\ todo' = todo
      /\ currentNamenode' = currentNamenode /\ faults' = faults
  BY <1>0, Zenon DEF TidyStep, ProxyFrame
<1>2. \A u \in Threads \ {t} : SameTry(u)
  BY <1>0, Zenon DEF ProxyFrame
<1>3. \A u \in Threads \ {t} : /\ Doubt(u)' <=> Doubt(u)
                               /\ Wrong(u)' <=> Wrong(u)
                               /\ AtActive(u)' <=> AtActive(u)
  BY <1>1, <1>2, SameTryKept, Zenon
<1>4. ~Doubt(t)' /\ ~Wrong(t)'
  BY Zenon DEF TidyStep, Wrong
<1>5. \A u \in Threads \ {t} : Wrong(u)' <=> Wrong(u)
  BY <1>3, Zenon
<1>6. NobodyWrong => NobodyWrong'
  BY <1>4, <1>5, Zenon DEF NobodyWrong
<1>7. LookupInv'
  <2>1. LookupInv BY Zenon DEF FailoverInvariant
  <2>2. namenodes' # 0 => (enableNamenodeHA' <=> namenodes' = 2)
    BY <1>1, <2>1, Zenon DEF LookupInv
  <2>3. ASSUME NEW u \in Threads, u # t
        PROVE  /\ pc'[u] \in Trying /\ namenodes' = 2 => server'[u] = oldValue'[u]
               /\ pc'[u] \in Trying /\ handle' = "connecting" => oldValue'[u] = currentNamenode'
               /\ pc'[u] = "idle" => exc'[u] = NoException
    <3>1. SameTry(u) BY <1>2, <2>3, Zenon
    <3> QED BY <1>1, <2>1, <3>1, Zenon DEF LookupInv, SameTry
  <2>4. /\ pc'[t] \in Trying /\ namenodes' = 2 => server'[t] = oldValue'[t]
        /\ pc'[t] \in Trying /\ handle' = "connecting" => oldValue'[t] = currentNamenode'
        /\ pc'[t] # "idle"
    BY <1>1, <2>1, Zenon DEF LookupInv, TidyStep, Trying
  <2> QED BY <2>2, <2>3, <2>4, Zenon DEF LookupInv
<1>8. ASSUME FewDisturbances' PROVE Settled'
  <2>1. FewDisturbances BY <1>1, <1>8, Zenon DEF FewDisturbances
  <2>2. Settled /\ TidyEnd(t) BY <2>1, Zenon DEF FailoverInvariant
  <2>3. ASSUME Quiet' PROVE QuietInv'
    <3>1. Quiet BY <1>1, <2>3, Zenon DEF Quiet
    <3>2. QuietInv BY <2>2, <3>1, Zenon DEF Settled
    <3>3. NobodyWrong' BY <1>6, <3>2, Zenon DEF QuietInv
    <3>4. handle' # "connecting" => currentNamenode' = active'
      BY <1>1, <3>2, Zenon DEF QuietInv
    <3>5. ASSUME NEW u \in Threads, handle' # "connecting", pc'[u] \in Trying
          PROVE  AtActive(u)'
      <4>1. CASE u # t
        BY <1>1, <1>2, <1>3, <3>2, <3>5, <4>1, Zenon DEF QuietInv, SameTry
      <4>2. CASE u = t
        <5>1. oldValue'[t] = active
          BY <1>1, <3>2, <3>5, <4>2, Zenon DEF QuietInv, TidyStep, Trying, AtActive
        <5> QED BY <1>1, <1>4, <4>2, <5>1, Zenon DEF AtActive
      <4> QED BY <4>1, <4>2, Zenon
    <3>6. ASSUME NEW u \in Threads
          PROVE  /\ pc'[u] \in {"release", "decide"} /\ exc'[u] = NoException
                       => oldValue'[u] = active'
                 /\ (/\ pc'[u] = "function" /\ fn'[u] = "hdfsConnect" /\ todo'[u] = <<>>
                     /\ exc'[u] = NoException) => currentNamenode' = active'
      <4>1. CASE u # t
        <5>1. SameTry(u) BY <1>2, <4>1, Zenon
        <5> QED BY <1>1, <3>2, <5>1, Zenon DEF QuietInv, SameTry
      <4>2. CASE u = t
        BY <1>1, <2>2, <3>1, <4>2, Zenon DEF TidyEnd
      <4> QED BY <4>1, <4>2, Zenon
    <3> QED BY <3>3, <3>4, <3>5, <3>6, Zenon DEF QuietInv
  <2>4. WrongInv'
    <3> SUFFICES ASSUME NEW x \in Threads, Wrong(x)'
                 PROVE  /\ ~calm'[x] /\ currentNamenode' = active'
                        /\ \A u \in Threads \ {x} : pc'[u] \in Trying => AtActive(u)'
      BY Zenon DEF WrongInv
    <3>1. x # t /\ Wrong(x) BY <1>4, <1>5, Zenon
    <3>2. ~calm[x] /\ currentNamenode = active
      BY <2>2, <3>1, Zenon DEF Settled, WrongInv
    <3>3. \A u \in Threads \ {x} : pc[u] \in Trying => AtActive(u)
      BY <2>2, <3>1, Zenon DEF Settled, WrongInv
    <3>4. ~calm'[x] /\ currentNamenode' = active'
      BY <1>1, <1>2, <3>1, <3>2, Zenon DEF SameTry
    <3>5. ASSUME NEW u \in Threads \ {x}, u # t, pc'[u] \in Trying PROVE AtActive(u)'
      BY <1>2, <1>3, <3>3, <3>5, Zenon DEF SameTry
    <3>6. ASSUME pc'[t] \in Trying PROVE AtActive(t)'
      <4>1. oldValue'[t] = active
        BY <3>1, <3>2, <3>3, <3>6, Zenon DEF TidyStep, Trying, AtActive
      <4> QED BY <1>1, <1>4, <4>1, Zenon DEF AtActive
    <3> QED BY <3>4, <3>5, <3>6, Zenon
  <2>5. CalmInv'
    <3> SUFFICES ASSUME NEW u \in Threads, calm'[u]
                 PROVE  /\ count'[u] # 0 /\ pc'[u] \in Trying \cup {"active"} => NobodyWrong'
                        /\ count'[u] # 0 /\ pc'[u] = "active" => currentNamenode' = active'
                        /\ count'[u] # 0 /\ pc'[u] \in Trying /\ pc'[u] # "failover" => AtActive(u)'
                        /\ pc'[u] = "function" => exc'[u] # "NameNodeStandbyException"
      BY Zenon DEF CalmInv
    <3>1. CASE u # t
      <4>1. SameTry(u) BY <1>2, <3>1, Zenon
      <4> QED BY <1>1, <1>3, <1>6, <2>2, <3>1, <4>1, Zenon DEF Settled, CalmInv, SameTry
    <3>2. CASE u = t
      <4>1. calm[t] BY <3>2, Zenon DEF TidyStep
      <4>2. pc'[t] \in Trying /\ count'[t] # 0 => NobodyWrong
        BY <2>2, <4>1, Zenon DEF Settled, CalmInv, TidyStep, Trying
      <4>3. pc'[t] \in Trying /\ count'[t] # 0 => oldValue'[t] = active
        BY <2>2, <4>1, Zenon DEF Settled, CalmInv, TidyStep, Trying, AtActive
      <4>4. pc'[t] = "function" => exc'[t] # "NameNodeStandbyException"
        BY <2>2, <4>1, Zenon DEF TidyEnd
      <4>5. pc'[t] # "active" BY Zenon DEF TidyStep
      <4> QED BY <1>1, <1>4, <1>6, <3>2, <4>2, <4>3, <4>4, <4>5, Zenon DEF AtActive
    <3> QED BY <3>1, <3>2, Zenon
  <2> QED BY <2>3, <2>4, <2>5, Zenon DEF Settled
<1> QED BY <1>7, <1>8, Zenon DEF FailoverInvariant

\* A step after which its thread is going to move currentNamenode away from a namenode that
\* is not the active one, or was going to before.
DoubtStep(t) ==
    /\ ProxyFrame(t) /\ UNCHANGED <<currentNamenode, faults>> /\ calm'[t] = calm[t]
    /\ pc[t] \in {"invoke", "release", "decide"} /\ pc'[t] \in {"release", "decide", "failover"}
    /\ oldValue'[t] = oldValue[t] /\ server'[t] = server[t]
    /\ pc'[t] # "failover" => count'[t] = count[t] /\ exc'[t] # NoException

LEMMA DoubtInv ==
    ASSUME FailoverInvariant, NEW t \in Threads, DoubtStep(t), FailoverType',
           FewDisturbances => ~AtActive(t) /\ (Wrong(t)' => Wrong(t))
    PROVE  FailoverInvariant'
<1>0. ProxyFrame(t) BY Zenon DEF DoubtStep
<1>1. /\ namenodes' = namenodes /\ enableNamenodeHA' = enableNamenodeHA /\ active' = active
      /\ switches' = switches /\ handle' = handle /\ fn' = fn /\ todo' = todo
      /\ currentNamenode' = currentNamenode /\ faults' = faults
  BY <1>0, Zenon DEF DoubtStep, ProxyFrame
<1>2. \A u \in Threads \ {t} : SameTry(u)
  BY <1>0, Zenon DEF ProxyFrame
<1>3. \A u \in Threads \ {t} : /\ Doubt(u)' <=> Doubt(u)
                               /\ Wrong(u)' <=> Wrong(u)
                               /\ AtActive(u)' <=> AtActive(u)
  BY <1>1, <1>2, SameTryKept, Zenon
<1>4. LookupInv'
  <2>1. LookupInv BY Zenon DEF FailoverInvariant
  <2>2. namenodes' # 0 => (enableNamenodeHA' <=> namenodes' = 2)
    BY <1>1, <2>1, Zenon DEF LookupInv
  <2>3. ASSUME NEW u \in Threads, u # t
        PROVE  /\ pc'[u] \in Trying /\ namenodes' = 2 => server'[u] = oldValue'[u]
               /\ pc'[u] \in Trying /\ handle' = "connecting" => oldValue'[u] = currentNamenode'
               /\ pc'[u] = "idle" => exc'[u] = NoException
    <3>1. SameTry(u) BY <1>2, <2>3, Zenon
    <3> QED BY <1>1, <2>1, <3>1, Zenon DEF LookupInv, SameTry
  <2>4. /\ pc'[t] \in Trying /\ namenodes' = 2 => server'[t] = oldValue'[t]
        /\ pc'[t] \in Trying /\ handle' = "connecting" => oldValue'[t] = currentNamenode'
        /\ pc'[t] # "idle"
    BY <1>1, <2>1, Zenon DEF LookupInv, DoubtStep, Trying
  <2> QED BY <2>2, <2>3, <2>4, Zenon DEF LookupInv
<1>5. ASSUME FewDisturbances' PROVE Settled'
  <2>1. FewDisturbances BY <1>1, <1>5, Zenon DEF FewDisturbances
  <2>2. Settled /\ ~AtActive(t) /\ (Wrong(t)' => Wrong(t))
    BY <2>1, Zenon DEF FailoverInvariant
  <2>3. \A x \in Threads : Wrong(x)' => Wrong(x)
    BY <1>3, <2>2, Zenon
  <2>4. NobodyWrong => NobodyWrong' BY <2>3, Zenon DEF NobodyWrong
  <2>5. pc[t] \in Trying BY Zenon DEF DoubtStep, Trying
  <2>6. ASSUME NEW x \in Threads, Wrong(x) PROVE x = t /\ ~calm[t] /\ currentNamenode = active
    BY <2>2, <2>5, <2>6, Zenon DEF Settled, WrongInv
  <2>7. ASSUME Quiet' PROVE QuietInv'
    <3>1. Quiet BY <1>1, <2>7, Zenon DEF Quiet
    <3>2. QuietInv BY <2>2, <3>1, Zenon DEF Settled
    <3>3. handle' = "connecting" BY <1>1, <2>2, <2>5, <3>2, Zenon DEF QuietInv
    <3>4. NobodyWrong' BY <2>4, <3>2, Zenon DEF QuietInv
    <3>5. ASSUME NEW u \in Threads
          PROVE  /\ pc'[u] \in {"release", "decide"} /\ exc'[u] = NoException
                       => oldValue'[u] = active'
                 /\ (/\ pc'[u] = "function" /\ fn'[u] = "hdfsConnect" /\ todo'[u] = <<>>
                     /\ exc'[u] = NoException) => currentNamenode' = active'
      <4>1. CASE u # t
        <5>1. SameTry(u) BY <1>2, <4>1, Zenon
        <5> QED BY <1>1, <3>2, <5>1, Zenon DEF QuietInv, SameTry
      <4>2. CASE u = t
        BY <4>2, Zenon DEF DoubtStep
      <4> QED BY <4>1, <4>2, Zenon
    <3> QED BY <3>3, <3>4, <3>5, Zenon DEF QuietInv
  <2>8. WrongInv'
    <3> SUFFICES ASSUME NEW x \in Threads, Wrong(x)'
                 PROVE  /\ ~calm'[x] /\ currentNamenode' = active'
                        /\ \A u \in Threads \ {x} : pc'[u] \in Trying => AtActive(u)'
      BY Zenon DEF WrongInv
    <3>1. Wrong(x) /\ x = t BY <2>3, <2>6, Zenon
    <3>2. ~calm'[x] /\ currentNamenode' = active'
      BY <1>1, <2>6, <3>1, Zenon DEF DoubtStep
    <3>3. \A u \in Threads \ {x} : pc[u] \in Trying => AtActive(u)
      BY <2>2, <3>1, Zenon DEF Settled, WrongInv
    <3> QED BY <1>2, <1>3, <3>1, <3>2, <3>3, Zenon DEF SameTry
  <2>9. CalmInv'
    <3> SUFFICES ASSUME NEW u \in Threads, calm'[u]
                 PROVE  /\ count'[u] # 0 /\ pc'[u] \in Trying \cup {"active"} => NobodyWrong'
                        /\ count'[u] # 0 /\ pc'[u] = "active" => currentNamenode' = active'
                        /\ count'[u] # 0 /\ pc'[u] \in Trying /\ pc'[u] # "failover" => AtActive(u)'
                        /\ pc'[u] = "function" => exc'[u] # "NameNodeStandbyException"
      BY Zenon DEF CalmInv
    <3>1. CASE u # t
      <4>1. SameTry(u) BY <1>2, <3>1, Zenon
      <4> QED BY <1>1, <1>3, <2>4, <2>2, <3>1, <4>1, Zenon DEF Settled, CalmInv, SameTry
    <3>2. CASE u = t
      <4>1. calm[t] BY <3>2, Zenon DEF DoubtStep
      <4>2. NobodyWrong' BY <2>4, <2>6, <4>1, Zenon DEF NobodyWrong
      <4>3. pc'[t] # "failover" => count'[t] = 0
        BY <2>2, <2>5, <4>1, Zenon DEF Settled, CalmInv, DoubtStep
      <4>4. pc'[t] \notin {"function", "active"} BY Zenon DEF DoubtStep
      <4> QED BY <3>2, <4>2, <4>3, <4>4, Zenon
    <3> QED BY <3>1, <3>2, Zenon
  <2> QED BY <2>7, <2>8, <2>9, Zenon DEF Settled
<1> QED BY <1>4, <1>5, Zenon DEF FailoverInvariant

-----------------------------------------------------------------------------
(* The failover: disturbances.                                             *)

\* While hdfsConnect runs no other thread is in a function.
LEMMA Alone ==
    ASSUME IInv, handle = "connecting", NEW t \in Threads, pc[t] \in InFn,
           NEW u \in Threads, u # t
    PROVE  pc[u] \notin InFn
<1>1. OwnerInv BY Zenon DEF IInv
<1>2. fn[t] = "hdfsConnect" BY <1>1, Zenon DEF OwnerInv
<1>3. fn[u] # "hdfsConnect" BY <1>1, <1>2, Zenon DEF OwnerInv
<1> QED BY <1>1, <1>3, Zenon DEF OwnerInv

LEMMA TryingInFn == \A p \in Trying : p \in InFn
BY Zenon DEF Trying, InFn, InProxy

\* The first disturbance finds everybody at the active namenode, or one thread alone.
LEMMA DisturbanceInv ==
    ASSUME IInv, FailoverInvariant, FailoverType', LookupInv',
           UNCHANGED <<namenodes, currentNamenode, handle, oldValue>>,
           calm' = [u \in Threads |-> FALSE],
           FewDisturbances' => FewDisturbances /\ Quiet /\ ~Quiet',
           QuietInv => \A x \in Threads : Wrong(x)' =>
               /\ pc'[x] \in Trying /\ pc[x] \in Trying
               /\ currentNamenode = active'
               /\ handle # "connecting" => \A u \in Threads \ {x} : pc'[u] \in Trying => AtActive(u)',
           \A u \in Threads : pc'[u] \in Trying <=> pc[u] \in Trying
    PROVE  FailoverInvariant'
<1> SUFFICES ASSUME FewDisturbances' PROVE Settled'
  BY Zenon DEF FailoverInvariant
<1>1. FewDisturbances /\ Quiet /\ ~Quiet' BY Zenon
<1>2. QuietInv BY <1>1, Zenon DEF FailoverInvariant, Settled
<1>3. CalmInv' BY Zenon DEF CalmInv
<1>4. WrongInv'
  <2> SUFFICES ASSUME NEW x \in Threads, Wrong(x)'
               PROVE  /\ ~calm'[x] /\ currentNamenode' = active'
                      /\ \A u \in Threads \ {x} : pc'[u] \in Trying => AtActive(u)'
    BY Zenon DEF WrongInv
  <2>1. ~calm'[x] /\ currentNamenode' = active' BY <1>2, Zenon
  <2>2. CASE handle # "connecting" BY <1>2, <2>1, <2>2, Zenon
  <2>3. CASE handle = "connecting"
    <3>1. pc[x] \in InFn BY <1>2, TryingInFn, Zenon
    <3>2. \A u \in Threads \ {x} : pc[u] \notin InFn BY <2>3, <3>1, Alone, Zenon
    <3>3. \A u \in Threads \ {x} : pc'[u] \notin Trying BY <3>2, TryingInFn, Zenon
    <3> QED BY <2>1, <3>3, Zenon
  <2> QED BY <2>2, <2>3, Zenon
<1> QED BY <1>1, <1>3, <1>4, Zenon DEF Settled

-----------------------------------------------------------------------------
(* The failover: the steps of a call inside of the proxy.                  *)

LEMMA GetActiveNamenodeFailover ==
    ASSUME IInv, FailoverInvariant, NEW t \in Threads, getActiveNamenode(t), UNCHANGED apiVars
    PROVE  FailoverInvariant'
<1> USE DEF IInv
<1>1. namenodes \in 1..2
  BY ProxyOpen, Zenon DEF getActiveNamenode, InFn, InProxy
<1>2. namenodes # 0 BY <1>1
<1>3. /\ pc[t] = "active" /\ pc' = [pc EXCEPT ![t] = "channel"]
      /\ server' = [server EXCEPT ![t] = currentNamenode % namenodes]
      /\ oldValue' = [oldValue EXCEPT ![t] = currentNamenode]
      /\ UNCHANGED <<namenodes, enableNamenodeHA, currentNamenode, count, exc, active, calm,
                     faults, switches>>
  BY <1>2, Zenon DEF getActiveNamenode, budget
<1>4. UNCHANGED <<handle, fn, todo>> BY Zenon DEF apiVars
<1>5. FailoverType BY Zenon DEF FailoverInvariant
<1>6. /\ pc'[t] = "channel" /\ oldValue'[t] = currentNamenode
      /\ server'[t] = currentNamenode % namenodes
  BY <1>3, <1>5, Zenon DEF TypeOK, ProxyType, FailoverType
<1>7. namenodes = 2 => server'[t] = oldValue'[t]
  BY <1>5, <1>6 DEF FailoverType
<1>8. FailoverType' BY <1>3, <1>5, Zenon DEF FailoverType
<1>9. \A u \in Threads \ {t} : SameTry(u)
  BY <1>3, <1>4, <1>5, Zenon DEF SameTry, TypeOK, ProxyType, FailoverType
<1>10. ~Doubt(t)' BY <1>6, Zenon DEF Doubt
<1>11. TidyStep(t)
  BY <1>3, <1>4, <1>6, <1>7, <1>9, <1>10, Zenon DEF TidyStep, ProxyFrame, Trying
<1>12. TidyEnd(t) BY <1>6, Zenon DEF TidyEnd
<1> QED BY <1>8, <1>11, <1>12, TidyInv, Zenon

LEMMA TakeChannelFailover ==
    ASSUME IInv, FailoverInvariant, NEW t \in Threads, takeChannel(t), UNCHANGED apiVars
    PROVE  FailoverInvariant'
<1> USE DEF IInv
<1>1. /\ pc[t] = "channel"
      /\ UNCHANGED <<namenodes, enableNamenodeHA, currentNamenode, count, oldValue, server, active,
                     calm, faults, switches>>
      /\ \/ pc' = [pc EXCEPT ![t] = "invoke"] /\ exc' = exc
         \/ /\ pc' = [pc EXCEPT ![t] = "decide"]
            /\ exc' = [exc EXCEPT ![t] = "HdfsRpcException"]
  BY Zenon DEF takeChannel, budget
<1>2. UNCHANGED <<handle, fn, todo>> BY Zenon DEF apiVars
<1>3. FailoverType /\ LookupInv BY Zenon DEF FailoverInvariant
<1>4. pc'[t] = "invoke" \/ (pc'[t] = "decide" /\ exc'[t] = "HdfsRpcException")
  BY <1>1, Zenon DEF TypeOK, ProxyType
<1>5. FailoverType' BY <1>1, <1>3, Zenon DEF FailoverType
<1>6. \A u \in Threads \ {t} : SameTry(u)
  BY <1>1, <1>2, Zenon DEF SameTry, TypeOK, ProxyType
<1>7. ~Doubt(t)' BY <1>4, Zenon DEF Doubt, RetriedExceptions
<1>8. namenodes = 2 => server[t] = oldValue[t] BY <1>1, <1>3, Zenon DEF LookupInv, Trying
<1>9. TidyStep(t)
  BY <1>1, <1>2, <1>4, <1>6, <1>7, <1>8, Zenon DEF TidyStep, ProxyFrame, Trying
<1>10. TidyEnd(t) BY <1>4, Zenon DEF TidyEnd, NoException
<1> QED BY <1>5, <1>9, <1>10, TidyInv, Zenon

\* What a channel gives back: an answer of the active namenode, one of a standby one, an
\* error that is not retried, or the outcome of a fault.
LEMMA RpcAnswers ==
    ASSUME IInv, NEW t \in Threads, rpcInvoke(t)
    PROVE  /\ pc[t] = "invoke" /\ pc' = [pc EXCEPT ![t] = "release"]
           /\ exc' = [exc EXCEPT ![t] = exc'[t]]
           /\ UNCHANGED <<namenodes, enableNamenodeHA, currentNamenode, count, oldValue, server,
                          active, switches>>
           /\ \/ /\ UNCHANGED <<faults, calm>> /\ exc'[t] \notin RetriedExceptions
                 /\ exc'[t] = NoException => server[t] = active
              \/ UNCHANGED <<faults, calm>> /\ exc'[t] \in RetriedExceptions /\ server[t] # active
              \/ /\ faults' = faults + 1 /\ calm' = [u \in Threads |-> FALSE]
                 /\ exc'[t] # NoException
<1> USE DEF IInv
<1>0. /\ pc[t] = "invoke"
      /\ UNCHANGED <<namenodes, enableNamenodeHA, currentNamenode, count, oldValue, server, active>>
  BY Zenon DEF rpcInvoke
<1>1. ASSUME NEW e, NEW n, NEW effect, rpcEnds(t, e, n, effect)
      PROVE  /\ pc' = [pc EXCEPT ![t] = "release"]
             /\ exc' = [exc EXCEPT ![t] = exc'[t]] /\ exc'[t] = e
  BY <1>1, Zenon DEF rpcEnds, TypeOK, ProxyType
<1>2. CASE /\ active = server[t] /\ rpcEnds(t, NoException, NoException, TRUE)
           /\ UNCHANGED <<budget, calm>>
  <2>1. NoException \notin RetriedExceptions BY Zenon DEF NoException, RetriedExceptions
  <2> QED BY <1>0, <1>1, <1>2, <2>1, Zenon DEF budget
<1>3. CASE /\ UNCHANGED <<scenario, faults, switches, calm>>
           /\ \/ \E n \in ReflexNames \ {"NameNodeStandbyException"} :
                     rpcEnds(t, HandlerRpcResponseException(n), n, FALSE)
              \/ /\ Methods[method[t]].empty # NoException
                 /\ \E effect \in BOOLEAN :
                       rpcEnds(t, Methods[method[t]].empty, NoException, effect)
  <2>1. CASE \E n \in ReflexNames \ {"NameNodeStandbyException"} :
                 rpcEnds(t, HandlerRpcResponseException(n), n, FALSE)
    <3>1. PICK n \in ReflexNames \ {"NameNodeStandbyException"} :
                 rpcEnds(t, HandlerRpcResponseException(n), n, FALSE)
      BY <2>1, Zenon
    <3>2. HandlerRpcResponseException(n) \notin RetriedExceptions \cup {NoException}
      BY Zenon DEF HandlerRpcResponseException, RetriedExceptions, NoException, ReflexNames
    <3> QED BY <1>0, <1>1, <1>3, <3>1, <3>2, Zenon
  <2>2. CASE /\ Methods[method[t]].empty # NoException
             /\ \E effect \in BOOLEAN :
                   rpcEnds(t, Methods[method[t]].empty, NoException, effect)
    <3>1. TryInv(t) BY Zenon DEF CallInv
    <3>2. method[t] \in ProxyMethods
      BY <1>0, <3>1, Zenon DEF TypeOK, ProxyType, TryInv, InProxy
    <3>3. Methods[method[t]].empty \in {NoException, "HdfsIOException", "FileNotFoundException"}
      BY <3>2, MethodsSound, Zenon DEF AllSound, Sound
    <3>4. Methods[method[t]].empty \notin RetriedExceptions \cup {NoException}
      BY <2>2, <3>3, Zenon DEF RetriedExceptions
    <3> QED BY <1>0, <1>1, <1>3, <2>2, <3>4, Zenon
  <2> QED BY <1>3, <2>1, <2>2, Zenon
<1>4. CASE /\ active # server[t] /\ UNCHANGED <<budget, calm>>
           /\ rpcEnds(t, HandlerRpcResponseException("NameNodeStandbyException"), NoException, FALSE)
  <2>1. HandlerRpcResponseException("NameNodeStandbyException") \in RetriedExceptions
    BY Zenon DEF HandlerRpcResponseException, RetriedExceptions
  <2> QED BY <1>0, <1>1, <1>4, <2>1, Zenon DEF budget
<1>5. CASE /\ faults' = faults + 1 /\ calm' = [u \in Threads |-> FALSE]
           /\ \E e \in {"HdfsFailoverException", "HdfsRpcException"}, effect \in BOOLEAN :
                 rpcEnds(t, e, NoException, effect)
           /\ UNCHANGED <<scenario, errors, switches>>
  <2>1. PICK e \in {"HdfsFailoverException", "HdfsRpcException"}, effect \in BOOLEAN :
                 rpcEnds(t, e, NoException, effect)
    BY <1>5, Zenon
  <2>2. e # NoException BY Zenon DEF NoException
  <2> QED BY <1>0, <1>1, <1>5, <2>1, <2>2, Zenon
<1>6. CASE /\ \E effect \in BOOLEAN : rpcEnds(t, "HdfsRpcException", NoException,
                                              effect /\ active = server[t])
           /\ UNCHANGED <<budget, calm>>
  <2>1. "HdfsRpcException" \notin RetriedExceptions \cup {NoException}
    BY Zenon DEF RetriedExceptions, NoException
  <2> QED BY <1>0, <1>1, <1>6, <2>1, Zenon DEF budget
<1> QED BY <1>2, <1>3, <1>4, <1>5, <1>6, Zenon DEF rpcInvoke

LEMMA RpcInvokeFailover ==
    ASSUME IInv, FailoverInvariant, NEW t \in Threads, rpcInvoke(t), UNCHANGED apiVars
    PROVE  FailoverInvariant'
<1> USE DEF IInv
<1>1. /\ pc[t] = "invoke" /\ pc' = [pc EXCEPT ![t] = "release"]
      /\ exc' = [exc EXCEPT ![t] = exc'[t]]
      /\ UNCHANGED <<namenodes, enableNamenodeHA, currentNamenode, count, oldValue, server,
                     active, switches>>
  BY RpcAnswers, Zenon
<1>2. UNCHANGED <<handle, fn, todo>> BY Zenon DEF apiVars
<1>3. FailoverType /\ LookupInv BY Zenon DEF FailoverInvariant
<1>4. pc'[t] = "release" BY <1>1, Zenon DEF TypeOK, ProxyType
<1>5. \A u \in Threads \ {t} : pc'[u] = pc[u] /\ exc'[u] = exc[u]
  BY <1>1, Zenon DEF TypeOK, ProxyType
<1>6. namenodes = 2 => server[t] = oldValue[t] BY <1>1, <1>3, Zenon DEF LookupInv, Trying
<1>7. CASE UNCHANGED <<faults, calm>>
  <2>1. FailoverType' BY <1>1, <1>3, <1>7, Zenon DEF FailoverType
  <2>2. ProxyFrame(t) BY <1>1, <1>2, <1>5, <1>7, Zenon DEF ProxyFrame, SameTry
  <2>3. CASE exc'[t] \notin RetriedExceptions /\ (exc'[t] = NoException => server[t] = active)
    <3>1. ~Doubt(t)' BY <1>4, <2>3, Zenon DEF Doubt
    <3>2. TidyStep(t)
      BY <1>1, <1>4, <1>6, <1>7, <2>2, <3>1, Zenon DEF TidyStep, Trying
    <3>3. FewDisturbances => TidyEnd(t)
      BY <1>1, <1>4, <1>6, <2>3, Zenon DEF TidyEnd, FewDisturbances
    <3> QED BY <2>1, <3>2, <3>3, TidyInv, Zenon
  <2>4. CASE exc'[t] \in RetriedExceptions /\ server[t] # active
    <3>1. exc'[t] # NoException BY <2>4, Zenon DEF RetriedExceptions, NoException
    <3>2. DoubtStep(t) BY <1>1, <1>4, <1>7, <2>2, <3>1, Zenon DEF DoubtStep
    <3>3. FewDisturbances => oldValue[t] # active BY <1>6, <2>4, Zenon DEF FewDisturbances
    <3>4. FewDisturbances => ~AtActive(t) /\ ~Wrong(t)'
      BY <1>1, <3>3, Zenon DEF AtActive, Wrong
    <3> QED BY <2>1, <3>2, <3>4, DoubtInv, Zenon
  <2>5. faults' # faults + 1 BY <1>3, <1>7 DEF FailoverType
  <2> QED BY <2>3, <2>4, <2>5, RpcAnswers, Zenon
<1>8. CASE /\ faults' = faults + 1 /\ calm' = [u \in Threads |-> FALSE]
           /\ exc'[t] # NoException
  <2>1. FailoverType'
    <3>1. faults' \in Nat BY <1>3, <1>8 DEF FailoverType
    <3>2. calm' \in [Threads -> BOOLEAN] BY <1>8, Zenon
    <3> QED BY <1>1, <1>3, <3>1, <3>2, Zenon DEF FailoverType
  <2>2. FewDisturbances' => FewDisturbances /\ Quiet /\ ~Quiet'
    BY <1>1, <1>3, <1>8 DEF FewDisturbances, Quiet, FailoverType
  <2>3. \A u \in Threads : pc'[u] \in Trying <=> pc[u] \in Trying
    BY <1>1, <1>4, <1>5, Zenon DEF Trying
  <2>4. LookupInv'
    <3>1. \A u \in Threads : pc'[u] = "idle" => exc'[u] = NoException
      BY <1>3, <1>4, <1>5, Zenon DEF LookupInv
    <3> QED BY <1>1, <1>2, <1>3, <2>3, <3>1, Zenon DEF LookupInv
  <2>5. ASSUME QuietInv, NEW x \in Threads, Wrong(x)'
        PROVE  /\ pc'[x] \in Trying /\ pc[x] \in Trying /\ currentNamenode = active'
               /\ handle # "connecting" => \A u \in Threads \ {x} : pc'[u] \in Trying => AtActive(u)'
    <3>1. ~Wrong(x) BY <2>5, Zenon DEF QuietInv, NobodyWrong
    <3>2. x = t BY <1>1, <1>5, <2>5, <3>1, Zenon DEF Wrong, Doubt
    <3>3. oldValue[t] = active BY <1>1, <2>5, <3>2, Zenon DEF Wrong
    <3>4. handle = "connecting" => currentNamenode = active
      BY <1>1, <1>3, <3>3, Zenon DEF LookupInv, Trying
    <3>5. currentNamenode = active BY <2>5, <3>4, Zenon DEF QuietInv
    <3>6. ASSUME handle # "connecting", NEW u \in Threads \ {x}, pc'[u] \in Trying
          PROVE  AtActive(u)'
      <4>1. AtActive(u) BY <2>3, <2>5, <3>6, Zenon DEF QuietInv
      <4> QED BY <1>1, <1>5, <3>2, <4>1, Zenon DEF AtActive, Doubt
    <3> QED BY <1>1, <1>4, <3>2, <3>5, <3>6, Zenon DEF Trying
  <2> QED BY <1>1, <1>2, <1>8, <2>1, <2>2, <2>3, <2>4, <2>5, DisturbanceInv, Zenon
<1> QED BY <1>7, <1>8, RpcAnswers, Zenon

LEMMA GiveChannelBackFailover ==
    ASSUME IInv, FailoverInvariant, NEW t \in Threads, giveChannelBack(t), UNCHANGED apiVars
    PROVE  FailoverInvariant'
<1> USE DEF IInv
<1>1. /\ pc[t] = "release" /\ pc' = [pc EXCEPT ![t] = "decide"]
      /\ exc' = [exc EXCEPT ![t] = MethodException(method[t], exc[t], name[t])]
      /\ UNCHANGED <<namenodes, enableNamenodeHA, currentNamenode, count, oldValue, server, active,
                     calm, faults, switches>>
  BY Zenon DEF giveChannelBack, budget
<1>2. UNCHANGED <<handle, fn, todo>> BY Zenon DEF apiVars
<1>3. FailoverType /\ LookupInv BY Zenon DEF FailoverInvariant
<1>4. pc'[t] = "decide" /\ exc'[t] = MethodException(method[t], exc[t], name[t])
  BY <1>1, Zenon DEF TypeOK, ProxyType
<1>5. exc'[t] = exc[t] \/ exc[t] = "HdfsRpcServerException"
  BY <1>4, Zenon DEF MethodException
<1>6. FailoverType' BY <1>1, <1>3, Zenon DEF FailoverType
<1>7. ProxyFrame(t)
  BY <1>1, <1>2, Zenon DEF ProxyFrame, SameTry, TypeOK, ProxyType
<1>8. namenodes = 2 => server[t] = oldValue[t] BY <1>1, <1>3, Zenon DEF LookupInv, Trying
<1>9. CASE Doubt(t)
  <2>1. exc[t] \in RetriedExceptions /\ exc'[t] = exc[t]
    BY <1>1, <1>5, <1>9, Zenon DEF Doubt, RetriedExceptions
  <2>2. exc'[t] # NoException BY <2>1, Zenon DEF RetriedExceptions, NoException
  <2>3. DoubtStep(t) BY <1>1, <1>4, <1>7, <2>2, Zenon DEF DoubtStep
  <2>4. ~AtActive(t) /\ (Wrong(t)' => Wrong(t)) BY <1>1, <1>9, Zenon DEF AtActive, Wrong
  <2> QED BY <1>6, <2>3, <2>4, DoubtInv, Zenon
<1>10. CASE ~Doubt(t)
  <2>1. exc[t] \notin RetriedExceptions BY <1>1, <1>10, Zenon DEF Doubt
  <2>2. exc'[t] = exc[t] \/ exc'[t] \in ReflexNames \ RetriedExceptions
    <3>1. CASE exc[t] # "HdfsRpcServerException" BY <1>5, <3>1, Zenon
    <3>2. CASE exc[t] = "HdfsRpcServerException"
      <4>1. exc'[t] \in Methods[method[t]].throws \cup {"HdfsIOException"}
        BY <1>4, <3>2, Zenon DEF MethodException, unwrap
      <4>2. "HdfsIOException" \in ReflexNames \ RetriedExceptions
        BY Zenon DEF ReflexNames, RetriedExceptions
      <4>3. TryInv(t) BY Zenon DEF CallInv
      <4>4. method[t] \in ProxyMethods
        BY <1>1, <4>3, Zenon DEF TypeOK, ProxyType, TryInv, InProxy
      <4> QED BY <4>1, <4>2, <4>4, MethodsSound, Zenon DEF AllSound, Sound
    <3> QED BY <3>1, <3>2, Zenon
  <2>3. NoException \notin ReflexNames BY Zenon DEF NoException, ReflexNames
  <2>4. exc'[t] \notin RetriedExceptions /\ (exc'[t] = NoException => exc[t] = NoException)
    BY <2>1, <2>2, <2>3, Zenon
  <2>5. ~Doubt(t)' BY <1>4, <2>4, Zenon DEF Doubt
  <2>6. TidyStep(t) BY <1>1, <1>4, <1>7, <1>8, <2>5, Zenon DEF TidyStep, Trying
  <2>7. FewDisturbances => TidyEnd(t)
    BY <1>1, <1>4, <2>4, Zenon DEF TidyEnd, FailoverInvariant, Settled, QuietInv
  <2> QED BY <1>6, <2>6, <2>7, TidyInv, Zenon
<1> QED BY <1>9, <1>10, Zenon

LEMMA RetryLoopFailover ==
    ASSUME IInv, FailoverInvariant, NEW t \in Threads, retryLoop(t), UNCHANGED apiVars
    PROVE  FailoverInvariant'
<1> USE DEF IInv
<1>1. /\ pc[t] = "decide"
      /\ UNCHANGED <<namenodes, enableNamenodeHA, currentNamenode, oldValue, server, active, calm,
                     faults, switches>>
  BY Zenon DEF retryLoop, budget
<1>2. UNCHANGED <<handle, fn, todo>> BY Zenon DEF apiVars
<1>3. FailoverType /\ LookupInv BY Zenon DEF FailoverInvariant
<1>4. namenodes = 2 => server[t] = oldValue[t] BY <1>1, <1>3, Zenon DEF LookupInv, Trying
<1>5. CASE /\ exc[t] \notin RetriedExceptions /\ pc' = [pc EXCEPT ![t] = "function"]
           /\ UNCHANGED <<exc, count>>
  <2>1. pc'[t] = "function" BY <1>5, Zenon DEF TypeOK, ProxyType
  <2>2. FailoverType' BY <1>1, <1>3, <1>5, Zenon DEF FailoverType
  <2>3. ProxyFrame(t)
    BY <1>1, <1>2, <1>5, Zenon DEF ProxyFrame, SameTry, TypeOK, ProxyType
  <2>4. ~Doubt(t)' BY <2>1, Zenon DEF Doubt
  <2>5. TidyStep(t) BY <1>1, <2>1, <2>3, <2>4, Zenon DEF TidyStep, Trying
  <2>6. ASSUME FewDisturbances, Quiet, fn[t] = "hdfsConnect", exc'[t] = NoException
        PROVE  currentNamenode = active
    <3>1. handle = "connecting" BY <2>6, Zenon DEF OwnerInv
    <3>2. oldValue[t] = active
      BY <1>1, <1>5, <2>6, Zenon DEF FailoverInvariant, Settled, QuietInv
    <3> QED BY <1>1, <1>3, <3>1, <3>2, Zenon DEF LookupInv, Trying
  <2>7. exc'[t] # "NameNodeStandbyException" BY <1>5, Zenon DEF RetriedExceptions
  <2>8. FewDisturbances => TidyEnd(t) BY <2>1, <2>6, <2>7, Zenon DEF TidyEnd
  <2> QED BY <2>2, <2>5, <2>8, TidyInv, Zenon
<1>6. CASE /\ exc[t] \in RetriedExceptions
           /\ count' = [count EXCEPT ![t] = IF enableNamenodeHA THEN count[t] + 1 ELSE count[t]]
  <2>1. count' \in [Threads -> Nat] BY <1>3, <1>6 DEF FailoverType
  <2>2. FailoverType' BY <1>1, <1>3, <2>1, Zenon DEF FailoverType
  <2>3. \A u \in Threads \ {t} : count'[u] = count[u]
    BY <1>3, <1>6, Zenon DEF FailoverType
  <2>4. Doubt(t) BY <1>1, <1>6, Zenon DEF Doubt
  <2>5. CASE /\ giveUp(t) /\ exc' = [exc EXCEPT ![t] = HandleHdfsFailoverException(exc[t])]
             /\ pc' = [pc EXCEPT ![t] = "function"]
    <3>1. pc'[t] = "function" /\ exc'[t] = HandleHdfsFailoverException(exc[t])
      BY <2>5, Zenon DEF TypeOK, ProxyType
    <3>2. ProxyFrame(t)
      BY <1>1, <1>2, <2>3, <2>5, Zenon DEF ProxyFrame, SameTry, TypeOK, ProxyType
    <3>3. ~Doubt(t)' BY <3>1, Zenon DEF Doubt
    <3>4. TidyStep(t) BY <1>1, <3>1, <3>2, <3>3, Zenon DEF TidyStep, Trying
    <3>5. exc'[t] # NoException
      BY <1>6, <3>1, Zenon DEF HandleHdfsFailoverException, RetriedExceptions, NoException
    <3>6. FewDisturbances => ~calm[t]
      <4> SUFFICES ASSUME FewDisturbances PROVE ~calm[t] BY Zenon
      <4>1. namenodes = 2 /\ 2 # 0 BY DEF FewDisturbances
      <4>2. enableNamenodeHA BY <1>3, <4>1, Zenon DEF LookupInv
      <4>3. count[t] > MaxHARetry BY <2>5, <4>2, Zenon DEF giveUp, maxNamenodeHARetry
      <4>4. count[t] \in Nat BY <1>3, Zenon DEF FailoverType
      <4>5. count[t] # 0 BY <4>3, <4>4, HdfsClientAssumption
      <4>6. ~AtActive(t) BY <2>4, Zenon DEF AtActive
      <4> QED BY <1>1, <4>5, <4>6, Zenon DEF FailoverInvariant, Settled, CalmInv, Trying
    <3>7. FewDisturbances => TidyEnd(t) BY <3>1, <3>5, <3>6, Zenon DEF TidyEnd
    <3> QED BY <2>2, <3>4, <3>7, TidyInv, Zenon
  <2>6. CASE exc' = [exc EXCEPT ![t] = NoException] /\ pc' = [pc EXCEPT ![t] = "failover"]
    <3>1. pc'[t] = "failover" BY <2>6, Zenon DEF TypeOK, ProxyType
    <3>2. ProxyFrame(t)
      BY <1>1, <1>2, <2>3, <2>6, Zenon DEF ProxyFrame, SameTry, TypeOK, ProxyType
    <3>3. DoubtStep(t) BY <1>1, <3>1, <3>2, Zenon DEF DoubtStep
    <3>4. ~AtActive(t) /\ (Wrong(t)' => Wrong(t)) BY <1>1, <2>4, Zenon DEF AtActive, Wrong
    <3> QED BY <2>2, <3>3, <3>4, DoubtInv, Zenon
  <2> QED BY <1>6, <2>5, <2>6, Zenon DEF retryLoop
<1> QED BY <1>5, <1>6, Zenon DEF retryLoop

\* The next namenode is the active one for a thread that comes from the other, and nobody
\* who found the active one is led away from it.
LEMMA FailoverFailover ==
    ASSUME IInv, FailoverInvariant, NEW t \in Threads, failoverToNextNamenode(t), UNCHANGED apiVars
    PROVE  FailoverInvariant'
<1> USE DEF IInv
<1>0. namenodes \in 1..2
  BY ProxyOpen, Zenon DEF failoverToNextNamenode, InFn, InProxy
<1>1. namenodes # 0 BY <1>0
<1>2. /\ pc[t] = "failover" /\ pc' = [pc EXCEPT ![t] = "active"]
      /\ UNCHANGED <<namenodes, enableNamenodeHA, count, oldValue, server, exc, active, calm,
                     faults, switches>>
      /\ oldValue[t] # currentNamenode => currentNamenode' = currentNamenode
      /\ oldValue[t] = currentNamenode => currentNamenode' = (currentNamenode + 1) % namenodes
  BY <1>1, Zenon DEF failoverToNextNamenode, budget
<1>3. UNCHANGED <<handle, fn, todo>> BY Zenon DEF apiVars
<1>4. FailoverType /\ LookupInv BY Zenon DEF FailoverInvariant
<1>5. pc'[t] = "active" BY <1>2, Zenon DEF TypeOK, ProxyType
<1>6. \A u \in Threads \ {t} : SameTry(u)
  BY <1>2, <1>3, Zenon DEF SameTry, TypeOK, ProxyType
<1>7. \A u \in Threads \ {t} : /\ Doubt(u)' <=> Doubt(u)
                               /\ Wrong(u)' <=> Wrong(u)
                               /\ AtActive(u)' <=> AtActive(u)
  BY <1>2, <1>6, SameTryKept, Zenon
<1>8. Doubt(t) /\ ~Doubt(t)' /\ ~Wrong(t)'
  BY <1>2, <1>5, Zenon DEF Doubt, Wrong
<1>9. pc[t] \in Trying /\ pc[t] \in InFn BY <1>2, Zenon DEF Trying, InFn, InProxy
<1>10. FailoverType'
  <2>1. currentNamenode' \in 0..1 BY <1>0, <1>2, <1>4 DEF FailoverType
  <2> QED BY <1>2, <1>4, <2>1, Zenon DEF FailoverType
<1>11. handle = "connecting" => \A u \in Threads \ {t} : pc'[u] \notin InFn
  <2>1. handle = "connecting" => \A u \in Threads \ {t} : pc[u] \notin InFn
    BY <1>9, Alone, Zenon
  <2> QED BY <1>6, <2>1, Zenon DEF SameTry
<1>12. LookupInv'
  <2>1. namenodes' # 0 => (enableNamenodeHA' <=> namenodes' = 2)
    BY <1>2, <1>4, Zenon DEF LookupInv
  <2>2. ASSUME NEW u \in Threads, u # t
        PROVE  /\ pc'[u] \in Trying /\ namenodes' = 2 => server'[u] = oldValue'[u]
               /\ pc'[u] \in Trying /\ handle' = "connecting" => oldValue'[u] = currentNamenode'
               /\ pc'[u] = "idle" => exc'[u] = NoException
    <3>1. SameTry(u) BY <1>6, <2>2, Zenon
    <3>2. handle' = "connecting" => pc'[u] \notin Trying
      BY <1>3, <1>11, <2>2, TryingInFn, Zenon
    <3> QED BY <1>2, <1>4, <3>1, <3>2, Zenon DEF LookupInv, SameTry
  <2>3. pc'[t] \notin Trying /\ pc'[t] # "idle" BY <1>5, Zenon DEF Trying
  <2> QED BY <2>1, <2>2, <2>3, Zenon DEF LookupInv
<1>13. ASSUME FewDisturbances' PROVE Settled'
  <2>1. FewDisturbances BY <1>2, <1>13, Zenon DEF FewDisturbances
  <2>2. Settled BY <2>1, Zenon DEF FailoverInvariant
  <2>3. ~AtActive(t) BY <1>8, Zenon DEF AtActive
  <2>4. NobodyWrong'
    BY <1>7, <1>8, <1>9, <2>2, <2>3, Zenon DEF Settled, WrongInv, NobodyWrong
  <2>5. oldValue[t] # active => currentNamenode' = active
    BY <1>2, <1>4, <2>1 DEF FewDisturbances, FailoverType
  <2>6. ASSUME Quiet' PROVE QuietInv'
    <3>1. Quiet BY <1>2, <2>6, Zenon DEF Quiet
    <3>2. QuietInv BY <2>2, <3>1, Zenon DEF Settled
    <3>3. handle = "connecting" BY <1>9, <2>3, <3>2, Zenon DEF QuietInv
    <3>4. ASSUME NEW u \in Threads
          PROVE  /\ pc'[u] \notin {"release", "decide"}
                 /\ pc'[u] # "function"
      BY <1>5, <1>11, <3>3, Zenon DEF InFn, InProxy
    <3> QED BY <1>3, <2>4, <3>3, <3>4, Zenon DEF QuietInv
  <2>7. WrongInv' BY <2>4, Zenon DEF WrongInv, NobodyWrong
  <2>8. CalmInv'
    <3> SUFFICES ASSUME NEW u \in Threads, calm'[u]
                 PROVE  /\ count'[u] # 0 /\ pc'[u] = "active" => currentNamenode' = active'
                        /\ count'[u] # 0 /\ pc'[u] \in Trying /\ pc'[u] # "failover" => AtActive(u)'
                        /\ pc'[u] = "function" => exc'[u] # "NameNodeStandbyException"
      BY <2>4, Zenon DEF CalmInv
    <3>0. calm[u] BY <1>2, Zenon
    <3>1. CASE u = t
      <4>1. ~Wrong(t) BY <2>2, <3>0, <3>1, Zenon DEF Settled, WrongInv
      <4>2. currentNamenode' = active BY <1>8, <2>5, <4>1, Zenon DEF Wrong
      <4> QED BY <1>2, <1>5, <3>1, <4>2, Zenon DEF Trying
    <3>2. CASE u # t
      <4>1. SameTry(u) BY <1>6, <3>2, Zenon
      <4>2. ASSUME count[u] # 0, pc[u] = "active" PROVE currentNamenode' = active
        <5>1. NobodyWrong BY <2>2, <3>0, <4>2, Zenon DEF Settled, CalmInv
        <5> QED BY <1>8, <2>5, <5>1, Zenon DEF NobodyWrong, Wrong
      <4> QED BY <1>2, <1>7, <2>2, <3>0, <3>2, <4>1, <4>2, Zenon DEF Settled, CalmInv, SameTry
    <3> QED BY <3>1, <3>2, Zenon
  <2> QED BY <2>6, <2>7, <2>8, Zenon DEF Settled
<1> QED BY <1>10, <1>12, <1>13, Zenon DEF FailoverInvariant

LEMMA SwitchActiveFailover ==
    ASSUME IInv, FailoverInvariant, switchActive, UNCHANGED apiVars
    PROVE  FailoverInvariant'
<1>1. /\ switches' = switches + 1 /\ calm' = [u \in Threads |-> FALSE]
      /\ active' # active /\ active' \in 0 .. namenodes - 1
      /\ UNCHANGED <<namenodes, enableNamenodeHA, currentNamenode, pc, count, oldValue, server, exc,
                     faults>>
  BY Zenon DEF switchActive
<1>2. UNCHANGED <<handle, fn, todo>> BY Zenon DEF apiVars
<1>3. FailoverType /\ LookupInv BY Zenon DEF FailoverInvariant
<1>4. FailoverType'
  <2>1. switches' \in Nat BY <1>1, <1>3 DEF FailoverType
  <2>2. calm' \in [Threads -> BOOLEAN] BY <1>1, Zenon
  <2>3. namenodes \in 0..2 BY Zenon DEF IInv, TypeOK, ProxyType
  <2>4. active' \in 0..1 BY <1>1, <2>3
  <2> QED BY <1>1, <1>3, <2>1, <2>2, <2>4, Zenon DEF FailoverType
<1>5. FewDisturbances' => FewDisturbances /\ Quiet /\ ~Quiet'
  BY <1>1, <1>3 DEF FewDisturbances, Quiet, FailoverType
<1>6. LookupInv' BY <1>1, <1>2, <1>3, Zenon DEF LookupInv
<1>7. ASSUME QuietInv, NEW x \in Threads, Wrong(x)'
      PROVE  /\ pc'[x] \in Trying /\ pc[x] \in Trying /\ currentNamenode = active'
             /\ handle = "connecting"
  <2>1. Doubt(x) /\ oldValue[x] = active' BY <1>1, <1>7, Zenon DEF Wrong, Doubt
  <2>2. pc[x] \in Trying BY <2>1, Zenon DEF Doubt, Trying
  <2>3. handle = "connecting" BY <1>7, <2>1, <2>2, Zenon DEF QuietInv, AtActive
  <2> QED BY <1>1, <1>3, <2>1, <2>2, <2>3, Zenon DEF LookupInv
<1> QED BY <1>1, <1>2, <1>4, <1>5, <1>6, <1>7, DisturbanceInv, Zenon
=============================================================================
