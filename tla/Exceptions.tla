----------------------------- MODULE Exceptions -----------------------------
(***************************************************************************)
(* The exception classes of the client (common/Exception.h), the classes a *)
(* server error is turned into on its way up (server/RpcHelper.h,          *)
(* rpc/RpcChannel.cpp) and the errno the C interface reports for each      *)
(* (client/Hdfs.cpp).  A class is named by a string; messages and stacks   *)
(* are left out.                                                           *)
(***************************************************************************)
EXTENDS Integers, Sequences, FiniteSets, FiniteSetsExt

NoException == "none"

\* Two tables as one: an entry of f goes before one of g.
f ++ g == [x \in DOMAIN f \cup DOMAIN g |-> IF x \in DOMAIN f THEN f[x] ELSE g[x]]

\* The classes derived directly from HdfsException, in the order of the header.
NamespaceExceptions ==
    {"HdfsIOException", "AccessControlException", "AlreadyBeingCreatedException",
     "ChecksumException", "DSQuotaExceededException", "FileAlreadyExistsException",
     "FileNotFoundException"}

ClientExceptions ==
    {"HdfsBadBoolFoumat", "HdfsBadConfigFoumat", "HdfsBadNumFoumat", "HdfsCanceled",
     "HdfsFileSystemClosed", "HdfsConfigInvalid", "HdfsConfigNotFound",
     "HdfsInvalidBlockToken", "HdfsFailoverException", "HdfsTimeoutException"}

ServerExceptions ==
    {"InvalidParameter", "InvalidPath", "NotReplicatedYetException",
     "NSQuotaExceededException", "ParentNotDirectoryException",
     "ReplicaNotFoundException", "SafeModeException", "UnresolvedLinkException"}

ProtocolExceptions ==
    {"UnsupportedOperationException", "SaslException", "NameNodeStandbyException",
     "RpcNoSuchMethodException", "RecoveryInProgressException"}

\* The classes derived from another class of the header.
IOExceptions ==
    [c \in {"HdfsNetworkException", "HdfsEndOfStream", "HdfsRpcException",
            "HdfsRpcServerException"} |-> "HdfsIOException"]
        ++ [c \in {"HdfsNetworkConnectException"} |-> "HdfsNetworkException"]
        ++ [c \in {"HadoopIllegalArgumentException"} |-> "InvalidParameter"]

Base == IOExceptions ++
        [c \in NamespaceExceptions \cup ClientExceptions
               \cup ServerExceptions \cup ProtocolExceptions |-> "HdfsException"]

Classes == DOMAIN Base \cup {"HdfsException"}

\* A catch clause of class b catches an exception of class c.  The deepest
\* chain of the header has three links.
Up(c) == IF c \in DOMAIN Base THEN Base[c] ELSE c
IsA(c, b) == b \in {c, Up(c), Up(Up(c)), Up(Up(Up(c)))}

(***************************************************************************)
(* Errors of a server.  The answer names a Java class; an UnWrapper throws *)
(* the class of its list with that name, and its last class otherwise.     *)
(***************************************************************************)
\* The classes with a ReflexName: what a server's error can be turned into.
ReflexNames ==
    {"HdfsIOException", "AlreadyBeingCreatedException", "AccessControlException",
     "FileAlreadyExistsException", "DSQuotaExceededException",
     "NSQuotaExceededException", "ParentNotDirectoryException", "SafeModeException",
     "NotReplicatedYetException", "FileNotFoundException", "UnresolvedLinkException",
     "UnsupportedOperationException", "ReplicaNotFoundException",
     "NameNodeStandbyException", "HdfsInvalidBlockToken", "SaslException",
     "RpcNoSuchMethodException", "InvalidParameter", "HadoopIllegalArgumentException",
     "RecoveryInProgressException"}

\* UnWrapper<..., HdfsIOException>::unwrap
unwrap(list, name) == IF name \in list THEN name ELSE "HdfsIOException"

\* The errors the channel itself turns into their class; any other leaves
\* it as an HdfsRpcServerException that carries the name.
HandlerRpcResponseException(name) ==
    IF name \in {"NameNodeStandbyException", "RpcNoSuchMethodException",
                 "UnsupportedOperationException", "AccessControlException",
                 "SafeModeException", "SaslException"}
    THEN name ELSE "HdfsRpcServerException"

(***************************************************************************)
(* The C interface.  handleException rethrows what it is given: the first  *)
(* clause, in the order of the code, that catches it sets errno.           *)
(***************************************************************************)
CatchClauses ==
    << <<"AccessControlException", "EACCES">>, <<"AlreadyBeingCreatedException", "EBUSY">>,
       <<"ChecksumException", "EIO">>, <<"DSQuotaExceededException", "ENOSPC">>,
       <<"FileAlreadyExistsException", "EEXIST">>, <<"FileNotFoundException", "ENOENT">>,
       <<"HdfsBadBoolFoumat", "EINVAL">>, <<"HdfsBadConfigFoumat", "EINVAL">>,
       <<"HdfsBadNumFoumat", "EINVAL">>, <<"HdfsCanceled", "EIO">>,
       <<"HdfsConfigInvalid", "EINVAL">>, <<"HdfsConfigNotFound", "EINVAL">>,
       <<"HdfsEndOfStream", "EOVERFLOW">>, <<"HdfsInvalidBlockToken", "EPERM">>,
       <<"HdfsTimeoutException", "EIO">>, <<"HadoopIllegalArgumentException", "EINVAL">>,
       <<"InvalidParameter", "EINVAL">>, <<"InvalidPath", "EINVAL">>,
       <<"NotReplicatedYetException", "EINVAL">>, <<"NSQuotaExceededException", "EINVAL">>,
       <<"ParentNotDirectoryException", "EACCES">>, <<"ReplicaNotFoundException", "EACCES">>,
       <<"SafeModeException", "EIO">>, <<"UnresolvedLinkException", "EACCES">>,
       <<"HdfsRpcException", "EIO">>, <<"HdfsNetworkException", "EIO">>,
       <<"RpcNoSuchMethodException", "ENOTSUP">>,
       <<"UnsupportedOperationException", "ENOTSUP">>, <<"SaslException", "EACCES">>,
       <<"NameNodeStandbyException", "EIO">>, <<"RecoveryInProgressException", "EBUSY">>,
       <<"HdfsIOException", "EIO">>, <<"HdfsException", "EINTERNAL">> >>

handleException(c) ==
    CatchClauses[Min({i \in DOMAIN CatchClauses : IsA(c, CatchClauses[i][1])})][2]
=============================================================================
