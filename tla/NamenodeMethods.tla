-------------------------- MODULE NamenodeMethods --------------------------
(***************************************************************************)
(* The remote procedures of the namenode as NamenodeImpl (server/          *)
(* NamenodeImpl.cpp) issues them.  Of each method the table keeps what the *)
(* layers above can tell apart: whether the channel may send the call a    *)
(* second time, which classes the UnWrapper of the method restores, and    *)
(* what an answer without its optional field becomes.  Requests and        *)
(* results are left out.                                                   *)
(***************************************************************************)
EXTENDS Exceptions

\* RpcCall(idempotent, ...), the list of the UnWrapper, and the exception
\* thrown for an answer whose optional field is missing.
Method(idempotent, throws, empty) ==
    [idempotent |-> idempotent, throws |-> throws, empty |-> empty]

Link == {"UnresolvedLinkException", "HdfsIOException"}
Path == Link \cup {"FileNotFoundException"}

FileMethods ==
    [ getBlockLocations |-> Method(TRUE, Path, NoException),
      create |-> Method(FALSE,
          Path \cup {"AlreadyBeingCreatedException", "DSQuotaExceededException",
                     "FileAlreadyExistsException", "NSQuotaExceededException",
                     "ParentNotDirectoryException"}, "HdfsIOException"),
      append |-> Method(FALSE,
          Path \cup {"AlreadyBeingCreatedException", "AccessControlException",
                     "DSQuotaExceededException", "RecoveryInProgressException"},
          NoException) ]

AttributeMethods ==
    [ setReplication |-> Method(TRUE, Path \cup {"DSQuotaExceededException"}, NoException),
      setPermission |-> Method(TRUE, Path, NoException),
      setOwner |-> Method(TRUE, Path, NoException),
      abandonBlock |-> Method(FALSE, Path, NoException) ]

BlockMethods ==
    [ addBlock |-> Method(TRUE, Path \cup {"NotReplicatedYetException"}, NoException),
      getAdditionalDatanode |->
          Method(TRUE, Path \cup {"NotReplicatedYetException"}, NoException),
      complete |-> Method(FALSE, Path, NoException) ]

RenameMethods == [ rename |-> Method(FALSE, Link, NoException) ]

LeaseMethods ==
    [ truncate |-> Method(FALSE,
          Path \cup {"AlreadyBeingCreatedException", "AccessControlException",
                     "RecoveryInProgressException", "HadoopIllegalArgumentException"},
          NoException),
      getLease |-> Method(FALSE,
          Path \cup {"InvalidParameter", "AlreadyBeingCreatedException"}, NoException),
      releaseLease |-> Method(FALSE, Path, NoException),
      deleteFile |-> Method(FALSE, Path, NoException) ]

DirectoryMethods ==
    [ mkdirs |-> Method(TRUE,
          Path \cup {"FileAlreadyExistsException", "NSQuotaExceededException",
                     "ParentNotDirectoryException"}, NoException),
      getListing |-> Method(TRUE, Path, "FileNotFoundException"),
      renewLease |-> Method(TRUE, {"HdfsIOException"}, NoException) ]

StatsMethods == [ getFsStats |-> Method(TRUE, Path, NoException) ]

StatusMethods == [ getFileInfo |-> Method(TRUE, Path, "FileNotFoundException") ]

SyncMethods ==
    [ fsync |-> Method(TRUE, Path, NoException),
      setTimes |-> Method(TRUE, Path, NoException) ]

PipelineMethods ==
    [ updateBlockForPipeline |-> Method(TRUE, {"HdfsIOException"}, NoException),
      updatePipeline |-> Method(FALSE, {"HdfsIOException"}, NoException),
      getDelegationToken |-> Method(TRUE, {"HdfsIOException"}, NoException),
      renewDelegationToken |->
          Method(TRUE, {"HdfsInvalidBlockToken", "HdfsIOException"}, NoException),
      cancelDelegationToken |->
          Method(TRUE, {"HdfsInvalidBlockToken", "HdfsIOException"}, NoException) ]

Methods == FileMethods ++ AttributeMethods ++ BlockMethods ++ RenameMethods
           ++ LeaseMethods ++ DirectoryMethods ++ StatsMethods ++ StatusMethods ++ SyncMethods ++ PipelineMethods

MethodExceptionWrapped(m, c, name) == IF c = "HdfsRpcServerException" THEN "HdfsIOException" ELSE c

\* What NamenodeImpl throws when the channel threw c; name is the class an
\* HdfsRpcServerException carries.
MethodException(m, c, name) ==
    IF c = "HdfsRpcServerException" THEN unwrap(Methods[m].throws, name) ELSE c

(***************************************************************************)
(* The errors server/Namenode.h documents for the methods that the         *)
(* application reaches, the channel's own included.  (Its RuntimeException *)
(* lists name classes the client does not have.)                           *)
(***************************************************************************)
DocumentedErrors ==
    LET read == {"AccessControlException", "FileNotFoundException",
                 "UnresolvedLinkException", "HdfsIOException"}
        write == read \cup {"SafeModeException"}
    IN  [m \in {"getBlockLocations", "getListing", "getFileInfo", "fsync", "setTimes"}
            |-> read] ++
        [m \in {"setPermission", "setOwner", "complete", "deleteFile",
                "getAdditionalDatanode"} |-> write] ++
        [ create |-> write \cup {"AlreadyBeingCreatedException",
              "DSQuotaExceededException", "FileAlreadyExistsException",
              "ParentNotDirectoryException", "NSQuotaExceededException"},
          append |-> write \cup {"DSQuotaExceededException",
              "UnsupportedOperationException"},
          setReplication |-> write \cup {"DSQuotaExceededException"},
          abandonBlock |-> read,
          addBlock |-> write \cup {"NotReplicatedYetException"},
          mkdirs |-> write \cup {"FileAlreadyExistsException",
              "NSQuotaExceededException", "ParentNotDirectoryException"},
          rename |-> {"HdfsIOException"},
          truncate |-> {"HdfsIOException", "UnresolvedLinkException"},
          getLease |-> {"HdfsIOException", "UnresolvedLinkException"},
          releaseLease |-> {"HdfsIOException", "UnresolvedLinkException"},
          renewLease |-> {"AccessControlException", "HdfsIOException"},
          getFsStats |-> {"HdfsIOException"} ]
=============================================================================
