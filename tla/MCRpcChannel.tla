---------------------------- MODULE MCRpcChannel ----------------------------
\* The instance of RpcChannel that TLC checks: the callers are interchangeable.
EXTENDS RpcChannel, TLC

CallerSymmetry == Permutations(Threads)
=============================================================================
