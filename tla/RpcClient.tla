----------------------------- MODULE RpcClient ------------------------------
(***************************************************************************)
(* The process-wide RPC client (rpc/RpcClient.cpp): the map of channels    *)
(* that calls share, the cleaner thread that drops idle channels, and the  *)
(* destructor that ends both.  What a call does on a channel is the        *)
(* subject of RpcChannel; here a channel is its reference count.           *)
(*                                                                         *)
(* getChannel hands out a reference to a channel that only the map owns:   *)
(* whoever drops a channel from the map destroys it.                       *)
(***************************************************************************)
EXTENDS Naturals

CONSTANT Servers      \* the servers a channel may lead to (RpcChannelKey)

VARIABLES
    running,          \* the flag, cleared by the destructor
    cleaning,         \* a cleaner is supposed to run
    cleaner,          \* the cleaner thread: none, waiting, leaving, ended
    allChannels,      \* the keys in the map
    refs,             \* RpcChannelImpl::refs of each channel
    destructor        \* the destructor: none, join, drain, done

rpcVars == <<running, cleaning, cleaner, allChannels, refs, destructor>>

RpcInit ==
    /\ running = TRUE /\ cleaning = FALSE /\ cleaner = "none"
    /\ allChannels = {} /\ refs = [s \in Servers |-> 0] /\ destructor = "none"

\* close() keeps mut while it waits for the channels; the cleaner and
\* getChannel keep it for one step each.
MutFree == destructor # "drain"

\* getChannel finds or creates the channel, counts the caller, and starts a
\* cleaner when none is marked as running.  The old thread, if any, has only
\* its return left when cleaning is FALSE, so joining it does not block.
getChannel(s) ==
    /\ MutFree /\ running
    /\ allChannels' = allChannels \cup {s}
    /\ refs' = [refs EXCEPT ![s] = (IF s \in allChannels THEN @ ELSE 0) + 1]
    /\ IF cleaning
       THEN UNCHANGED <<cleaning, cleaner>>
       ELSE cleaning' = TRUE /\ cleaner' = "waiting"
    /\ UNCHANGED <<running, destructor>>

\* ... or throws HdfsRpcException because the client is closing.
getChannelFails == MutFree /\ ~running /\ UNCHANGED rpcVars

\* RpcChannelImpl::close(false)
releaseChannel(s) ==
    /\ refs' = [refs EXCEPT ![s] = @ - 1]
    /\ UNCHANGED <<running, cleaning, cleaner, allChannels, destructor>>

\* checkIdle: a channel that a call uses is never idle; another one is when
\* its idle time is over or a ping fails, and not yet otherwise.
IdleChannels == {s \in allChannels : refs[s] = 0}

\* One round of clean, after the wait of a second or a notification.
cleanRound ==
    /\ cleaner = "waiting" /\ MutFree
    /\ IF ~running \/ allChannels = {}
       THEN cleaner' = "leaving" /\ UNCHANGED allChannels
       ELSE /\ \E idle \in SUBSET IdleChannels : allChannels' = allChannels \ idle
            /\ UNCHANGED cleaner
    /\ UNCHANGED <<running, cleaning, refs, destructor>>

\* The last statement of clean, after mut was released.
cleanEnd ==
    /\ cleaner = "leaving"
    /\ cleaning' = FALSE /\ cleaner' = "ended"
    /\ UNCHANGED <<running, allChannels, refs, destructor>>

destroyBeginRunning ==
    /\ destructor = "none"
    /\ destructor' = "join"
    /\ UNCHANGED <<running, cleaning, cleaner, allChannels, refs>>

\* The destructor, run when the process exits.
destroyBegin ==
    /\ destructor = "none"
    /\ running' = FALSE /\ destructor' = "join"
    /\ UNCHANGED <<cleaning, cleaner, allChannels, refs>>

destroyJoin ==
    /\ destructor = "join" /\ cleaner \in {"none", "ended"}
    /\ destructor' = "drain"
    /\ UNCHANGED <<running, cleaning, cleaner, allChannels, refs>>

\* close(): waitForExit on every channel, then the map is cleared.
destroyDrained ==
    /\ destructor = "drain" /\ \A s \in allChannels : refs[s] = 0
    /\ destructor' = "done" /\ allChannels' = {}
    /\ UNCHANGED <<running, cleaning, cleaner, refs>>
=============================================================================
