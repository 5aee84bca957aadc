---------------------------- MODULE LeaseRenewer ----------------------------
(***************************************************************************)
(* The lease renewer (client/LeaseRenewer.cpp): one background thread that *)
(* renews the leases of every filesystem that has an output stream open.   *)
(*                                                                         *)
(* Output streams call StartRenew when they open and StopRenew when they   *)
(* close (OutputStreamImpl::open, close), from any thread.  Both hold the  *)
(* mutex mut for their whole body, and so each is one step, enabled when   *)
(* the worker does not hold mut.  The worker holds mut from the moment     *)
(* wait_for returns until it leaves the try block: it leaves the loop with *)
(* the mutex released and sets the flag stop only after that.              *)
(***************************************************************************)
EXTENDS Integers, FiniteSets

CONSTANTS FS,       \* the filesystems (clients) of the process
          MaxOpen,  \* bound on the streams open at a time on a filesystem
          Faults    \* the faults that happen: "rpc", "thread", "memory"

ASSUME RenewerAssumption ==
  /\ IsFiniteSet(FS) /\ MaxOpen \in Nat \ {0}
  /\ Faults \subseteq {"rpc", "thread", "memory"}

VARIABLES maps,     \* the filesystems in the map of the renewer
          opened,   \* openedOutputStream of every filesystem
          stop,     \* the atomic flag stop
          worker,   \* where the worker thread is
          todo,     \* the filesystems the loop of the worker has left
          renewed,  \* the filesystems renewed since the last wait (ghost)
          dying,    \* ~LeaseRenewerImpl has begun
          short,    \* memory has run out in the worker (ghost)
          unserved  \* the filesystems whose streams the code leaves to nobody (ghost)

vars == <<maps, opened, stop, worker, todo, renewed, dying, short, unserved>>

Init ==
  /\ maps = {} /\ todo = {} /\ renewed = {}
  /\ opened = [f \in FS |-> 0]
  /\ stop = TRUE /\ dying = FALSE /\ short = FALSE /\ unserved = {}
  /\ worker = "none"

\* The worker holds mut.
Locked == worker = "renewing"

\* The worker is a thread that has not returned.
Running == worker \notin {"none", "returned"}

\* It has not left its loop.
Serving == worker \in {"start", "check", "waiting", "renewing"}

-----------------------------------------------------------------------------
\* Output streams.

\* worker.join(): the worker thread has returned, or there was none.
Joins == ~Running

\* registerOpenedOutputStream and the entry of the map.
Registers(f) ==
  /\ opened[f] < MaxOpen
  /\ maps' = maps \cup {f}
  /\ opened' = [opened EXCEPT ![f] = @ + 1]

\* A stream of f opens; it starts the worker when there is none.
StartRenew(f) ==
  /\ ~dying /\ ~Locked
  /\ Registers(f)
  /\ \/ /\ ~stop /\ UNCHANGED <<stop, worker>>
        /\ unserved' = IF Serving THEN unserved \ {f} ELSE unserved \cup {f}
     \/ /\ stop /\ Joins /\ stop' = FALSE /\ worker' = "start"
        /\ unserved' = unserved \ maps'
  /\ UNCHANGED <<todo, renewed, dying, short>>

\* The thread cannot be created: CREATE_THREAD throws after stop was cleared
\* and the stream was registered, and the open fails.
StartRenewFails(f) ==
  /\ "thread" \in Faults
  /\ ~dying /\ ~Locked
  /\ Registers(f)
  /\ stop /\ Joins /\ stop' = FALSE /\ worker' = "none"
  /\ unserved' = unserved \cup {f}
  /\ UNCHANGED <<todo, renewed, dying, short>>

UnregistersAny(f) ==
  /\ opened' = [opened EXCEPT ![f] = @ - 1]
  /\ maps' = maps \ {f}

\* unregisterOpenedOutputStream, and the map without f after the last one.
Unregisters(f) ==
  /\ opened' = [opened EXCEPT ![f] = @ - 1]
  /\ maps' = IF opened'[f] = 0 THEN maps \ {f} ELSE maps

\* A stream of f closes.
StopRenew(f) ==
  /\ ~dying /\ ~Locked
  /\ opened[f] > 0
  /\ Unregisters(f)
  /\ unserved' = IF opened[f] = 1 THEN unserved \ {f} ELSE unserved
  /\ UNCHANGED <<stop, worker, todo, renewed, dying, short>>

DestroyWithoutStop ==
  /\ ~dying /\ ~Locked
  /\ dying' = TRUE
  /\ UNCHANGED <<maps, opened, stop, worker, todo, renewed, short, unserved>>

\* ~LeaseRenewerImpl, when the process exits: stop is set without the mutex.
\* It returns when it has joined the worker.
Destroy ==
  /\ ~dying
  /\ dying' = TRUE /\ stop' = TRUE
  /\ UNCHANGED <<maps, opened, worker, todo, renewed, short, unserved>>

-----------------------------------------------------------------------------
\* The worker thread.

WorkerGoes(place) ==
  /\ worker' = place
  /\ UNCHANGED <<maps, opened, stop, todo, renewed, dying, short, unserved>>

\* The thread begins; the code asserts that stop is false here.
Starts == worker = "start" /\ WorkerGoes("check")

\* while (!stop), and the wait with the mutex released.
Checks ==
  /\ worker = "check"
  /\ \/ stop /\ WorkerGoes("exiting")
     \/ ~stop /\ worker' = "waiting" /\ renewed' = {}
        /\ UNCHANGED <<maps, opened, stop, todo, dying, short, unserved>>

\* if (stop || maps.empty()) break;
Leaves == stop \/ maps = {}

\* wait_for returns with mut held: after the interval, on the notification of
\* the destructor, or spuriously.
Wakes ==
  /\ worker = "waiting"
  /\ \/ Leaves /\ WorkerGoes("exiting")
     \/ ~Leaves /\ worker' = "renewing" /\ todo' = maps
        /\ UNCHANGED <<maps, opened, stop, renewed, dying, short, unserved>>

\* FileSystemImpl::renewLease succeeds: the call to the namenode returns.
Renews(f) ==
  /\ opened[f] > 0
  /\ maps' = maps
  /\ renewed' = renewed \cup {f}
  /\ unserved' = unserved

\* renewLease returns false: no stream is open, or the call to the namenode
\* threw (renewLease catches every exception).  The map loses f.
RenewFails(f) ==
  /\ opened[f] = 0 \/ "rpc" \in Faults
  /\ maps' = maps \ {f}
  /\ renewed' = renewed
  /\ unserved' = IF opened[f] > 0 THEN unserved \cup {f} ELSE unserved

RenewFirst ==
  /\ worker = "renewing"
  /\ \E f \in todo :
       /\ Renews(f) \/ RenewFails(f)
       /\ todo' = {}
  /\ UNCHANGED <<opened, stop, worker, dying, short>>

\* One round of the loop over the map.
RenewOne ==
  /\ worker = "renewing"
  /\ \E f \in todo :
       /\ Renews(f) \/ RenewFails(f)
       /\ todo' = todo \ {f}
  /\ UNCHANGED <<opened, stop, worker, dying, short>>

\* The end of the loop.
RenewedAll ==
  /\ worker = "renewing" /\ todo = {}
  /\ WorkerGoes(IF maps = {} THEN "exiting" ELSE "check")

\* No memory for the log message of a failed renewal: the exception ends this
\* loop (caught with memory for its own message) or the thread.
OutOfMemory ==
  /\ "memory" \in Faults
  /\ worker = "renewing" /\ todo # {}
  /\ todo' = {} /\ short' = TRUE
  /\ worker' \in {"renewing", "exiting"}
  /\ UNCHANGED <<maps, opened, stop, renewed, dying, unserved>>

\* The last statement, without the mutex: stop = true.
Exits ==
  /\ worker = "exiting"
  /\ stop' = TRUE /\ worker' = "returning"
  /\ UNCHANGED <<maps, opened, todo, renewed, dying, short, unserved>>

\* The thread returns from renewer and can be joined.
Returns == worker = "returning" /\ WorkerGoes("returned")

-----------------------------------------------------------------------------
Worker ==
  \/ Starts \/ Checks \/ Wakes \/ RenewOne \/ RenewedAll \/ OutOfMemory
  \/ Exits \/ Returns

\* The process has exited: the destructor has joined the worker.
Finished == dying /\ ~Running /\ UNCHANGED vars

Next ==
  \/ \E f \in FS : StartRenew(f) \/ StartRenewFails(f) \/ StopRenew(f)
  \/ Worker
  \/ Destroy
  \/ Finished

Spec == Init /\ [][Next]_vars

\* The operating system runs the worker thread, and wait_for ends after the
\* interval.  Nothing makes a stream open or close.
LiveSpec == Spec /\ WF_vars(Worker)

-----------------------------------------------------------------------------
\* A filesystem with a stream open is in the map of a worker that has not left its
\* loop, however streams open and close around the worker's end and restart.  What
\* the code leaves out is named: a stream opened after the worker's break and before
\* its stop = true, or after a thread could not be created, until the next worker
\* starts; a filesystem whose renewal failed, until it opens a stream again; and
\* everything when memory runs out.
OpenIsServed ==
  ~dying /\ ~short =>
    \A f \in FS : opened[f] > 0 /\ f \notin unserved => f \in maps /\ Serving

\* While the worker has not decided to leave and memory lasts, every filesystem in
\* the map is renewed, is removed, or the renewer is destroyed: the loop neither
\* skips nor starves one.
ServedWhileWorkerRuns ==
  \A f \in FS :
    (f \in maps /\ worker = "check")
      ~> (f \in renewed \/ f \notin maps \/ dying \/ short)

\* The thread ends when the last stream is closed, unless one opens again, and when
\* the renewer is destroyed: the destructor's join returns wherever the worker was,
\* waiting or not when it was notified.
WorkerExits ==
  /\ (maps = {}) ~> (~Running \/ maps # {})
  /\ dying ~> ~Running
=============================================================================
