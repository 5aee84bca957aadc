----------------------------- MODULE ThreadPool -----------------------------
(***************************************************************************)
(* The pool that runs the reads of a stripe and the flushes of an erasure  *)
(* coded file.  Workers take tasks from a queue under a mutex and wait on  *)
(* a condition variable; notify_one wakes a waiting worker, if any, and is *)
(* lost otherwise.                                                         *)
(***************************************************************************)
EXTENDS Integers, Sequences, FiniteSets

CONSTANTS
    Workers,    \* the threads of the pool
    Tasks       \* the tasks its users enqueue

VARIABLES
    worker,     \* "start", "waiting", "woken", a task being run, or "gone"
    tasks,      \* the queue
    notifying,  \* tasks whose enqueue has pushed them and not notified yet
    stop,       \* the destructor has begun
    ran,        \* how often each task has run
    refused,    \* tasks enqueue refused
    poolState   \* "alive", "stopping" (between the mutex and notify_all), "joining", "joined"

poolVars == <<worker, tasks, notifying, stop, ran, refused, poolState>>

\* enqueue of task t: the push, under the mutex.
enqueue(t) ==
    /\ poolState # "joined"
    /\ t \notin {tasks[i] : i \in DOMAIN tasks} \cup refused
    /\ ran[t] = 0 /\ \A w \in Workers : worker[w] # t
    /\ IF stop
       THEN /\ refused' = refused \cup {t}
            /\ UNCHANGED <<tasks, notifying>>
       ELSE /\ tasks' = Append(tasks, t)
            /\ notifying' = notifying \cup {t}
            /\ UNCHANGED refused
    /\ UNCHANGED <<worker, stop, ran, poolState>>

\* notify_one, after the mutex is released: the task may have been taken by now.
notifyOne(t) ==
    /\ t \in notifying
    /\ notifying' = notifying \ {t}
    /\ IF \E w \in Workers : worker[w] = "waiting"
       THEN \E w \in {v \in Workers : worker[v] = "waiting"} : worker' = [worker EXCEPT ![w] = "woken"]
       ELSE UNCHANGED worker
    /\ UNCHANGED <<tasks, stop, ran, refused, poolState>>

\* As takeTask, leaving the queue behind once the pool is being destroyed.
takeTaskUntilStop(w) ==
    /\ worker[w] \in {"start", "woken"}
    /\ IF stop
       THEN worker' = [worker EXCEPT ![w] = "gone"] /\ UNCHANGED tasks
       ELSE IF tasks = <<>>
       THEN worker' = [worker EXCEPT ![w] = "waiting"] /\ UNCHANGED tasks
       ELSE /\ worker' = [worker EXCEPT ![w] = Head(tasks)]
            /\ tasks' = Tail(tasks)
    /\ UNCHANGED <<notifying, stop, ran, refused, poolState>>

\* A worker that holds the mutex: the predicate of the wait, then the way out or
\* the next task.
takeTask(w) ==
    /\ worker[w] \in {"start", "woken"}
    /\ IF ~stop /\ tasks = <<>>
       THEN worker' = [worker EXCEPT ![w] = "waiting"] /\ UNCHANGED tasks
       ELSE IF tasks = <<>>
       THEN worker' = [worker EXCEPT ![w] = "gone"] /\ UNCHANGED tasks
       ELSE /\ worker' = [worker EXCEPT ![w] = Head(tasks)]
            /\ tasks' = Tail(tasks)
    /\ UNCHANGED <<notifying, stop, ran, refused, poolState>>

\* task(): a packaged_task keeps what its function throws for the future.
runTask(w) ==
    /\ worker[w] \in Tasks
    /\ ran' = [ran EXCEPT ![worker[w]] = @ + 1]
    /\ worker' = [worker EXCEPT ![w] = "start"]
    /\ UNCHANGED <<tasks, notifying, stop, refused, poolState>>

\* A wait may return without a notification.
spuriousWakeup(w) ==
    /\ worker[w] = "waiting"
    /\ worker' = [worker EXCEPT ![w] = "woken"]
    /\ UNCHANGED <<tasks, notifying, stop, ran, refused, poolState>>

\* The destructor: stop under the mutex, notify_all, join.
destroy ==
    /\ poolState = "alive"
    /\ poolState' = "stopping" /\ stop' = TRUE
    /\ UNCHANGED <<worker, tasks, notifying, ran, refused>>

notifyAll ==
    /\ poolState = "stopping"
    /\ poolState' = "joining"
    /\ worker' = [w \in Workers |-> IF worker[w] = "waiting" THEN "woken" ELSE worker[w]]
    /\ UNCHANGED <<tasks, notifying, stop, ran, refused>>

join ==
    /\ poolState = "joining"
    /\ \A w \in Workers : worker[w] = "gone"
    /\ poolState' = "joined"
    /\ UNCHANGED <<worker, tasks, notifying, stop, ran, refused>>

PoolInit ==
    /\ worker = [w \in Workers |-> "start"]
    /\ tasks = <<>> /\ notifying = {} /\ stop = FALSE /\ poolState = "alive"
    /\ ran = [t \in Tasks |-> 0] /\ refused = {}

PoolNext ==
    \/ \E t \in Tasks : enqueue(t) \/ notifyOne(t)
    \/ \E w \in Workers : takeTask(w) \/ runTask(w) \/ spuriousWakeup(w)
    \/ destroy \/ notifyAll \/ join

-----------------------------------------------------------------------------

Queued == {tasks[i] : i \in DOMAIN tasks}

\* A task accepted by enqueue runs exactly once, also when the pool is destroyed
\* with tasks in its queue: the future its caller waits on becomes ready.
TaskRunsOnce ==
    /\ \A t \in Tasks : ran[t] <= 1 /\ (ran[t] = 1 => t \notin Queued \cup refused)
    /\ poolState = "joined" => Queued = {}

\* No worker sleeps through a task: until the pool is stopped, a worker waits only
\* while every queued task has an awake worker to take it or a notification still
\* to come, however the pushes, the notifications outside the mutex, the wake-ups
\* and the tasks' ends interleave (one notify_one per task).
NoLostWakeup ==
    ~stop /\ (\E w \in Workers : worker[w] = "waiting") =>
        Len(tasks) <= Cardinality({w \in Workers : worker[w] \in {"start", "woken"}}) + Cardinality(notifying)

=============================================================================
