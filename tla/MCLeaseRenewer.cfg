SPECIFICATION LiveSpec
CONSTANTS
  FS = {f1, f2}
  MaxOpen = 2
  Faults = {"rpc", "thread", "memory"}
INVARIANT OpenIsServed
PROPERTIES ServedWhileWorkerRuns WorkerExits
