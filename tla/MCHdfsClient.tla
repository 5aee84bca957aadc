---------------------------- MODULE MCHdfsClient ----------------------------
(***************************************************************************)
(* Instance of HdfsClient for TLC.                                         *)
(*   alone      one thread calls every other function, and a namenode may  *)
(*              answer one call with any error;                            *)
(*   listing    one thread lists a directory that changes meanwhile;       *)
(*   failover   two threads call while a call breaks;                      *)
(*   switchover two threads call while the active namenode changes;        *)
(*   twice      one thread calls while both happen;                        *)
(*   lifetime   a thread disconnects while the other one uses its file;    *)
(*   exit       the process exits while two threads call.                  *)
(***************************************************************************)
EXTENDS HdfsClient

Both(f, g) == [t \in Threads |-> IF t = "t1" THEN f ELSE g]

Scenario(fs, f, e, s, i, x) ==
    [functions |-> fs, faults |-> f, errors |-> e, switches |-> s, idle |-> i, exit |-> x]

MCScenarios ==
    LET alone == Scenario(Both(AllFunctions \ ListFunctions, {}), 0, 1, 0, FALSE, FALSE)
        listing == Scenario(Both({"hdfsConnect"} \cup ListFunctions, {}),
                            0, 0, 0, FALSE, FALSE)
        failover == Scenario(Both({"hdfsConnect", "hdfsDelete"}, {"hdfsDelete"}),
                             1, 0, 0, FALSE, FALSE)
        switchover == [failover EXCEPT !.faults = 0, !.switches = 1]
        twice == Scenario(Both({"hdfsConnect", "hdfsDelete"}, {}), 1, 0, 1, FALSE, FALSE)
        lifetime == Scenario(Both({"hdfsConnect", "hdfsDisconnect"},
                                  {"openWrite", "hdfsWrite", "hdfsCloseFile"}),
                             1, 0, 0, TRUE, FALSE)
        exit == Scenario(Both({"hdfsConnect", "hdfsGetUsed"}, {"hdfsGetUsed"}),
                         0, 0, 0, TRUE, TRUE)
    IN  {alone, listing, failover, switchover, twice, lifetime, exit}
=============================================================================
