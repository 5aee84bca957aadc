------------------------------ MODULE MCStriped ------------------------------
(***************************************************************************)
(* A striped file is written, in one or more sessions, while datanodes and *)
(* the namenode fail, and read back.                                       *)
(***************************************************************************)
EXTENDS StripedInputStream

Work(sessions, rpcFaults, maxDead) ==
    [sessions |-> sessions, rpcFaults |-> rpcFaults, maxDead |-> maxDead]
AllRpcs == {"addBlock", "updateBlockForPipeline", "updatePipeline", "complete"}

\* One group with a partial last stripe, two groups, a second session that
\* starts a group of its own, calls that cut chunks, a namenode that fails.
\* Three failures are one more than the two parity blocks make up for.
MCWorks == {Work(<<<<1>>>>, {}, 3), Work(<<<<8>>>>, {}, 3), Work(<<<<12, 5>>>>, {}, 3),
            Work(<<<<24, 5>>>>, {}, 1), Work(<<<<13>>, <<>>, <<6>>>>, {}, 1),
            Work(<<<<3, 3, 9, 4>>>>, {}, 1), Work(<<<<28>>>>, AllRpcs, 1)}
OneGroup == {Work(<<<<24>>>>, {}, 1)}

vars == <<out, dn, nn, dead, app, in, got>>

Init == WriterInit /\ ReaderInit
write == Writing /\ UNCHANGED readerVars
nodeFails == /\ \E g \in DOMAIN dn, i \in Idx : datanodeFails(g, i)
             /\ UNCHANGED readerVars
rest == Finished /\ UNCHANGED vars

Next == write \/ nodeFails \/ openFile \/ Reading \/ rest
Spec == Init /\ [][Next]_vars
=============================================================================
