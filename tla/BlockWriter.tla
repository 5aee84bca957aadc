---------------------------- MODULE BlockWriter ----------------------------
(***************************************************************************)
(* What a write pipeline promises its stream (client/Pipeline.h, the       *)
(* interface Pipeline): bytes are handed over with send, the length that   *)
(* is acked only grows and never passes what was handed over, flush and    *)
(* close return only when everything is acked, and an error is final.      *)
(***************************************************************************)
EXTENDS Naturals

VARIABLES fed, acked, status

bwVars == <<fed, acked, status>>

BWInit ==
    /\ fed \in Nat /\ acked = fed
    /\ status = "open"

HandOver ==
    /\ status = "open"
    /\ fed' \in Nat /\ fed' >= fed
    /\ UNCHANGED <<acked, status>>

Ack ==
    /\ status = "open"
    /\ acked' \in acked..fed
    /\ UNCHANGED <<fed, status>>

CloseBlock ==
    /\ status = "open" /\ acked = fed
    /\ status' = "closed"
    /\ UNCHANGED <<fed, acked>>

Fail ==
    /\ status = "open"
    /\ status' = "failed"
    /\ UNCHANGED <<fed, acked>>

BWNext == HandOver \/ Ack \/ CloseBlock \/ Fail

BWSpec == BWInit /\ [][BWNext]_bwVars
=============================================================================
