--------------------------- MODULE MCInputStream ----------------------------
(***************************************************************************)
(* InputStream on files of two blocks of two chunks, on two datanodes of   *)
(* which the nearest is on the host of the client.                         *)
(***************************************************************************)
EXTENDS InputStream

MCLocations == <<"dn1", "dn2">>

Written == [complete |-> TRUE, allocated |-> FALSE, length |-> 7, writing |-> 0, epoch |-> 0]
Growing == [complete |-> FALSE, allocated |-> TRUE, length |-> 4, writing |-> 1, epoch |-> 0]
Created == [complete |-> FALSE, allocated |-> FALSE, length |-> 0, writing |-> 0, epoch |-> 0]

Good == [missing |-> FALSE, bad |-> {}, type |-> "crc"]
Gone == [Good EXCEPT !.missing = TRUE]
Base0 == [file |-> Written, given |-> FALSE, verify |-> TRUE, localRead |-> FALSE,
          legacy |-> FALSE, secure |-> FALSE, stay |-> FALSE, expiring |-> FALSE,
          replicas |-> [dn1 |-> Good, dn2 |-> Good]]
MCScenarios ==
    {Base0,
     [Base0 EXCEPT !.given = TRUE, !.replicas.dn1.bad = {2}],
     [Base0 EXCEPT !.replicas.dn1.bad = {6}, !.verify = FALSE, !.expiring = TRUE],
     [Base0 EXCEPT !.replicas.dn1 = Gone, !.replicas.dn2.type = "null"],
     [Base0 EXCEPT !.stay = TRUE, !.verify = FALSE],
     [Base0 EXCEPT !.stay = TRUE, !.localRead = TRUE, !.file = Growing],
     [Base0 EXCEPT !.localRead = TRUE, !.expiring = TRUE],
     [Base0 EXCEPT !.localRead = TRUE, !.verify = FALSE, !.replicas.dn1.type = "null"],
     [Base0 EXCEPT !.localRead = TRUE, !.replicas.dn1.bad = {6}, !.replicas.dn2 = Gone],
     [Base0 EXCEPT !.localRead = TRUE, !.legacy = TRUE, !.replicas.dn2 = Gone],
     [Base0 EXCEPT !.localRead = TRUE, !.legacy = TRUE, !.secure = TRUE],
     [Base0 EXCEPT !.file = Growing, !.replicas.dn1 = Gone],
     [Base0 EXCEPT !.file = Created, !.localRead = TRUE]}
=============================================================================
