------------------------------- MODULE Bytes -------------------------------
(***************************************************************************)
(* Bytes as numbers and their exclusive or, for the field of the erasure   *)
(* coder and for the checksums.                                            *)
(***************************************************************************)
EXTENDS Integers, Sequences, TLC

Byte == 0 .. 255

\* f, tabulated by TLC instead of evaluated at each application.
Tabulate(f) == f @@ <<>>

\* Exclusive or of two bytes.
XorTable ==
    LET bit(n, i) == IF (n \div 2 ^ i) % 2 = (n \div 2 ^ (8 + i)) % 2 THEN 0 ELSE 2 ^ i
    IN  SubSeq([n \in 1 .. 65536 |-> bit(n - 1, 0) + bit(n - 1, 1) + bit(n - 1, 2) + bit(n - 1, 3)
                                     + bit(n - 1, 4) + bit(n - 1, 5) + bit(n - 1, 6) + bit(n - 1, 7)],
               1, 65536)

Xor(a, b) == XorTable[256 * a + b + 1]

=============================================================================
