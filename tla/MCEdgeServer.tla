---------------------------- MODULE MCEdgeServer ----------------------------
(* Instances of EdgeServer for TLC. *)
EXTENDS EdgeServer

CONSTANTS c1, c2, c3, c4, c5, i1, i2, w1, w2

\* The last two connections come from the second address.
MCIpOf == [c \in Conns |-> IF c \in {c4, c5} THEN i2 ELSE i1]
=============================================================================
