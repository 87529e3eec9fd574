---------------------------- MODULE MCEdgeStartup ---------------------------
(* Instances of EdgeStartup for TLC. *)
EXTENDS EdgeStartup

CONSTANTS p1, p2

\* An edge of the fleet imports; it may also export.
Importing == {[peer |-> TRUE, listen |-> l] : l \in BOOLEAN}

Blank    == {[sealed |-> Absent, cert |-> Absent]}
Prepared == {[sealed |-> p1, cert |-> p1]}
BlankOrPrepared == Blank \cup Prepared
=============================================================================
