---------------------------- MODULE MCRemoteAuth ----------------------------
(* Instances of RemoteAuth for TLC. *)
EXTENDS RemoteAuth, TLC

CONSTANTS k1, k2, h1, h2, w1, w2

\* Every key is registered with the same hash; h2 is a wrong secret.
MCHashOf == [k \in Keys |-> h1]

\* Time goes on for ever, so workers come back to L0 again and again.  With the
\* clock standing still, the passing of time is that an entry expires.
Lapse ==
  /\ \E k \in Keys : cache[k] # NoAuthz /\ cache' = [cache EXCEPT ![k] = NoAuthz]
  /\ UNCHANGED <<l0Vars, revocations, localEpoch, due, pc, reqVars, syncVars>>

LapsingSpec == Init /\ [][Next \/ Lapse]_vars /\ Fairness

WorkerSymmetry == Permutations(Workers)
=============================================================================
