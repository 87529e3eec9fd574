---------------------------- MODULE MCAdmission -----------------------------
(* Instances of Admission for TLC. *)
EXTENDS Admission, TLC

CONSTANTS w1, w2, i1, k1

\* No maintenance, and a window that turns soft, without end, while the next
\* one is still hard.
Fleet(nb, h, s) ==
  [scope |-> "fleet", notBefore |-> nb, hard |-> h, soft |-> s, legacy |-> None]

MCManifests == {<<>>, <<Fleet(0, 1, None), Fleet(1, 2, 3)>>}

WorkerSymmetry == Permutations(Workers)
=============================================================================
