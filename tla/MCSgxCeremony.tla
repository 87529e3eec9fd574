--------------------------- MODULE MCSgxCeremony ----------------------------
(* The ceremony slot, a lab edge without policy, and an edge that imports. *)
EXTENDS SgxCeremony, TLC

MCConfigs ==
  { [prod |-> TRUE,  peer |-> FALSE, listen |-> TRUE,  policy |-> "key_ceremony"],
    [prod |-> TRUE,  peer |-> TRUE,  listen |-> TRUE,  policy |-> "seal_sync"],
    [prod |-> FALSE, peer |-> FALSE, listen |-> FALSE, policy |-> "unset"],
    [prod |-> TRUE,  peer |-> TRUE,  listen |-> FALSE, policy |-> "key_ceremony"] }

KeySymmetry == Permutations(Keys)
=============================================================================
