\* Every route at its limits, with a policy that changes and maintenance.
SPECIFICATION Spec
CONSTANTS
  None = None
  Second = 2
  SoftRetry = 180
  w1 = w1
  w2 = w2
  i1 = i1
  k1 = k1
  Workers = {w1, w2}
  Requested = {"attestation", "models", "inference", "unsupported"}
  Ips = {i1}
  Keys = {k1}
  Window = 2
  IpRpm = 2
  KeyRpms = {1, 2}
  ChallengeRpm = 1
  MaxInflight = 1
  Bench = TRUE
  Manifests <- MCManifests
  MaxTime = 3
SYMMETRY WorkerSymmetry
INVARIANTS
  KeyBurstBounded
  AuthStormCapped
  ChallengeGateExact
