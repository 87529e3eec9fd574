\* Two keys, one with a frame that does not verify, two workers and the poller.
SPECIFICATION Spec
CONSTANTS
  k1 = k1
  k2 = k2
  h1 = h1
  h2 = h2
  w1 = w1
  w2 = w2
  Keys = {k1, k2}
  Hashes = {h1}
  HashOf <- MCHashOf
  BadFrames = {k2}
  Workers = {w1, w2}
  Poller = Poller
  TTL = 1
  MaxTime = 1
  NoAuthz = NoAuthz
SYMMETRY WorkerSymmetry
INVARIANTS
  NoAdmissionAfterRevocation
  EpochIsComplete
  StalenessBounded
