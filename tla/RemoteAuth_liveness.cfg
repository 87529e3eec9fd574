\* Two keys and one worker under the fairness of the poller.
SPECIFICATION LapsingSpec
CONSTANTS
  k1 = k1
  k2 = k2
  h1 = h1
  h2 = h2
  w1 = w1
  w2 = w2
  Keys = {k1, k2}
  Hashes = {h1, h2}
  HashOf <- MCHashOf
  BadFrames = {}
  Workers = {w1}
  Poller = Poller
  TTL = 1
  MaxTime = 0
  NoAuthz = NoAuthz
INVARIANTS
  OnlyRegisteredSecret
PROPERTIES
  RevocationArrives
