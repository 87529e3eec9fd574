\* Two workers, every kind of offer under four policies, a clock that rewinds,
\* failed calls and writes, and crashes.
SPECIFICATION FairSpec
CONSTANTS
  w1 = w1
  w2 = w2
  good = good
  bad = bad
  Workers = {w1, w2}
  Nobody = Nobody
  MaxTime = 2
  Reports = {good, bad}
  Genuine = {good}
  Policies <- MCPolicies
  Offers <- MCOffers
  Absent = Absent
  Torn = Torn
INVARIANTS
  PlaintextOnlyToTrusted
  DeadEpochStaysDead
  FloorHoldsTime
PROPERTIES
  LockIsReleased
