\* Crashes in every step of an import, and a peer that rotates.
\* An edge that serves stays as it is unless it is killed.
CHECK_DEADLOCK FALSE
SPECIFICATION FairSpec
CONSTANTS
  p1 = p1
  p2 = p2
  Pairs = {p1, p2}
  Configs <- Importing
  Disks <- BlankOrPrepared
  Absent = Absent
  Torn = Torn
  NoPair = NoPair
  MaxCrashes = 2
  MaxRotations = 1
INVARIANTS
  ColdBootAttestsServed
PROPERTIES
  ServesUnlessBroken
