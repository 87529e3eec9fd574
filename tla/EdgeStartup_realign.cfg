\* A warm edge whose peer has another key.
\* An edge that serves stays as it is unless it is killed.
CHECK_DEADLOCK FALSE
SPECIFICATION Spec
CONSTANTS
  p1 = p1
  p2 = p2
  Pairs = {p1, p2}
  Configs <- Importing
  Disks <- Prepared
  Absent = Absent
  Torn = Torn
  NoPair = NoPair
  MaxCrashes = 0
  MaxRotations = 0
INVARIANTS
  AttestedIsServed
