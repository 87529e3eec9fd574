CONSTANTS
  v1 = v1
  cur = cur
  old = old
  k1 = k1
  k2 = k2
  g1 = g1
  g2 = g2
  Verifiers = {v1}
  Builds = {cur, old}
  Keys = {k1, k2}
  Versions = {g1, g2}
  Versioned = {cur}
  Image <- MCImage
  Unpinned = Unpinned
  Options <- MCOptions
  Answers <- MCAnswers
  GitHub <- MCGitHub
  Www <- MCWww
  Goldens <- MCGoldens
  GoldenWww <- MCGoldenWww
  Ceremonies <- MCCeremonies
  Missing = Missing
  Absent = Absent
  Torn = Torn
SPECIFICATION FairSpec
INVARIANTS
  NoRollback
  VerdictSound
  CeremonyPinned
PROPERTY
  Terminates
