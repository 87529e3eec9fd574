\* Orders of two authorizations; two issues, any renewals, one torn file.
SPECIFICATION Spec
CONSTANTS
  Keys = {k1, k2, k3}
  NoKey = NoKey
  N = 2
  ReadyTries = 2
  CertTries = 2
  Absent = Absent
  Torn = Torn
  Configs <- MCConfigs
  MaxIssues = 2
  MaxTears = 1
SYMMETRY KeySymmetry
INVARIANTS
  ProbeFindsToken
  MixedOnlyIfInterrupted
  ProdServesAttested
PROPERTIES
  RenewKeepsSpki
