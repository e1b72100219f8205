SPECIFICATION Spec
CONSTANTS
  c1 = c1  c2 = c2  d1 = d1  d2 = d2
  NoInstance = NoInstance
  Instance <- MCInstance
  Ca <- MCCa
  MaxKey = 3
  MaxUuid = 2
  Faults = {"stop", "open"}
SYMMETRY Symmetry
INVARIANTS
  TypeOK
  CertificateHasItsKey
  TrustIsWhatTheCaSent
  RequestCanBeAnswered
  FailsOnlyAfterACut
  IdentityIsKept
