SPECIFICATION Spec
CONSTANTS
  c1 = c1  c2 = c2  d1 = d1  d2 = d2
  NoInstance = NoInstance
  Instance <- MCInstance
  Ca <- MCCa1
  MaxKey = 3
  MaxUuid = 1
  Faults = {"stop", "split"}
INVARIANTS
  CertificateHasItsKey
