SPECIFICATION Spec
CONSTANTS
  c1 = c1  c2 = c2
  Ca <- MCCa2
  MaxKey = 3
  Faults = {"crash", "temp"}
  Absent = Absent
  Garbled = Garbled
  Unusable = Unusable
  NotStaged = NotStaged
  NoTls = NoTls
SYMMETRY Symmetry
INVARIANTS
  TypeOK
  KeyIsAtHand
  RunsOnWhatIsOnDisk
  RefusedMeansUnchanged
  AcceptedMeansInstalled
PROPERTIES
  KeysChangeWithCertificates
