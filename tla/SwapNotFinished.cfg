SPECIFICATION Spec
CONSTANTS
  c1 = c1  c2 = c2
  Ca <- MCCa
  MaxKey = 3
  Faults = {"promote"}
  Absent = Absent
  Garbled = Garbled
  Unusable = Unusable
  NotStaged = NotStaged
  NoTls = NoTls
INVARIANTS
  KeyIsAtHand
