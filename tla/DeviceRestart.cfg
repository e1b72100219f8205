SPECIFICATION FairSpec
CONSTANTS
  Slots = 2
  States = 1
  Value <- MCValue
  Delay = 3
  MaxPass = 2
  Null = Null
INVARIANTS
  TypeOK
  PromisesAreKept
  FirstAckIsOut
PROPERTIES
  CommandsOutliveWarmRestarts
  EveryRequestRestarts
