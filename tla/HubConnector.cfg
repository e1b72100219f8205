SPECIFICATION FairSpec
CONSTANTS
  s1 = s1  s2 = s2
  UriOrder <- MCUris
  Socket <- MCSockets
  NoSocket = NoSocket
  MaxQueued = 1
  MaxFrame = 2
  MaxFragments = 3
  MaxReceived = 1
INVARIANTS
  TypeOK
  ToldTheTruth
  OpenIsLive
  FramesAreWhole
  FramesStayOnTheirConnection
PROPERTIES
  AttemptIsAnswered
