SPECIFICATION DFairSpec
CONSTANTS
  HubUri <- MCHubUri
  BadName <- MCBadName
  HasBaud76800 = FALSE
  MaxInterface = 8
  Words <- MCWords
  MaxWords = 3
  AnnounceTimeout = 2
  MaxPass = 2
  Contract <- MCContract
  Peer = {here, tool, tool2}
  OnOurPort = {here}
  Nobody = nobody
  Sender = {a, b, c}
  Interface = {1, 2}
  MaxRememberedSenders = 2
  Octet = {0, 1}
  FileMaxSize = 2
  Wrap = 8
  PortValues <- MCPortValues
INVARIANTS
  DTypeOK
  OrderDoesNotMatter
  SetupIsAccepted
  CallbacksMatchTheObjects
  NobodyMissesTheDevice
  AskersHearOnce
  AnswersLeaveWhereTheyCame
  FileRoundTrips
  OnlyIPv6SettingsAreRefused
PROPERTIES
  Announced
CHECK_DEADLOCK FALSE
