SPECIFICATION Spec
CONSTANTS
  a1 = a1  a2 = a2  h1 = h1  h2 = h2
  i1 = i1  i2 = i2  i3 = i3  i4 = i4
  Address <- MCAddress1
  Humidity <- MCHumidity1
  InvokeId <- MCInvokeId3
  PowerOn = PowerOn
  PollInterval = 1
  CommsLoss = 3
  LostPollInterval = 3
  Wrap = 6
  MaxInFlight = 2
  Unbound = Unbound
  NoId = NoId
  NoReading = NoReading
PROPERTY OnlyAnswersEndARead
