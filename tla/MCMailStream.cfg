CONSTANTS
  h1 = h1
  h2 = h2
  Hosts = {h1, h2}
  Batch = 2
  MaxMsgs = 3
  MaxFaults = 2
  MaxDeaths = 1
SPECIFICATION MailFairSpec
INVARIANTS
  TwiceNeedsLoss
  NoMailForgotten
PROPERTY EachMailIsTried
CHECK_DEADLOCK FALSE
