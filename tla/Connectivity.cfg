SPECIFICATION FairSpec
CONSTANTS
  PingSendPeriod = 0
  PppPingPeriod = 2
  DialRetries = 2
  PingRetryMax = 1
  PingLostMax = 1
INVARIANTS
  TypeOK
  Agreement
  ModemStateIsReal
PROPERTIES
  UplinkRefined
  Settles
