SPECIFICATION BusFairSpec
CONSTANTS
  AtsSettings = {"maxRuntime"}
  AirconSettings = {}
  Values = {12}
  Fitted = {"ats", "aircon"}
  Late = {}
  Writers = {}
  Limit = 2
  CounterMod = 3
INVARIANTS
  BusTypeOK
PROPERTIES
  NoFalseMiss
  NeverStuck
