SPECIFICATION BusSpec
CONSTANTS
  AtsSettings = {}
  AirconSettings = {"temp1"}
  Values = {12, 20}
  Fitted = {"door", "aircon"}
  Late = {"aircon"}
  Writers = {"mqtt"}
  Limit = 1
  CounterMod = 1
INVARIANTS
  SettingKept
  RecordedFromOwner
