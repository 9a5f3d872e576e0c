SPECIFICATION Spec
CONSTANTS
  NAlarms = 6
  Displayed = 5
  Raisable = {0, 1, 2, 4}
  PageSize = 2
INVARIANTS
  TypeOK
  DisplayExact
PROPERTIES
  NothingHidden
  IsAlarmList
