SPECIFICATION Spec
CONSTANTS
  Values = {d, v}
  Default = d
  Wrong = wrong
  Blank = blank
  Groups = {{"battery", "aircon"}, {"battery", "ip1", "ip2"}, {"aircon", "ip1", "ip2"}}
INVARIANTS
  TypeOK
  
  AddressWhole
PROPERTIES
  SettingsSurvive
