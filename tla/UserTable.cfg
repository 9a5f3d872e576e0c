SPECIFICATION TableFairSpec
CONSTANTS
  NumberLen = 2
  Numbers = {n1, n2}
  Zero = zero
INVARIANTS
  TableTypeOK
  RowIsAsEntered
PROPERTIES
  StoresEnd
