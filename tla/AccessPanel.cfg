SPECIFICATION Spec
CONSTANTS
  NUsers = 2
  CardLen = 2
INVARIANTS
  TypeOK
  SelectionFits
  LearnsForOpenRow
  NumbersFramed
