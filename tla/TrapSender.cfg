SPECIFICATION FairSpec
CONSTANTS
  NPlain = 1
  NUsers = 1
  NCards = 2
  Period = 1
INVARIANTS
  TypeOK
  NothingForgotten
  TrapIsOneCard
PROPERTIES
  EventuallyReported
