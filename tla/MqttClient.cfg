SPECIFICATION FairSpec
CONSTANTS
  QueueSize = 1
  MaxCommands = 2
  Burst <- Shortest
INVARIANTS
  TypeOK
  ClientConsistent
PROPERTIES
  OnceInOrder
  NeverStuck
