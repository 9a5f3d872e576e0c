SPECIFICATION FairSpec
CONSTANTS
  Block = 2
  ImageBlocks = 2
  Offers <- Various
  Tasks = {1}
  Overlap = FALSE
INVARIANTS
  TypeOK
  KeyMeansImage
  FlashAsReported
PROPERTIES
  UpdateEnds
