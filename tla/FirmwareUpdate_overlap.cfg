SPECIFICATION Spec
CONSTANTS
  Block = 2
  ImageBlocks = 2
  Offers <- Two
  Tasks = {1, 2}
  Overlap = TRUE
INVARIANTS
  KeyMeansImage
