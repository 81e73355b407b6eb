SPECIFICATION Spec
CONSTANTS
  NChans = 2
  BlockSize = 2
  MaxBlocks = 3
  Starts = {0, 1, 3}
INVARIANTS NothingLeaks FileIsSound FileInStep
