\* One thread computes all 2 x 3 filter blocks over two images, so the
\* result depends on the decoding of the work items alone.
CONSTANTS
  NThreads = 1
  NBlocksIFm = 2
  NBlocksOFm = 3
  NImg = 2
SPECIFICATION Spec
INVARIANTS
  FilterGradientComputed
