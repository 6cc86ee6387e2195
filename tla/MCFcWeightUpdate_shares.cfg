\* Four threads share 2 x 3 filter blocks over two images.
CONSTANTS
  NThreads = 4
  NBlocksIFm = 2
  NBlocksOFm = 3
  NImg = 2
SPECIFICATION Spec
INVARIANTS
  WorkDoneAtBarrier
PROPERTIES
  AllThreadsFinish
