\* All four batch-reduce flavours, trip counts 1 to 3.
CONSTANTS
  Modes = {"address", "address_pf", "offset", "stride"}
  Counts = {1, 2, 3}
  MaxCount = 3
  C1 = 7
  C2 = 11
  KDriftA = 3
  KDriftB = 5
  KDriftPf = 2
SPECIFICATION Spec
PROPERTY ImplementsBatchReduce
