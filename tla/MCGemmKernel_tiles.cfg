\* Blocking and tiling of floating-point GEMMs on the SSE..AVX-512 tiers and
\* of low-precision GEMMs on the AVX-512 tiers (masked M remainders), and the
\* calling conventions, batch-reduce modes, transposed A, fusion and
\* tileconfig, on every tier.
CONSTANTS
  Archs <- TileArchs
  Descs <- TileDescs
SPECIFICATION Spec
INVARIANTS
  TypeOK
  ProductCoveredOnce
  LoopBranchesMatch
  StackRestoredAtReturn
  ArchErrorPrecedesAbiError
PROPERTY
  SweepProgresses
