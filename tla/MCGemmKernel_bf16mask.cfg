\* The AVX-512 mask of an M remainder block enables at least one lane.
CONSTANTS
  Archs <- Bf16MaskArchs
  Descs <- Bf16MaskDescs
SPECIFICATION Spec
INVARIANT
  MaskedTailHasLanes
