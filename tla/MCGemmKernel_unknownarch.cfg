\* A target outside the supported tiers is reported as an architecture error.
CONSTANTS
  Archs <- UnknownArchs
  Descs <- UnknownArchDescs
SPECIFICATION Spec
INVARIANT
  UnknownArchReportedAsArch
