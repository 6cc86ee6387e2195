\* Invocations with ld = M: what the sample compares is what it computed.
CONSTANTS
  MArgs = {1, 2, 3}
  NArgs = {1, 2, 3}
  LdArgs = {1, 2, 3}
  Default <- MCDefault
  Invocations <- DenseInvocations
SPECIFICATION Spec
INVARIANT ComparesOnlyComputedCells
