\* Every invocation with ld >= M, including a leading dimension larger than
\* M (a row count given on the command line below the default ld).
CONSTANTS
  MArgs = {1, 2}
  NArgs = {1, 2}
  LdArgs = {2, 3}
  Default <- MCDefault
  Invocations <- PaddedInvocations
SPECIFICATION Spec
INVARIANT ComparesOnlyComputedCells
