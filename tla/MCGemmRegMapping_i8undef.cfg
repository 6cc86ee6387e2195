\* I8/I8 batch-reduce by address or stride with prefetch: UNDEF b_prefetch.
CONSTANT Configs <- I8UndefConfigs
SPECIFICATION Spec
INVARIANT PrologueRegistersMapped
