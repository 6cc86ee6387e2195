\* Batch-reduce by offset with prefetch: aliased prefetch registers.
CONSTANT Configs <- OffsetPrefetchConfigs
SPECIFICATION Spec
INVARIANT StructArgumentsLoaded
