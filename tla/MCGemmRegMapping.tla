--------------------------- MODULE MCGemmRegMapping ---------------------------
(***************************************************************************)
(* Model-checking instances of GemmRegMapping.                             *)
(***************************************************************************)
EXTENDS GemmRegMapping

\* Prefetch registers that the batch-reduce-by-offset renaming leaves on
\* the count and offset registers (lines 48-56 vs 78-80).
OffsetPrefetch(c) == c.br = "offset" /\ c.prefetch

\* I8/I8 with address or stride batch-reduce leaves b_prefetch UNDEF (line 66).
I8UndefPrefetch(c) == c.i8 /\ c.prefetch /\ c.br \in {"address", "stride"}

\* Windows: only the plain GEMM roles are mapped (lines 33-40, "TODO").
WinUnsupported(c) == c.plat = "win" /\ (c.br # "none" \/ c.prefetch \/ c.i8)

\* Every variant the code maps completely.
MappedConfigs ==
  {c \in Config : ~OffsetPrefetch(c) /\ ~I8UndefPrefetch(c) /\ ~WinUnsupported(c)}

OffsetPrefetchConfigs ==
  {c \in Config : OffsetPrefetch(c) /\ c.plat = "linux" /\ c.abi = "xgemm"}

I8UndefConfigs ==
  {c \in Config : I8UndefPrefetch(c) /\ c.plat = "linux" /\ c.abi = "xgemm"}
=============================================================================
